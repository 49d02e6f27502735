SPECIFICATION Spec
CONSTANTS
  MaxServers = 1
  Faults = {"timeout"}
INVARIANT LostClientRecoverable
CHECK_DEADLOCK FALSE
