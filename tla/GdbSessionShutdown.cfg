SPECIFICATION Spec
CONSTANTS
  MaxServers = 1
  Faults = {"shutdown"}
PROPERTY NeverKilledWithBreakpoints
CHECK_DEADLOCK FALSE
