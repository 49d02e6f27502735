SPECIFICATION Spec
CONSTANTS
  MaxServers = 1
  Faults = {"resume"}
INVARIANT StopLeavesNoBreakpoint
CHECK_DEADLOCK FALSE
