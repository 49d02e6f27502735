SPECIFICATION Spec
CONSTANTS
  MaxServers = 2
  Faults = {"timeout", "persist", "shutdown"}
CHECK_DEADLOCK FALSE
INVARIANT SessionSound
INVARIANT StopLeavesNoBreakpoint
PROPERTY ManagedResumeJustified
PROPERTY BreakpointSteps
