SPECIFICATION Spec
CONSTANTS
  MaxSessions = 1
  MaxGenerations = 1
  MaxWaiting = 1
  MaxFaults = 0
  Faults = {}
INVARIANT CommandReported
