SPECIFICATION PollingSpec
CONSTANTS
  None = None
  Calls = {c1}
  Askers = {a1}
  MaxSamples = 1
  MaxFaults = 0
CHECK_DEADLOCK FALSE
INVARIANT WholeRecord
