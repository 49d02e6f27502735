SPECIFICATION PollingSpec
CONSTANTS
  None = None
  Calls = {c1}
  Askers = {a1, a2}
  MaxSamples = 1
  MaxFaults = 2
CHECK_DEADLOCK FALSE
SYMMETRY SameCallsAndAskers
INVARIANT RecordSound
