SPECIFICATION PollingSpec
CONSTANTS
  None = None
  Calls = {c1, c2}
  Askers = {a1}
  MaxSamples = 1
  MaxFaults = 1
CHECK_DEADLOCK FALSE
SYMMETRY SameCallsAndAskers
INVARIANT LeftAsFound
