SPECIFICATION PollingSpec
CONSTANTS
  None = None
  Calls = {c1}
  Askers = {a1}
  MaxSamples = 1
  MaxFaults = 2
CHECK_DEADLOCK FALSE
INVARIANTS
  RecordSound
  LeftAsFound
PROPERTY PollingEnds
