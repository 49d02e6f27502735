SPECIFICATION PollingSpec
CONSTANTS
  None = None
  Calls = {}
  Askers = {a1}
  MaxSamples = 1
  MaxFaults = 1
CHECK_DEADLOCK FALSE
INVARIANT QuietlyLeftAsFound
