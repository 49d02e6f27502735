SPECIFICATION PackageSpec
CONSTANTS
  Readers = {r1, r2}
  MaxSamples = 2
  MaxMissing = 1
  MaxFaults = 2
CHECK_DEADLOCK FALSE
INVARIANT PackageSound
INVARIANT ServedIsFinal
PROPERTY FinalForGood
PROPERTY StaleBuildRecovered
