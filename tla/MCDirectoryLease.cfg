SPECIFICATION LeaseFairSpec
CONSTANTS
  Procs = {p1, p2, p3}
  NoLease = NoLease
  MaxTokens = 3
  MaxCrashes = 1
  MaxRestarts = 1
  MaxFailures = 1
  MaxStalls = 1
CHECK_DEADLOCK FALSE
INVARIANT ExclusiveUndisturbed
PROPERTY LeaseRecovered
