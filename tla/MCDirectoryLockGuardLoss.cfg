SPECIFICATION FairSpec
CONSTANTS
  Procs = {p1, p2}
  NoLock = NoLock
  MaxTokens = 2
  MaxCrashes = 1
  MaxFailures = 0
PROPERTY AbandonedLockRecovered
CHECK_DEADLOCK FALSE
