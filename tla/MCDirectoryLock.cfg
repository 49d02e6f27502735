SPECIFICATION FairSpec
CONSTANTS
  Procs = {p1, p2, p3}
  NoLock = NoLock
  MaxTokens = 3
  MaxCrashes = 1
  MaxFailures = 1
CHECK_DEADLOCK FALSE
INVARIANT NoReplacementRetired
PROPERTY ImplementsMutex
PROPERTY GuardedLockRecovered
