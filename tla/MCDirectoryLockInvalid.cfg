SPECIFICATION Spec
CONSTANTS
  Procs = {p1, p2}
  NoLock = NoLock
  MaxTokens = 2
  MaxCrashes = 0
  MaxFailures = 0
SYMMETRY Symmetry
INVARIANT InvalidOnlyIfMalformed
CHECK_DEADLOCK FALSE
