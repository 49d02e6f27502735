SPECIFICATION LeaseSpec
CONSTANTS
  Procs = {p1, p2, p3}
  NoLease = NoLease
  MaxTokens = 3
  MaxCrashes = 1
  MaxRestarts = 0
  MaxFailures = 0
  MaxStalls = 0
SYMMETRY Symmetry
INVARIANT MutualExclusion
CHECK_DEADLOCK FALSE
