SPECIFICATION Spec
CONSTANTS
  MaxSessions = 2
  MaxGenerations = 2
  MaxWaiting = 1
  MaxFaults = 1
  Faults = {"hang", "update", "release"}
INVARIANT HelperCovered
INVARIANT NoInterleaving
INVARIANT NoLostHelper
INVARIANT WriteReported
