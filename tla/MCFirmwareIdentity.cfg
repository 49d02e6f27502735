SPECIFICATION Spec
CONSTANTS
  Procs = {p1, p2}
  Nobody = Nobody
  Readers = {}
  Files = {f1, f2}
  MaxGen = 2
  MaxCrashes = 1
  ImageSets = {{}, {f1}, {f2}}
  Faults = {"observe", "busy", "marker", "document", "clear"}
SYMMETRY Symmetry
INVARIANT VerifiedIsProgrammed
INVARIANT UnsaidNotSeen
INVARIANT StableInSlot
PROPERTY VerifiedByEvidence
