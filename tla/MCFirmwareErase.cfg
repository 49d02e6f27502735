SPECIFICATION Spec
CONSTANTS
  Procs = {p1, p2}
  Nobody = Nobody
  Readers = {}
  Files = {f1, f2}
  MaxGen = 2
  MaxCrashes = 0
  ImageSets = {{}, {f1}, {f2}}
  Faults = {"observe"}
SYMMETRY Symmetry
INVARIANT NoSilentChange
