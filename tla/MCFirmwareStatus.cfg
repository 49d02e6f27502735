SPECIFICATION Spec
CONSTANTS
  Procs = {p1, p2}
  Nobody = Nobody
  Readers = {p1, p2}
  Files = {f1, f2}
  MaxGen = 2
  MaxCrashes = 0
  ImageSets = {{}, {f1}, {f2}}
  Faults = {}
SYMMETRY Symmetry
INVARIANT StatusReadSound
