SPECIFICATION Spec
CONSTANTS
  Procs = {p1, p2}
  Kinds = {gdb, hss}
  Targets = {t1, t2}
  Resources = {r1}
  None = None
  MaxSequence = 3
  MaxOwners = 2
  MaxCrashes = 1
  MaxRestarts = 1
  MaxFailures = 1
SYMMETRY Symmetry
CHECK_DEADLOCK FALSE
INVARIANT TurnsInOrder
INVARIANT ExecutionAdmitted
INVARIANT ControllerKeepsOwner
PROPERTY OwnerFailClosed
