SPECIFICATION FairSpec
CONSTANTS
  Procs = {p1, p2, p3}
  Kinds = {gdb}
  Targets = {t1}
  Resources = {r1}
  None = None
  MaxSequence = 3
  MaxOwners = 0
  MaxCrashes = 1
  MaxRestarts = 0
  MaxFailures = 0
INVARIANT ExclusiveExecution
INVARIANT FirstComeFirstServed
PROPERTY WaiterServed
CHECK_DEADLOCK FALSE
