SPECIFICATION Spec
CONSTANTS
  None = None
  MaxEffects = 3
  MaxFaults = 2
CHECK_DEADLOCK FALSE
INVARIANT RequestsSound
INVARIANT ReportedValueHolds
PROPERTY ClosesUnlessStuck
