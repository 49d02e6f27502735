SPECIFICATION Spec
CONSTANTS
  Values = {"was", "new", "kept", "torn"}
  Torn = "torn"
  NoValue = "nothing"
  Spellings = {"name", "path"}
  Declared = "kept"
  MaxSteps = 3
  MaxCleanup = 2
INVARIANT SilenceMeansUntouched
INVARIANT ClaimedValueHolds
INVARIANT CleanedOrUnknown
