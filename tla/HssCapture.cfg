SPECIFICATION Spec
CONSTANTS
  Servers = {a, b}
  Starter = a
  MaxClaims = 3
  MaxFaults = 1
CHECK_DEADLOCK FALSE
INVARIANT CaptureSound
INVARIANT SessionAgreesWithPackage
PROPERTY CaptureSettles
