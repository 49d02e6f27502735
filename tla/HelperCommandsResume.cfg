SPECIFICATION CommandSpec
CONSTANTS
  Rate = 500
  Requested = 2
  Times = {0, 2}
INVARIANT ResumesAreTold
