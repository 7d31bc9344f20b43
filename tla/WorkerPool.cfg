SPECIFICATION FairSpec
CONSTANTS
  Size = 3
  MaxRuns = 2
  MayPanic = TRUE
  NULL = NULL
INVARIANTS
  RunIsComplete
  ErrorsSurface
  DeathIsNoticed
  DropJoinsAll
PROPERTY Returns
CHECK_DEADLOCK FALSE
