SPECIFICATION Spec
CONSTANTS
  Items = {c1, c2, c3, c4}
  Priorities <- MCPriorities
  InitCapacity = 0
  LenMod = 65536
  NULL = NULL
INVARIANTS
  TypeOK
  Partition
  PushFindsVacantSled
  DropReleasesAll
  LenExact
PROPERTY ImplementsAbstract
SYMMETRY Symmetry
CHECK_DEADLOCK FALSE
