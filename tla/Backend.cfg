SPECIFICATION BackendSpec
CONSTANTS
  Names <- MCNames
  Entry = "entry"
  TokSym <- MCTokSym
  ClassOf <- MCClassOf
  Orders <- MCOrders
INVARIANTS
  NamesResolve
  PassesPreserve
  Linked
  Faithful
PROPERTY OptimizeEnds
CHECK_DEADLOCK FALSE
