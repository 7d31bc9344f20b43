SPECIFICATION ForkBackendSpec
CONSTANTS
  Names <- MCNames
  Entry = "entry"
  TokSym <- MCTokSym
  ClassOf <- MCClassOf
  Orders <- MCRotations
INVARIANT
  Linked
CHECK_DEADLOCK FALSE
