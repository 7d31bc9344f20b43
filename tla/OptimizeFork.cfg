SPECIFICATION ForkSpec
CONSTANTS
  Names <- MCNames
  Entry = "entry"
  TokSym <- MCTokSym
  ClassOf <- MCClassOf
INVARIANT
  Preserved
CHECK_DEADLOCK FALSE
