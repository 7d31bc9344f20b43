SPECIFICATION Spec
CONSTANTS
  Rules <- MCRules
  TokenNT <- MCTokenNT
  TokSym <- MCTokSym
  ClassOf <- MCClassOf
  Builds <- MCBuilds
INVARIANTS
  GraphsParse
  GotosCounted
  Deterministic
