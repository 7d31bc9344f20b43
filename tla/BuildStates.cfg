SPECIFICATION Spec
CONSTANTS
  Worker = {w1, w2, w3}
  Node <- MCNode
  Successors <- MCSuccessors
  Root <- MCRoot
  Leaf <- MCLeaf
  Peek <- MCPeek
  Faulty = {}
  NonTerm <- MCNonTerm
  Entry = {"NE"}
  Predecessors <- MCPredecessors
  NonTermOf <- MCNonTermOf
  NormalRoot <- MCNormalRoot
  FallbackRoot <- MCFallbackRoot
  Scanners <- MCScanners
  StartQueue <- MCStartQueue
  AllowLR = TRUE
  NULL = NULL
INVARIANTS
  TrackerExact
  NoNodeTwice
  WorkComplete
  EntriesHaveParser
  CallsResolve
SYMMETRY Symmetry
CHECK_DEADLOCK FALSE
