SPECIFICATION FairSpec
CONSTANTS
  Worker = {w1, w2}
  Node <- MCNode
  Successors <- MCSuccessors
  Root <- MCRoot
  Leaf <- MCLeaf
  Peek <- MCPeek
  Faulty = {"a"}
  NonTerm <- MCNonTerm
  Entry = {"NE", "NA"}
  Predecessors <- MCPredecessors
  NonTermOf <- MCNonTermOf
  NormalRoot <- MCNormalRoot
  FallbackRoot <- MCFallbackRoot
  Scanners <- MCScanners
  StartQueue <- MCStartQueue
  AllowLR = FALSE
  NULL = NULL
PROPERTIES
  Termination
  FailureEndsAll
  NoOkAfterFailure
CHECK_DEADLOCK FALSE
