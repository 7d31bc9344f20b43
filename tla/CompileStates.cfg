SPECIFICATION FairCompileSpec
CONSTANTS
  Worker <- MCWorker
  Node <- MCNode
  Successors <- MCSuccessors
  Root <- MCRoot
  Leaf = {"x"}
  Peek = {"b", "a1", "a2"}
  Faulty = {}
  NonTerm <- MCNonTerm
  Entry = {"NA"}
  Predecessors <- MCPredecessors
  NonTermOf <- MCNonTermOf
  NormalRoot <- MCNormalRoot
  FallbackRoot <- MCFallbackRoot
  Scanners <- MCScanners
  StartQueue <- MCStartQueue
  AllowLR = TRUE
  NULL = NULL
  Size = 2
  MaxRuns = 1
  MayPanic = TRUE
INVARIANT GraphsAreFinal
PROPERTY CompileReturns
CHECK_DEADLOCK FALSE
