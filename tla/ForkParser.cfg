SPECIFICATION FairSpec
CONSTANTS
  Task <- Parses
  Rule <- MCRule
  Start <- MCStart
  Items <- MCItems
  Table <- MCTable
  Target <- MCTarget
  Ignored <- MCIgnored
  Zero <- MCZero
  END = END
  NULL = NULL
INVARIANTS
  SlowestFirst
  ContextsTile
  NodesFollowRules
  ForestExact
PROPERTY ParseEnds
CHECK_DEADLOCK FALSE
