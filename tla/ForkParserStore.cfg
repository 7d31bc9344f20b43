SPECIFICATION FairSpec
CONSTANTS
  Task <- Layouts
  Rule <- MCRule
  Start <- MCStart
  Items <- MCItems
  Table <- MCTable
  Target <- MCTarget
  Ignored <- MCIgnored
  Zero <- MCZero
  END = END
  NULL = NULL
INVARIANT EnoughSymbols
CHECK_DEADLOCK FALSE
