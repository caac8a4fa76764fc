CONSTANTS
  Names = {n1, n2}
  NodeLists <- MCNodeLists
  TopLists <- MCTopLists
  MaxNodeRules = 3
SPECIFICATION Spec
INVARIANTS TypeOK GetUrlIsSafe HostnamesAreBare
PROPERTY FirstDefinitionWins
CHECK_DEADLOCK FALSE
