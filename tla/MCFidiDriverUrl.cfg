CONSTANTS
  Names = {n1, n2}
  NodeLists <- MCNodeLists
  TopLists <- MCTopLists
  MaxNodeRules = 2
SPECIFICATION Spec
INVARIANT UrlsAreBare
CHECK_DEADLOCK FALSE
