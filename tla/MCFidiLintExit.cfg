CONSTANTS
  CommandLines <- MCCommandLines
  Trees <- SyntaxTrees
SPECIFICATION Spec
INVARIANT ErrorsReachTheTop
CHECK_DEADLOCK FALSE
