CONSTANTS
  CommandLines <- MCCommandLines
  Trees <- MCTrees
SPECIFICATION Spec
INVARIANTS TypeOK EveryCallDrawn DrawnInCallOrder WarningsAddUp GraphIsWhole
CHECK_DEADLOCK FALSE
