CONSTANTS
  Nodes = {"a", "b"}
  Workers = 2
  QueueLimit = 2
  MaxCalls = 4
  MaxCrashes = 1
  Forests <- MCForests
SPECIFICATION FairSpec
INVARIANTS TypeOK NothingLeftBehind EndToEndOrder StallNeedsFullPool
PROPERTIES HandlersKeepPromise EveryCallEnds EndsUnaided
CHECK_DEADLOCK FALSE
