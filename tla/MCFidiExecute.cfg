CONSTANTS
  Edges = {e1, e2, e3}
  Repeats = {0, 2}
  Sequences = {0, 1}
  MaxThreads = 3
SPECIFICATION HandlerSpec
INVARIANTS LoopInvariant SequencePoint AllCallsMade ExhaustionNeedsBigGroup
PROPERTIES KeepsPromise Termination GroupStartsUnaided
