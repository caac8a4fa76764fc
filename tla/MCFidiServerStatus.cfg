CONSTANTS
  Requests = {r1}
  Inputs <- StatusInputs
  MaxStall = 0
  LatencyBound = 0
SPECIFICATION Spec
INVARIANT StatusReachesClient
CHECK_DEADLOCK FALSE
