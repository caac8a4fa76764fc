CONSTANTS
  Requests = {r1, r2, r3}
  Inputs <- MCInputs
  MaxStall = 1
  LatencyBound = 2
SYMMETRY RequestSymmetry
SPECIFICATION Spec
INVARIANTS TypeOK DroppedForAReason HealthInOrder LatencyAtLeastDelays
PROPERTIES SilentWhileUnresponsive HealthChangesLast HandlersGetOn
CHECK_DEADLOCK FALSE
