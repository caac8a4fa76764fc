CONSTANTS
  Numbers <- MCNumbers
  MaxPayload = 1
  MaxAttrs = 1
  ErrorCap = 1
SPECIFICATION Spec
INVARIANTS DefaultSequenceIsOne
CHECK_DEADLOCK FALSE
