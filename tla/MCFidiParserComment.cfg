CONSTANTS
  Numbers <- MCNumbers
  MaxPayload = 5
  MaxAttrs = 2
  ErrorCap = 1
SPECIFICATION Spec
INVARIANTS PayloadEndsAtItsBracket
CHECK_DEADLOCK FALSE
