CONSTANTS
  Numbers <- MCNumbers
  MaxPayload = 4
  MaxAttrs = 2
  ErrorCap = 1
SPECIFICATION FairSpec
INVARIANTS TypeOK PayloadIsOneGroup ModesAgree EdgeAttrAsWritten ErrorsAreCounted
PROPERTIES ParsingEnds
CHECK_DEADLOCK FALSE
