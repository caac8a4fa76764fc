CONSTANTS
  CommandLines <- MCCommandLines
  Ports = {8001, 9001}
  Connections = {"c1", "c2"}
SPECIFICATION FairSpec
INVARIANTS TypeOK ExitAsAsked LogComplete
PROPERTIES ShutdownEnds
CHECK_DEADLOCK FALSE
