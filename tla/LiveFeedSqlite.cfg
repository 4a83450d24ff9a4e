SPECIFICATION FairSpec
CONSTANTS
  ws1 = ws1
  ws2 = ws2
  Connections <- TwoConnections
  Backend = "sqlite"
  Limit = 2
  MaxRows = 3
  MaxRestarts = 1
  Off = Off
INVARIANTS
  TypeOK
  NothingIsSkipped
PROPERTIES
  IsALiveTail
  EveryRowArrives
CHECK_DEADLOCK FALSE
