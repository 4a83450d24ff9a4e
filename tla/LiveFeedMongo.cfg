SPECIFICATION Spec
CONSTANTS
  ws1 = ws1
  ws2 = ws2
  Connections <- TwoConnections
  Backend = "mongo"
  Limit = 2
  MaxRows = 3
  MaxRestarts = 1
  Off = Off
INVARIANTS
  NoRowTwice
CHECK_DEADLOCK FALSE
