SPECIFICATION Spec
CONSTANTS
  Client = {c1, c2, c3}
  Key = {k1, k2}
  NoKey = NoKey
  MaxStations = 2
  MaxClients = 3
  MaxCreated = 2
  AcceptErrors = TRUE
CHECK_DEADLOCK FALSE
PROPERTY RemovalTakesItsStation
SYMMETRY Symmetric
