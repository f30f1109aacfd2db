SPECIFICATION FairSpec
CONSTANTS
  Client = {c1, c2, c3}
  Key = {k1, k2}
  NoKey = NoKey
  MaxStations = 2
  MaxClients = 2
  MaxCreated = 2
  AcceptErrors = TRUE
CHECK_DEADLOCK FALSE
INVARIANTS CountIsUsers UsedIsAlive OneOwner OneEntryPerKey ShutdownInOrder
PROPERTIES LifePromise ShutdownEnds
