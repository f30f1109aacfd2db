SPECIFICATION FairOnAirSpec
CONSTANTS
  t1 = t1
  t2 = t2
  t3 = t3
  Track = {t1,t2,t3}
  NoTrack = NoTrack
  NoDeck = NoDeck
  Client = {c1}
  HardClean = {t3}
  Stub = {}
  Analysed = {}
  Command = {"load", "pause"}
  MaxCommands = 2
  Restarts = FALSE
CHECK_DEADLOCK FALSE
INVARIANTS  ReservationOwnsTarget
PROPERTIES  ReservationResolves  TransitionEnds
