SPECIFICATION AnyStartSpec
CONSTANTS
  t1 = t1
  t2 = t2
  t3 = t3
  Track = {t1,t2}
  NoTrack = NoTrack
  NoDeck = NoDeck
  Client = {c1,c2}
  HardClean = {t2}
  Stub = {t2}
  Analysed = {t2}
  Command = {"load", "force_load", "select", "transition", "interrupt",
             "handoff", "start", "stop", "pause", "seek", "finished", "ended"}
  MaxCommands = 2
  Restarts = TRUE
CHECK_DEADLOCK FALSE
PROPERTIES HandoffPromise StartedUntilReplaced
SYMMETRY Symmetric
