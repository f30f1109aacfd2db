SPECIFICATION FairSpec
CONSTANTS
  Uses <- MCUses
  Due = {1, 3}
  LastSecond = 4
  Grace = 1
  Replay = 2
  Late = 1
  Zone = 0
  Keep = 2
  Slots = 3
  Fault = {"insert", "front", "raise", "locked", "enqueue"}
  MaxOps = 3
CHECK_DEADLOCK FALSE
INVARIANTS NoneMissed FillInv 
PROPERTIES OncePerOccurrence WorkerComesBack
