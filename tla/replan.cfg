SPECIFICATION FairSpec
CONSTANTS
  t1 = t1
  t2 = t2
  Thread = {t1, t2}
  Rows = 3
  MaxEdits = 2
  MaxMoves = 1
  Fault = {"blind", "away"}
  MaxFaults = 1
CHECK_DEADLOCK FALSE
 
PROPERTIES  EditReachesPlan
