SPECIFICATION FairSpec
CONSTANTS
  Worker = {w1, w2}
  MaxRequests = 3
  MaxPending = 2
  Rows = 3
  Protected <- MCProtected
  MaxEdits = 1
CHECK_DEADLOCK FALSE
INVARIANTS ServingInv InOrder 
PROPERTIES CommittedWasStarted AcceptedEnds
