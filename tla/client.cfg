SPECIFICATION FairSpec
CONSTANTS
  t1 = t1
  t2 = t2
  Thread = {t1, t2}
  MaxRequests = 2
  MaxLinks = 2
  MaxDaemons = 2
  MaxRestarts = 1
CHECK_DEADLOCK FALSE
INVARIANTS CallInv OneDaemon
PROPERTIES DroppedForCause CallReturns
