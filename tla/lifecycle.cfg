SPECIFICATION FairSpec
CONSTANTS
  MaxRow = 3
  Track = {"a", "b"}
  trackOf <- TrackOf
  QueueSize = 2
  RetryCount = 1
  MaxStarts = 4
  MaxTroubles = 1
CHECK_DEADLOCK FALSE
INVARIANTS DispatchInv StartCommitsItself
PROPERTIES NowPlayingForward AcceptedIsCommitted AcceptedIsShown
