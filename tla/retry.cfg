SPECIFICATION Spec
CONSTANTS
  MaxRow = 3
  Track = {"a", "b"}
  trackOf <- TrackOf
  QueueSize = 2
  RetryCount = 1
  MaxStarts = 3
  MaxTroubles = 1
CHECK_DEADLOCK FALSE
INVARIANT HistoryFollowsEvent
