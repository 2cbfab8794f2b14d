SPECIFICATION FairFanoutSpec
CONSTANTS
  k = k
  p = p
  t1 = t1
  Markets <- MCMarkets
  Polled <- MCPolled
  WatchSets <- MCWatchSets
  Tabs <- MCTabs
  QueueMax = 4
  MaxChanges = 2
  MaxRequests = 1
  MaxOthers = 1
  MaxLeaves = 1
INVARIANT EveryTabIsFollowed
CHECK_DEADLOCK FALSE
PROPERTY EveryTabCatchesUp
