SPECIFICATION FairWatchSpec
CONSTANTS
  p1 = p1
  p2 = p2
  o1 = o1
  o2 = o2
  Pairs <- MCPairs
  Batches <- MCBatches
  Operators <- MCOperators
  NoBase = TRUE
  MaxDecisions = 2
  MaxRequests = 2
  MaxFailures = 1
  MaxSettled = 1
INVARIANTS RejectedIsNotTraded MonitorFollowsDatabase LegsFollowMonitor
PROPERTY StoppedLegsGo
CHECK_DEADLOCK FALSE
