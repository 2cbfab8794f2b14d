SPECIFICATION FairJobsSpec
CONSTANTS
  a = a
  b = b
  Pairs <- MCPairs
  Ui = ui
  Cli = cli
  MaxPages = 2
  MaxRetries = 1
  MaxJobs = 2
  MaxDecisions = 1
INVARIANT DecisionsStand
INVARIANT ProposalsAreWhole
PROPERTY JobsEnd
CHECK_DEADLOCK FALSE
