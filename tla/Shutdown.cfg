SPECIFICATION FairShutdownSpec
CONSTANTS
  OverflowAt = 2
  MaxTerms = 2
  MaxInts = 3
INVARIANT FlushedUnlessForced
INVARIANT ExitTellsWhatHappened
PROPERTY StopsWhenAsked
CHECK_DEADLOCK FALSE
