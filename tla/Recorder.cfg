CONSTANTS
    QueueMax = 3
    BatchMax = 2
    AmbiguousCommit = TRUE
    OverflowAt = 2
    MaxMessages = 6
    MaxFailures = 3
SPECIFICATION FairRecorderSpec
INVARIANT DrainedMeansWritten
PROPERTIES ImplementsLog WrittenUnlessStuck ShutdownEnds
CHECK_DEADLOCK FALSE
