CONSTANTS
    a = a
    b = b
    None = None
    Slugs = {a, b}
    Lists <- MCLists
    Interval = 2
    IdleSleep = 1
    RateLimitPause = 4
    BackoffInitial = 1
    BackoffMax = 2
    RestartDelays = {2}
    Timeout = 3
    Quick = 1
    DefaultLimit = 4
    Cycles = 3
    MaxFaults = 2
    MaxChanges = 2
SPECIFICATION FairPollerSpec
INVARIANTS BudgetFollowsTargets OneMissIsNotStale LateAnswersLingerAlone
PROPERTY EveryTargetIsPolled
