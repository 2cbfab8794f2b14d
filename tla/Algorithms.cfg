CONSTANTS
    None = None
    TicksPerDollar = 10
    QtyPerContract = 4
    MicrosPerTick = 3
    TicksPerCent = 2
    MaxQty = 40
    Rates <- MCRates
    Fee <- MCFee
    Kalshi <- MCKalshi
    Polymarket <- MCPolymarket
    KalshiEvents <- MCKalshiEvents
    PolymarketEvents <- MCPolymarketEvents
    Courses <- MCCourses
    Leads <- MCLeads
    Timeout = 6
    Unit = 1200
    Numbers = {"1", "2"}
    Idf <- MCIdf
    MaxTokenDf = 2
    MinNameSim = 900
    MinEventScore = 480
    MinScore = 600
    DateSlack = 400
    Now = 5
    Unknown = Unknown
    Tables <- MCTables
SPECIFICATION AlgorithmsSpec
INVARIANTS FeesAreExact QuoteMeasuresTheDepth ProposalsAreTheBest DealIsSpread SkewIsWithinTheDelay
