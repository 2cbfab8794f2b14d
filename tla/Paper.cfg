CONSTANTS
    k = k
    p1 = p1
    p2 = p2
    None = None
    TicksPerDollar = 4
    QtyPerContract = 2
    Markets = {k, p1, p2}
    Pairs = {1, 2}
    KalshiOf <- MCKalshiOf
    PolyOf <- MCPolyOf
    Fee <- MCFee
    VenueLadders <- MCVenueLadders
    LimitChoices <- MCLimits
    MaxMoves = 3
SPECIFICATION PaperSpec
INVARIANTS NoPhantomFills EveryFillIsPlaced FillsArePaidFor
PROPERTY LimitsHoldAtEveryTrade
