CONSTANTS
    k1 = k1
    k2 = k2
    Kalshi = kalshi
    None = None
    Markets = {k1, k2}
    Venues = {kalshi}
    VenueOf <- MCVenueOf
    TicksPerDollar = 2
    QtyPerContract = 1
    DefaultLimit = 1
    Limits = {}
    Batches = {}
    MaxQty = 1
    MaxNow = 0
    VenueStates <- MCVenueStates
    MaxSeq = 4
    MaxLink = 0
    MaxFaults = 0
    MaxChanges = 1
    LossAtStart = FALSE
SPECIFICATION FairFeedSpec
PROPERTY DroppedBooksGo
