CONSTANTS
    k = k
    p = p
    kalshi = kalshi
    polymarket_us = polymarket_us
    None = None
    Markets = {k, p}
    Venues = {kalshi, polymarket_us}
    VenueOf <- MCVenueOf
    TicksPerDollar = 3
    QtyPerContract = 1
    DefaultLimit = 1
    Limits = {2}
    Batches <- MCBatches
    MaxQty = 1
    MaxNow = 1
    ReplayLimits <- MCReplayLimits
SPECIFICATION ReplaySpec
INVARIANTS ValidBookIsSound LimitsAgree ReplayRebuildsBooks
PROPERTY ChangesAreReported
