SPECIFICATION FairSpec
CONSTANTS
    w1 = w1
    w2 = w2
    u1 = u1
    Worker <- TwoWorkers
    Matcher <- OneMatcher
    Trade <- TwoTrades
    User <- OneUser
    Owner <- AllOfOne
    Lookback = 1
    Limit = 2
    Patience = 1
    MaxTime = 2
    MaxTroubles = 1
    MaxLapses = 1
INVARIANTS AnnouncedOnce NumbersTellLoss
PROPERTIES EveryTradeAnnounced
