SPECIFICATION FairFeed
CONSTANTS
    w1 = w1
    w2 = w2
    Worker <- TwoWorkers
    Price <- TwoPrices
    MaxExpiries = 1
    MaxCrashes = 1
    MaxFailures = 1
    MaxMoves = 1
    MaxDay = 2
    MaxMisses = 1
    MaxFaults = 2
INVARIANTS OneProcessPerTerm
PROPERTIES SessionGoesOn PriceShown
