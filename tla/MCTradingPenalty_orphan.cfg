SPECIFICATION PenaltySpec
CONSTANTS
    alice = alice
    bob = bob
    p1 = p1
    p2 = p2
    User <- OneUser
    Pass <- OnePass
    MaxOrders = 2
    Quantities = {1, 2}
    LimitPrices = {8, 16}
    MarketPrices = {16}
    InitCash = 120
    InitShares = 0
    RateDen = 4
    FeeNum = 1
    TaxNum = 1
    SlipNum = 1
    ImpactNum = 2
    BandNum = 4
    TickSize = 1
    Depth = 2
    SettleTime = 1
    MaxTime = 1
    Rewards = {}
    MaxRewards = 0
    MaxFailures = 0
    Deductions = {37, 90}
    Durations = {0, 1}
    MaxPenalties = 2
INVARIANT NoOrphanedFreeze
CHECK_DEADLOCK FALSE
