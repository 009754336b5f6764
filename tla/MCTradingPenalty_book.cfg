SPECIFICATION PenaltySpec
CONSTANTS
    alice = alice
    bob = bob
    p1 = p1
    p2 = p2
    User <- MCUser
    Pass <- OnePass
    MaxOrders = 2
    Quantities = {1, 2}
    LimitPrices = {32}
    MarketPrices = {16, 32}
    InitCash = 80
    InitShares = 1
    RateDen = 4
    FeeNum = 1
    TaxNum = 1
    SlipNum = 1
    ImpactNum = 2
    BandNum = 2
    TickSize = 1
    Depth = 2
    SettleTime = 1
    MaxTime = 1
    Rewards = {3}
    MaxRewards = 1
    MaxFailures = 0
    Deductions = {70}
    MaxPenalties = 1
    Durations = {1}
SYMMETRY Symmetry
INVARIANTS CashEscrow ShareEscrow CashConserved
PROPERTIES TermsHonoured PenaltyWithinMeans
CHECK_DEADLOCK FALSE
