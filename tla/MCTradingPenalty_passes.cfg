SPECIFICATION FairSpec
CONSTANTS
    alice = alice
    bob = bob
    p1 = p1
    p2 = p2
    User <- MCUser
    Pass <- TwoPasses
    MaxOrders = 2
    Quantities = {2}
    LimitPrices = {32}
    MarketPrices = {16}
    InitCash = 60
    InitShares = 2
    RateDen = 4
    FeeNum = 1
    TaxNum = 1
    SlipNum = 1
    ImpactNum = 2
    BandNum = 4
    TickSize = 1
    Depth = 1
    SettleTime = 1
    MaxTime = 0
    Rewards = {}
    MaxRewards = 0
    MaxFailures = 1
    Deductions = {}
    MaxPenalties = 0
    Durations = {}
INVARIANTS OrdersTrusted
PROPERTIES FinalIsFinal PassEnds MarketOrdersFinish
CHECK_DEADLOCK FALSE
