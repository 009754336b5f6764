SPECIFICATION AccountsSpec
CONSTANTS
    r1 = r1
    r2 = r2
    r3 = r3
    severe = severe
    Request <- ThreeRequests
    Severity <- OneSeverity
    RiskOf <- SevereRisk
    Tiers <- ThreeTiers
    MaxRisk = 3
    MaxPenalties = 4
    MaxOrders = 1
    MaxWrites = 1
    MaxTime = 4
    t1 = t1
    t2 = t2
    ann = ann
    dividend = dividend
    split = split
    broken = broken
    NoTicker = NoTicker
    Ticker <- TwoTickers
    Holder <- OneHolder
    Event <- ThreeEvents
    Kind <- Actions
    Amount <- Amounts
    ExDate <- ExDates
    Move <- Stay
    Band = 1
    SettlementDays = 1
    Price0 = 4
    Shares0 = 2
    Quantity0 = 2
    Lot <- Lots
    MaxDay = 3
    MaxSales = 2
    MaxAsks = 1
    MaxLapses = 1
    MaxFailures = 1
SYMMETRY Symmetry
CHECK_DEADLOCK FALSE
INVARIANTS RiskCountsEvents RewardedOnce AccountsCovered EventsOnce
PROPERTIES NeverShortened NoBuyWhileLocked
