SPECIFICATION GatewaySpec
CONSTANTS
    r1 = r1
    r2 = r2
    t1 = t1
    t2 = t2
    c1 = c1
    c2 = c2
    Request <- TwoRequests
    Host = {"host"}
    Admin = {}
    Player = {"player"}
    Base = {"cup"}
    Symbol <- Symbols
    Seed <- Seeds
    Filler <- Fillers
    Options <- Choices
    MaxContests = 2
    MaxRequests = 4
    Account = {"alice"}
    Tab <- TwoTabs
    OwnerOf <- Owners
    Worker = {"w1"}
    HeartBeat = 2
    TicketTTL = 1
    UserTTL = 2
    CheckTTL = 3
    QueryTime = 1
    MaxRetries = 1
    MaxTime = 8
    MaxSwitches = 2
    MaxFailures = 1
    Caller <- TwoCallers
    Name = {"alice"}
    Address = {"office"}
    Minute = "minute"
    Day = "day"
    Limit <- Limits
    MaxClock = 4
    MaxCount = 3
    MaxOutages = 1
SYMMETRY Symmetry
CHECK_DEADLOCK FALSE
INVARIANTS ContentRecorded LockedOut LimitExact
PROPERTIES ForCause
