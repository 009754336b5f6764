SPECIFICATION RealtimeFairSpec
CONSTANTS
    c1 = c1
    k1 = k1
    k2 = k2
    prices = prices
    user = user
    Conn <- OneSocket
    Room <- OneRoom
    MaxQueue = 1
    MaxReliable = 1
    MaxPosts = 3
    MaxRequests = 1
    Client <- TwoClients
    Channel <- TwoChannels
    MaxChanges = 3
    MaxMessages = 2
    MaxOutages = 1
    MaxFailures = 1
    Pieces = 2
    QueueSize = 2
    MaxAsks = 2
    MaxStops = 1
    MaxNotices = 1
    MaxBreaks = 1
INVARIANTS RoomsHeard
CHECK_DEADLOCK FALSE
