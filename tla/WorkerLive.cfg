CONSTANTS
    r1 = r1
    r2 = r2
    t1 = t1
    t2 = t2
    u1 = u1
    u2 = u2
    i1 = i1
    i2 = i2
    i3 = i3
    m1 = m1
    m2 = m2
    Rows <- OneRow
    UserOf <- OneUser
    TorrentOf <- OneTorrent
    Priority <- Normal
    Whole <- NoWhole
    MaxActive = 1
    PerUserMax = 0
    MaxInitRetries = 2
    MoveMaxAttempts = 2
    MaxStalls = 1
    InitIds <- TwoInits
    MoveIds <- OneMove
    Calls = {"pause", "resume", "delete", "initFail", "noFiles", "moveFail", "stall", "evict", "restart", "dbFail"}
    MaxCalls = 2
SPECIFICATION FairSpec
INVARIANTS TypeOK PendingHasInit
PROPERTIES DownloadsTakenUp MovesEnd PauseTakesEffect DeletedForgotten
