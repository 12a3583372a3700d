CONSTANTS
    r1 = r1
    r2 = r2
    t1 = t1
    t2 = t2
    u1 = u1
    u2 = u2
    i1 = i1
    i2 = i2
    i3 = i3
    m1 = m1
    m2 = m2
    Rows <- TwoRows
    UserOf <- OneUser
    TorrentOf <- TwoTorrents
    Priority <- HighFirst
    Whole <- WholeRow
    MaxActive = 1
    PerUserMax = 0
    MaxInitRetries = 2
    MoveMaxAttempts = 2
    MaxStalls = 1
    InitIds <- TwoInits
    MoveIds <- TwoMoves
    Calls = {"pause", "resume", "batchResume", "recheck", "delete", "initFail", "noFiles", "moveFail", "stall", "evict", "stop", "restart", "dbFail"}
    MaxCalls = 3
SPECIFICATION QueueSpec
CHECK_DEADLOCK FALSE
ACTION_CONSTRAINT QueueBound
INVARIANTS OneMovePerRow
PROPERTIES SlotsHeld
