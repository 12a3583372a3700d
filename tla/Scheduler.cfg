CONSTANTS
    r1 = r1
    r2 = r2
    r3 = r3
    r4 = r4
    t1 = t1
    t2 = t2
    u1 = u1
    u2 = u2
    Rows <- FourRows
    IdOf <- Ids
    UserOf <- Owners
    TorrentOf <- Torrents
    MaxActive = 2
    PerUserMax = 0
    Ranks = {1, 3}
    AgingCap = 150
    MaxStalls = 1
    MayStall = {r4}
    MaxRescues = 1
    q1 = q1
    q2 = q2
    h1 = h1
    h2 = h2
    Watches = {1}
    Queries = {q1, q2}
    Hits = {h1, h2}
    Answers <- MCAnswers
    Fitting = {h1, h2}
    MaxAuto = 1
    KickRoom = 1
SPECIFICATION QueueSpec
INVARIANTS PlanAdmissible OldIsNoNews
PROPERTIES NoThrash
CHECK_DEADLOCK FALSE
