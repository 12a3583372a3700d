CONSTANTS
    r1 = r1
    r2 = r2
    r3 = r3
    t1 = t1
    t2 = t2
    t3 = t3
    u1 = u1
    Rows <- MCRows
    IdOf <- MCIds
    UserOf <- MCUsers
    TorrentOf <- MCTorrents
    MaxActive = 2
    PerUserMax = 1
    Ranks = {2}
    AgingCap = 150
    MaxStalls = 1
    MayStall <- MCRows
    MaxRescues = 1
    Members = {r1, r2}
    Releases = {original, alternative}
    Original = original
    NoSource = none
    MaxTries = 2
    StallLimit = 2
    MaxSetbacks = 1
    Links = {alternative}
    MaySeed = {alternative}
    Items = {d1, d2}
    Folders = {d2}
    Dests = {x, y}
    NoFile = none
    Jobs = {1, 2, 3}
    Slots = 1
    MaxTrouble = 1
SPECIFICATION DownloadsSpec
INVARIANTS TypesOK PlanAdmissible WholeCopyExists 
PROPERTIES NotStarved RotationSettles
CHECK_DEADLOCK FALSE
