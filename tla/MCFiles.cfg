CONSTANTS
    c1 = c1
    c2 = c2
    c3 = c3
    Callers <- MCCallers
    Limits <- MCLimits
    Files = {f1, f2}
    MountFiles = {f1, f2}
    Handlers = {h1, h2}
    QueueSize = 1
    Cap = 1
    NoCopy = none
    Players = {vod, native}
    Plays = {p1, p2}
    Sources = {s1, s2, s3}
    NoHandle = none
SPECIFICATION FilesSpec
INVARIANTS TypesOK SlotPerHashingPass ClaimJustified ClaimsGoOn ReadersKeepHandle DirectHandlesEnd
PROPERTIES ReadyStaysWhole QueuedIsServed
CHECK_DEADLOCK FALSE
