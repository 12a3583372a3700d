CONSTANTS
    c1 = c1
    c2 = c2
    c3 = c3
    Callers <- MCCallers
    Limits <- MCLimits
    a1 = a1
    pr = pr
    Players = {p1, p2}
    Adders = {a1, pr}
    Probe = pr
    MaxEntries = 2
    MaxHandles = 2
    MaxCalls = 4
    r1 = r1
    r2 = r2
    k1 = k1
    k2 = k2
    Asks <- MCAsks
    Sessions = {1, 2}
    Nobody = 0
    Sought = {1}
    GpuLimit = 1
    MaxRuns = 3
    b1 = b1
    Browsers = {b1}
    Tabs <- MCTabs
    Tokens = {s1, s2}
    NoToken = none
SPECIFICATION ServerSpec
INVARIANTS TypesOK NoLostWakeup NoOrphanHandle EncodersOwned SlotsAccounted WaitersHaveBuilder
PROPERTIES SleepersWake TornDownOnlyWhenFree AbandonedIsUnloaded EvictionSparesLoaded PastStaysPast InactiveEndsSessions
CHECK_DEADLOCK FALSE
