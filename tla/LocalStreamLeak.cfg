CONSTANTS
    Players = {vod, native}
    Plays = {p1, p2}
    Sources = {s1, s2}
    NoHandle = none
SPECIFICATION StreamSpec
INVARIANT NoHandleLeaks
CHECK_DEADLOCK FALSE
