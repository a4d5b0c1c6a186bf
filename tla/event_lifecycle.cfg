SPECIFICATION LifeFairSpec
CONSTANTS
    s1 = s1
    s2 = s2
    Subs = {s1}
    MaxEvents = 2
    MayBreak = {s1}
INVARIANTS NoStaleSubscriber CloseReachesAll
PROPERTY EveryEndEnds
CHECK_DEADLOCK FALSE
