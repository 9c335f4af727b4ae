CONSTANTS
    k1 = k1
    k2 = k2
    s1 = s1
    u1 = u1
    u2 = u2
    Runner = runner
    Card <- AllCards
    User <- None
    AutoAck <- TwoCards
    Stop <- StopCards
    Running = TRUE
    DbFails = FALSE
    MaxRestarts = 1
    MaxClicks = 0
SPECIFICATION FairSpec
CHECK_DEADLOCK FALSE
INVARIANTS
    CacheFollowsDb
    HookOnce
PROPERTIES
    AutoProgress
