CONSTANTS
    k1 = k1
    k2 = k2
    s1 = s1
    u1 = u1
    u2 = u2
    Runner = runner
    Card <- OneCard
    User <- TwoUsers
    AutoAck <- None
    Stop <- None
    Running = FALSE
    DbFails = TRUE
    MaxRestarts = 1
    MaxClicks = 3
SPECIFICATION FairSpec
CHECK_DEADLOCK FALSE
INVARIANTS
    DecisionDurable
    DecisionCached
PROPERTIES
    EveryAckFires
