CONSTANTS
    u1 = u1
    u2 = u2
    User <- OneUser
    Scheduler = auto
    MaxTasks = 3
    MaxIter = 3
    MaxAttempts = 2
    Clicks <- AllClicks
    Answers <- AllCards
    Fails = TRUE
    Ages = TRUE
    Cancels = TRUE
    MaxClicks = 2
    MaxRestarts = 1
SPECIFICATION FairSpec
CHECK_DEADLOCK FALSE
INVARIANTS
    OneDispatch
    CountExact
    BlockedHasCard
PROPERTIES
    SlotFreed
    SchedulerReleased
