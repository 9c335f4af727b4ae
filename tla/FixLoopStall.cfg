CONSTANTS
    u1 = u1
    u2 = u2
    User <- OneUser
    Scheduler = auto
    MaxTasks = 2
    MaxIter = 3
    MaxAttempts = 2
    Clicks <- NoClicks
    Answers <- CodeCard
    Fails = FALSE
    Ages = FALSE
    Cancels = FALSE
    MaxClicks = 1
    MaxRestarts = 0
SPECIFICATION FairSpec
CHECK_DEADLOCK FALSE
PROPERTIES
    AutoContinues
