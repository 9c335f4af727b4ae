CONSTANTS
    c1 = c1
    c2 = c2
    user = user
    Phase <- StockPhases
    NextOf <- StockNext
    RollbackTo <- StockRollback
    Gated <- StockGated
    SubsystemOf <- StockSubsystem
    Required <- NobodyRequired
    MinApprovals <- OneApproval
    Approver <- Users
    Ops = {"replan"}
    LoopMax = 1
    ReplanMax = 1
    MaxRoutes = 3
    MaxRows = 3
    MaxApprovals = 1
    Crashes = FALSE
    Killed = FALSE
    Starts <- BuildStart
    Requests <- LoopRequests
    Callers <- OneCaller
SPECIFICATION PolicySpec
INVARIANTS
    ReplanBounded
