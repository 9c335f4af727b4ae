CONSTANTS
    c1 = c1
    c2 = c2
    user = user
    Phase <- StockPhases
    NextOf <- StockNext
    RollbackTo <- StockRollback
    Gated <- StockGated
    SubsystemOf <- StockSubsystem
    Required <- NobodyRequired
    MinApprovals <- OneApproval
    Approver <- Users
    Ops = {"cli","approve","reject","changes","remediate","replan","rollback","hub"}
    LoopMax = 1
    ReplanMax = 1
    MaxRoutes = 3
    MaxRows = 4
    MaxApprovals = 1
    Crashes = TRUE
    Killed = TRUE
    Starts <- VerifyStart
    Requests <- FewRequests
    Callers <- OneCaller
SPECIFICATION PolicySpec
INVARIANTS
    HubReportsTruth
PROPERTIES
    RemediationWithinBudget
