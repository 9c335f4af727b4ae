CONSTANTS
    c1 = c1
    c2 = c2
    user = user
    Phase <- StockPhases
    NextOf <- StockNext
    RollbackTo <- StockRollback
    Gated <- StockGated
    Starts <- PlanStart
    Requests <- PlanRequests
    Callers <- TwoCallers
    Approver <- Users
    Crashes = FALSE
    MaxRows = 3
    MaxApprovals = 1
SPECIFICATION Spec
INVARIANT SanctionedMoves
