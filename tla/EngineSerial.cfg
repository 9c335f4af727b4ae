CONSTANTS
    c1 = c1
    c2 = c2
    user = user
    Phase <- StockPhases
    NextOf <- StockNext
    RollbackTo <- StockRollback
    Gated <- StockGated
    Starts <- AllStarts
    Requests <- StockPhases
    Callers <- OneCaller
    Approver <- Users
    Crashes = TRUE
    MaxRows = 3
    MaxApprovals = 1
SPECIFICATION Spec
INVARIANTS
    TypeOK
    SanctionedMoves
    OneOpenRow
PROPERTY
    ImplementsLifecycle
