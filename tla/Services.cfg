SPECIFICATION ServicesSpec
CONSTANTS
    Presets <- StockPresets
    MaxTrouble = 1
    RoleLines <- StockRoleLines
    InstLines <- StockInstLines
    SecondsPerDay = 1
    MaxClock = 1
    MaxLines = 3
    MaxOutboxFaults = 1
    Directive = {d1}
    Drainer = {p1}
    MaxQueued = 1
    DefaultLimit = 1
    MaxOthers = 1
    MaxBusFaults = 2
    Finding = {f1, f2}
    Importer = {i1, i2}
    AuditModes = {"temporal", "background"}
    MaxAudAttempts = 2
    MaxAudFaults = 2
    Hub = {"root", "mid", "side"}
    RootHub = "root"
    UpHub <- TwoTiers
    Admin = {a1, a2}
    MaxOffers = 3
    MaxUpsets = 1
CHECK_DEADLOCK FALSE
INVARIANTS ServicesTypeOK
    ReleaseHeld AtRestHasCard
    AtLeastOnce ReplayExact
    RepeatsBounded
    NothingLost OutcomeAgrees CountsExact
    GateAtEveryTier OffersCounted
PROPERTIES DueWorkSurfaces AutonomousProceeds OutboxDrains
    WorkTakenUp SettledStays
    AuditsSettle ChildrenOffered
