SPECIFICATION AuditSpec
CONSTANTS
    Finding = {f1}
    Importer = {i1}
    AuditModes = {"temporal"}
    MaxAudAttempts = 1
    MaxAudFaults = 0
CHECK_DEADLOCK FALSE
INVARIANT RejectedGone
