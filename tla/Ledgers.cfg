SPECIFICATION LedgersSpec
CONSTANTS
    Tenants = {t1}
    Bodies = {b1, b2}
    Resources = {r1, r2}
    MaxLen = 3
    MaxAlterations = 3
    None = None
    Entries = {e1, e2, e3}
    LastMonth = 5
    MaxQuiet = 2
    Overlap = FALSE
    MaxLate = 0
    ZoneSkew = 0
INVARIANTS
    LedgersTypeOK
    VerdictIsSound
    AcknowledgedIsStored
    Linear
    MonthIsVerified
PROPERTIES
    RepositoryImplementsAuditLog
CHECK_DEADLOCK FALSE
