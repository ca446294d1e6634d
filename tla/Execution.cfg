SPECIFICATION ActionsSpec
CONSTANTS
    Null = Null
    Resources = {r1, r2}
    Costs = {20}
    Factors = {50}
    MinConfidence = 70
    TTL = 1
    LastPlanTick = 2
    MaxPlans = 2
    Requests = {q1}
    NoSnapshot = NoSnapshot
    RollbackActions = {x1}
    Restorable = {r1, r2}
    States = {s1, s2}
    Rollbacks = {b1, b2}
    RollbackFaults = {"writeLedger", "restoreResource", "escalateToGovernor"}
    RollbackSupplies <- rollbackSupplies
SYMMETRY Symmetry
INVARIANTS
    ActionsTypeOK
    SavingsAreReal
    RiskIsMonotone
    CachedIsExact
    SuccessRestores
    RestoreIsRecorded
    VerdictMatchesEscalation
CHECK_DEADLOCK FALSE
