CONSTANTS
    None = None
    Tenants = {t1, t2}
    Agents = {a1, a2}
    Calls = {c1, c2}
    Admins = {m1}
    Faults = {"publishKillSwitch", "writeLedger", "pollAgentHalt", "notifyAdmins"}
    Hanging = {}
SPECIFICATION FairSpec
INVARIANTS
    TypeOK
    FailSafe
    ResolvedIsAccounted
    RecordedIsPublished
    EscalationIsTrue
PROPERTIES
    CloseIsVerified
    ActivationEnds
CHECK_DEADLOCK FALSE
