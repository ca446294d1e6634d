CONSTANTS
    None = None
    Tenants = {t1}
    Agents = {}
    Calls = {c1, c2, c3}
    Admins = {m1}
    Faults = {"publishKillSwitch", "notifyAdmins"}
    Hanging = {}
    Window = 2
    TicksPerHour = 2
    LastTick = 5
    Amounts = {1, 2}
    Limit = 2
SPECIFICATION DowSpec
SYMMETRY Symmetry
INVARIANTS
    DowTypeOK
    OverLimitIsStopped
    ExceededIsReported
    WindowIsBounded
CHECK_DEADLOCK FALSE
