CONSTANTS
    None = None
    Tenants = {t1}
    Agents = {a1, a2}
    Calls = {c1, c2}
    Admins = {m1}
    Faults = {}
    Hanging = {a1}
SPECIFICATION FairSpec
PROPERTIES
    UnconfirmedIsReported
CHECK_DEADLOCK FALSE
