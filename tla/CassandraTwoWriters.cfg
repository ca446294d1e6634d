CONSTANTS
    None = None
    Entries = {e1, e2, e3}
    LastMonth = 0
    MaxQuiet = 0
    Overlap = TRUE
    MaxLate = 0
    ZoneSkew = 0
SPECIFICATION RepositorySpec
SYMMETRY Symmetry
INVARIANTS
    AcknowledgedIsStored
CHECK_DEADLOCK FALSE
