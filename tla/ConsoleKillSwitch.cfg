SPECIFICATION MCSpec
CONSTANTS
    MaxSockets = 2
    SlugOf <- slugOf
    CenterTenants <- centerTenants
    HomeTenant = "tenant-acme"
    ActionIds = {"act-003"}
    LiveItems = {"agents"}
    MaxChanges = 2
    MaxEdited = 1
INVARIANT ShownHaltIsReal
CHECK_DEADLOCK FALSE
