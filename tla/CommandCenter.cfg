SPECIFICATION MCSpec
CONSTANTS
    MaxSockets = 3
    SlugOf <- slugOf
    CenterTenants <- centerTenants
    HomeTenant = "tenant-acme"
    ActionIds = {"act-003"}
    LiveItems = {"agents"}
    MaxChanges = 2
    MaxEdited = 1
INVARIANT CenterInv
PROPERTY GoneIsRemoved
CHECK_DEADLOCK FALSE
