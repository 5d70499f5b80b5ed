SPECIFICATION FairSpec
CONSTANTS
    Calls = {1, 2, 3}
    None = None
    MaxFaults = 1
INVARIANTS
    OneRenewer
    Settled
PROPERTY NotificationsEnd
CHECK_DEADLOCK FALSE
