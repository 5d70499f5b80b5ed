SPECIFICATION FairSpec
CONSTANTS
    Callers = {1, 2}
    MaxChanges = 2
    MaxSilent = 1
    MaxFaults = 1
INVARIANTS
    Listening
    ListenersNeedDelivery
PROPERTIES
    Closes
    Starts
CHECK_DEADLOCK FALSE
