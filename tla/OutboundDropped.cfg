SPECIFICATION FairSpec
CONSTANTS
    d1 = d1
    d2 = d2
    Deliveries <- One
    Reports <- OneStatus
    MaxTasks = 2
    OUTBOUND_MAX_RETRIES = 1
    INBOUND_MAX_RETRIES = 1
    MaxFaults <- EveryFault
PROPERTY SettlesUnlessDropped
CHECK_DEADLOCK FALSE
