SPECIFICATION FairSpec
CONSTANTS
    d1 = d1
    d2 = d2
    Deliveries <- Two
    Reports <- NoReports
    MaxTasks = 1
    OUTBOUND_MAX_RETRIES = 0
    INBOUND_MAX_RETRIES = 1
    MaxFaults <- LinkOnly
PROPERTY Settles
CHECK_DEADLOCK FALSE
