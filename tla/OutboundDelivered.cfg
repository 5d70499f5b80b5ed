SPECIFICATION Spec
CONSTANTS
    d1 = d1
    d2 = d2
    Deliveries <- One
    Reports <- SentAndDelivered
    MaxTasks = 2
    OUTBOUND_MAX_RETRIES = 0
    INBOUND_MAX_RETRIES = 1
    MaxFaults <- NoFaults
PROPERTY DeliveredIsFinal
CHECK_DEADLOCK FALSE
