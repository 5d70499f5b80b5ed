SPECIFICATION Spec
CONSTANTS
    d1 = d1
    d2 = d2
    Deliveries <- One
    Reports <- SentAndEcho
    MaxTasks = 2
    OUTBOUND_MAX_RETRIES = 1
    INBOUND_MAX_RETRIES = 1
    MaxFaults <- EveryFault
INVARIANTS
    Custody
    RetryBudget
    ResendOnlyByRecovery
    ToldTruly
PROPERTY ImplementsLifecycle
CHECK_DEADLOCK FALSE
