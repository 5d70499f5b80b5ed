SPECIFICATION FairSpec
CONSTANTS
    m1 = m1
    m2 = m2
    m3 = m3
    m4 = m4
    Arrivals <- Four
    External <- Ids
    Key <- Keys
    NoKey = NoKey
    NoRoom = NoRoom
    MaxTasks = 2
    INBOUND_MAX_RETRIES = 1
    MaxFaults <- SomeFaults
INVARIANTS
    InboundTypeOK
    OneMessagePerExternalId
    DuplicateOfStored
    KeyRepeatedByOverlap
    NoEmptyRoom
    RoomsPerPair
    LostOnlyByFault
PROPERTY Handled
CHECK_DEADLOCK FALSE
