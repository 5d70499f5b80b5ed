SPECIFICATION FairSpec
CONSTANTS
    tenant = tenant
    user = user
    line = line
    channel = channel
    Facts <- ChainFacts
    Table <- ChainTables
    Owners <- ChainOwners
    LeftRows <- NothingOrAll
    MaxChanges = 2
    MaxBoots = 1
    MaxFailures = 1
    TimeoutRetries = 0
INVARIANTS
    PresenceTypeOK
    OwnersPresent
    ServedWhenReady
    Converged
    ExactWhenCalm
PROPERTY Completes
CHECK_DEADLOCK FALSE
