SPECIFICATION FairSpec
CONSTANTS
    Threads = {t1, t2}
    MaxVersion = 2
    MaxFailures = 1
    MaxCreates = 1
    MaxDeletes = 1
INVARIANTS
    NoStaleAfterDrop
    OneLeader
    StaleOnlyIfMissed
    PollerStops
PROPERTY FollowersReturn
CHECK_DEADLOCK FALSE
