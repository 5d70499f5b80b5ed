SPECIFICATION FairSpec
CONSTANTS
    Requests = {1, 2}
    Users = {u, v}
    Numbers = {n, m, x}
    Invalid = {x}
    Rows = {a, b}
    None = None
    MaxFaults = 1
INVARIANTS
    ConnectorFollowsIdentities
    RoomsRepeatByOverlap
PROPERTY RequestsEnd
CHECK_DEADLOCK FALSE
