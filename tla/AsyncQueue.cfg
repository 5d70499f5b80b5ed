SPECIFICATION FairSpec
CONSTANTS
    Producers = {p1, p2, p3}
    MaxSize = 1
    MaxAppends = 2
    MaxRestarts = 1
INVARIANTS
    NoLostWakeup
    PopHasItem
    Overshoot
PROPERTY Drains
CHECK_DEADLOCK FALSE
