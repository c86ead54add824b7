CONSTANTS
    Items = {i1}
    Workers = {w1}
    None = None
    Callers = {c1, c2}
    Cap = 1
    MaxTime = 2
    MaxIds = 2
SPECIFICATION DelayFairSpec
CHECK_DEADLOCK FALSE
INVARIANTS
    AddedOnTime
    NothingLost
    WaitingIsSorted
PROPERTIES
    EveryEntryAdded
    CallersReturn
