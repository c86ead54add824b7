CONSTANTS
    c1 = c1
    c2 = c2
    Candidates = {c1, c2}
    Nobody = Nobody
    LeaseDuration = 10
    RenewDeadline = 2
    RetryPeriod = 1
    Second = 2
    Delay = 1
    MaxTime = 10
    MaxLate = 1
SPECIFICATION Spec
INVARIANTS
    LeaderHoldsRecord
    StepsDownInTime
PROPERTIES
    ImplementsLease
SYMMETRY Symmetry
CHECK_DEADLOCK FALSE
