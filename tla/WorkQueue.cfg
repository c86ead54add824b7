CONSTANTS
    Items = {i1, i2, i3}
    Workers = {w1, w2, w3, w4}
    None = None
SPECIFICATION FairSpec
INVARIANTS
    OneWorkerPerItem
    NoLostWakeup
PROPERTIES
    ImplementsWorkSet
    EveryAddServed
    WorkersExitAfterShutDown
