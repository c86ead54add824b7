CONSTANTS
    UIDs = {p1}
    Workers = {w1, w2, w3}
    None = None
    MaxCalls = 4
    MaxTimeouts = 1
SPECIFICATION FairSpec
CHECK_DEADLOCK FALSE
INVARIANTS
    OneSyncPerPod
    SendsNeverBlock
    SyncsInOrder
    PodStaysScheduled
PROPERTIES
    PendingKillServed
    WorkersComeToRest
