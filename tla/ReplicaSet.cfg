CONSTANTS
    Pods = {p1, p2}
    NoPod = NoPod
    Replicas = {1, 2}
    Absent = Absent
    BurstReplicas = 2
    MaxChanges = 3
    MaxFailures = 1
SPECIFICATION FairSpec
INVARIANTS
    NeverTooMany
    NeverDeletedTwice
PROPERTY ReplicasConverge
CHECK_DEADLOCK FALSE
