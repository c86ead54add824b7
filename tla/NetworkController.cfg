CONSTANTS
    Services = {s1}
    Workers = {w1, w2}
    None = None
    MaxHosts = 2
    MaxRV = 3
    MaxFailures = 2
    MaxRelists = 1
    MaxRestarts = 1
    ClientRetryCount = 2
SPECIFICATION FairSpec
CHECK_DEADLOCK FALSE
INVARIANTS
    CreatesOnlyAbsent
    SettledIsReconciled
    NoLoadBalancerLeaked
PROPERTIES
    StatusKeepsSpec
    LoadBalancersConverge
