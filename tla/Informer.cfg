CONSTANTS
    Keys = {k1, k2}
    MaxRV = 4
    MaxRelists = 2
    MaxResyncs = 1
SPECIFICATION FairSpec
CHECK_DEADLOCK FALSE
INVARIANTS
    DeletionsReportedOnce
    StoreFollowsServer
    SyncedMeansListed
    FreshUntilResync
PROPERTIES
    StoreConverges
