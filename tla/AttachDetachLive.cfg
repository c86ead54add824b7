CONSTANTS
    p1 = p1
    p2 = p2
    v1 = v1
    Pods = {p1}
    Volumes = {v1}
    VolumeOf <- OneVolume
    NoPod = NoPod
    MaxFailures = 1
SPECIFICATION FairSpec
PROPERTIES
    PodGetsItsVolume
    UnusedVolumeReleased
CONSTRAINT EarlyFailure
