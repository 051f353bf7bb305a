SPECIFICATION FairSpec
CONSTANTS
    Pods = {p1}
    FailureThreshold = 3
    MaxRotations = 2
INVARIANTS
    WatchTypeOK
PROPERTIES
    PoolFollowsPods
    ResultsGoWithTheirPods
    HostingPodsStay
    OnlyGonePodsLeave
CHECK_DEADLOCK FALSE
