\* Two attempts on up to two networks.
CONSTANTS
    MaxAttempts = 2
    MaxNetworks = 2
    ReadinessAttempts = 2
    HealthFailureThreshold = 3
SPECIFICATION FairSpec
CHECK_DEADLOCK FALSE
INVARIANTS
    LifecycleInv
PROPERTIES
    MonitorFirst
    LeaseKeepsPromise
    LeaseCallsReturn
