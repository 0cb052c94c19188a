\* Start, retry, switch, stop, shutdown and recovery, one configuring client.
CONSTANTS
    None = None
    two = two
    one = one
    uno = uno
    Slots = {w1, w2}
    Callers = {c1}
    Digests <- MCDigests
    ProfileCount <- MCProfileCount
    SourceKinds = {"RAW"}
    AutoRecoveryLimit = 1
    MaxGeneration = 4
    Requests = {"configure", "start", "retry", "replace", "stop", "shutdown"}
SPECIFICATION FairSpec
CHECK_DEADLOCK FALSE
INVARIANTS
    Inv
    SingleOwner
    NothingLeaks
    CleanupIsComplete
    ConnectedIsBacked
    ConnectedTarget
    StopReachesAttempt
    PrimaryActionWorks
PROPERTIES
    ProtectionStays
    StopIsFinal
    FailedCleanupBlocks
    ReleaseOrder
    AttemptsEnd
