\* Two networks in turn, with shells that change.
CONSTANTS
    MaxNetworks = 2
    MaxFailures = 2
    Shells = {s1, s2}
    NoShell = NoShell
    Descriptors = {7, 8}
SPECIFICATION FairSpec
CHECK_DEADLOCK FALSE
INVARIANT
    MobileInv
PROPERTIES
    TunnelLast
    MobileKeepsPromise
    CancelReturns
    RetriesRelease
