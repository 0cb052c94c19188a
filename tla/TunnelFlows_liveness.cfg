\* Detach and Stop end when no close fails.
CONSTANTS
    TCP = {t1}
    UDP = {u1}
    Origins = {o1}
    MaxAttempts = 2
    MayFail = FALSE
SPECIFICATION FairSpec
CHECK_DEADLOCK FALSE
PROPERTIES
    FlowsEnd
