\* Closes may fail and deadlines pass.
CONSTANTS
    TCP = {t1}
    UDP = {u1}
    Origins = {o1}
    MaxAttempts = 2
    MayFail = TRUE
SPECIFICATION Spec
CHECK_DEADLOCK FALSE
INVARIANTS
    FlowInv
    NoFlowOutlivesAttempt
PROPERTIES
    CleanAttach
