\* A Stop of an owner whose start was canceled.
SPECIFICATION Spec
CHECK_DEADLOCK FALSE
INVARIANTS
    RetryReachesOwner
