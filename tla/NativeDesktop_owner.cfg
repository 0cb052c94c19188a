\* Races of Connect, Disconnect, cancellation and repeated Stops.
SPECIFICATION FairSpec
CHECK_DEADLOCK FALSE
INVARIANTS
    DesktopInv
    UsersGoFirst
PROPERTIES
    KeepsPromise
    CallsReturn
