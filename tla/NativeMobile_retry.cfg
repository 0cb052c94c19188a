\* A descriptor whose close reports an error.
CONSTANTS
    MaxNetworks = 1
    MaxFailures = 1
    Shells = {s1}
    NoShell = NoShell
    Descriptors = {7, 8}
SPECIFICATION FairSpec
CHECK_DEADLOCK FALSE
PROPERTIES
    RetriesSucceed
