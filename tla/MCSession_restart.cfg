\* Service restarts racing a Stop.
CONSTANTS
    None = None
    two = two
    one = one
    uno = uno
    Slots = {w1}
    Callers = {c1}
    Digests <- RestoreDigests
    ProfileCount <- RestoreProfileCount
    SourceKinds = {"URL"}
    AutoRecoveryLimit = 0
    MaxGeneration = 2
    Requests = {"serviceRestore", "stop", "shutdown"}
SPECIFICATION Spec
CHECK_DEADLOCK FALSE
PROPERTIES
    RestartHonorsStop
