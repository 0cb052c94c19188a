\* Start with a source and Restore of two clients, racing a service
\* shutdown.
CONSTANTS
    None = None
    two = two
    one = one
    uno = uno
    Slots = {w1}
    Callers = {c1, c2}
    Digests <- RestoreDigests
    ProfileCount <- RestoreProfileCount
    SourceKinds = {"URL"}
    AutoRecoveryLimit = 0
    MaxGeneration = 2
    Requests = {"startSource", "restore", "serviceRestore", "shutdown"}
SYMMETRY CallerSymmetry
SPECIFICATION Spec
CHECK_DEADLOCK FALSE
PROPERTIES
    RestoreExact
    StartsWhatItLoaded
