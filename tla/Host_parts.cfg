CONSTANTS
    Parts = {"scopes", "engine", "dns", "lookup", "outline", "xray", "trusttunnel", "forwarder", "store", "publisher"}
    MaxGeneration = 2
    Dialers = {a}
    Hosts = {h}
    Networks = {n1, n2}
    Lookups = {l, k}
    MaxSwitches = 1
    DnsPlatforms = {"windows", "linux", "mobile"}
    NameServers = {s1, s2}
    Aliases = {a1}
    Flows = {f}
    Devices = {d1, d2}
    XrayDials = {x, y}
    TTDevices = {e1, e2}
    MaxPairs = 2
    Urls = {u, v}
    MaxChanges = 8
SPECIFICATION Spec
CHECK_DEADLOCK FALSE
INVARIANTS
    GuardExact
    ClosedIsDrained
    HooksOwned
    SourceExact
    AnswersExact
PROPERTIES
    ClosesEnd
    LatestTaken
    ResolverFollows
