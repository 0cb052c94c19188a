CONSTANTS
    Networks = {n1, n2}
    Lookups = {l}
    MaxSwitches = 2
    DnsPlatforms = {"linux"}
SPECIFICATION DnsSpec
INVARIANT BootstrapRecorded
