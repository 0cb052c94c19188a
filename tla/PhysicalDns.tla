----------------------------- MODULE PhysicalDns -----------------------------
(***************************************************************************)
(* The resolver of the physical network (dnscache, with the capture that   *)
(* each platform gives it).  A lookup first captures the network: it binds *)
(* the sockets of the protocols to it (Windows), lets the guard pass its   *)
(* name servers (Windows, Linux) and installs its resolver in the cache,   *)
(* which all lookups share.  On the desktop a ticker captures as well.     *)
(*                                                                         *)
(* An action is one critical section under Cache.mu or the guard's mu, or  *)
(* one call of the system.  A network stands for its identity; "down" is   *)
(* the lack of one.  A revision number matters only in so far as it has    *)
(* changed since a lookup read it.                                         *)
(***************************************************************************)
EXTENDS Naturals

CONSTANTS
    Networks,    \* physical networks; their links stay up
    Lookups,     \* goroutines that resolve
    MaxSwitches, \* bound: changes of the network
    DnsPlatforms \* platforms checked

None == "none"
Ticker == "ticker"
Callers == Lookups \cup {Ticker}

VARIABLES
    dnsPlatform, \* "windows", "linux", "mobile"
    network,     \* the network now, or "down"
    switches,    \* how often it has changed
    cache,       \* identity and resolver of the Cache
    uplink,      \* what protocol sockets are bound to (Windows)
    bootstrap,   \* the guard: identity recorded, and whose servers the kernel lets pass
    caller,      \* what every goroutine does
    dnsFailures  \* may calls fail and contexts end?

dnsVars == <<dnsPlatform, network, switches, cache, uplink, bootstrap, caller, dnsFailures>>

\* captured: the network it read.  asked: whose resolver it called.  since: the networks
\* there were since that call.  seen: what was in the cache since.  outdated: the revision
\* it read has changed.
IdleCaller ==
    [pc |-> "idle", captured |-> None, asked |-> None, since |-> {}, seen |-> {}, outdated |-> FALSE]

DnsInit ==
    /\ dnsPlatform \in DnsPlatforms /\ network \in Networks /\ switches = 0
    /\ cache = [identity |-> None, resolver |-> None] /\ uplink = network
    /\ bootstrap = [recorded |-> network, kernel |-> network]
    /\ caller = [c \in Callers |-> IdleCaller] /\ dnsFailures = TRUE

Switch ==
    /\ switches < MaxSwitches /\ switches' = switches + 1
    /\ network' \in (Networks \cup {"down"}) \ {network}
    /\ caller' = [c \in Callers |-> [caller[c] EXCEPT !.since = IF @ = {} THEN {} ELSE @ \cup {network'}]]
    /\ UNCHANGED <<dnsPlatform, cache, uplink, bootstrap, dnsFailures>>

SetCaller(c, pc) == caller' = [caller EXCEPT ![c].pc = pc]
Fails(c) == caller' = [caller EXCEPT ![c] = IdleCaller]

-----------------------------------------------------------------------------
(* The capture *)

BeginCapture(c) ==
    /\ caller[c].pc = "idle" /\ (c = Ticker => dnsPlatform # "mobile")
    /\ caller' = [caller EXCEPT ![c].pc = "bind", ![c].captured = network]
    /\ UNCHANGED <<dnsPlatform, network, switches, cache, uplink, bootstrap, dnsFailures>>

KeepsBinding(id) == IF id = "down" THEN uplink ELSE id \* fault: no ResetDefaultRoute
Rebound(id) == id

\* The name servers of the link are read.  When that fails, Windows goes on as if there
\* were no network.
CaptureWindowsInterface(c) ==
    /\ dnsPlatform = "windows"
    /\ \/ SetCaller(c, "update")
       \/ dnsFailures /\ caller' = [caller EXCEPT ![c].pc = "update", ![c].captured = "down"]
CaptureLinuxLink(c) ==
    /\ dnsPlatform = "linux"
    /\ \/ SetCaller(c, "update")
       \/ dnsFailures /\ caller[c].captured # "down" /\ Fails(c)
\* A mobile shell is asked for its network only.
CaptureUnderlyingNetwork(c) ==
    /\ dnsPlatform = "mobile"
    /\ \/ caller[c].captured # "down" /\ SetCaller(c, "set")
       \/ (dnsFailures \/ caller[c].captured = "down") /\ Fails(c)

\* On Windows SetPhysicalInterfaces or ResetDefaultRoute comes before.
Bind(c) ==
    /\ caller[c].pc = "bind"
    /\ CaptureWindowsInterface(c) \/ CaptureLinuxLink(c) \/ CaptureUnderlyingNetwork(c)
    /\ uplink' = IF dnsPlatform = "windows" THEN Rebound(caller[c].captured) ELSE uplink
    /\ UNCHANGED <<dnsPlatform, network, switches, cache, bootstrap, dnsFailures>>

Captured(c) ==
    IF c = Ticker \/ caller[c].captured = "down" THEN Fails(c) ELSE SetCaller(c, "set")

\* The guard of Windows changes its filters in one transaction, and records what it changed.
Transactional == dnsPlatform = "windows"
\* What that of Linux has recorded when the kernel was changed and the context ended then.
NotRecorded(id) == bootstrap.recorded

\* UpdateBootstrap returns at once when the identity is the one that it has recorded.
UpdateBootstrap(c) ==
    LET id == caller[c].captured IN
    /\ caller[c].pc = "update"
    /\ \/ bootstrap.recorded = id /\ Captured(c) /\ UNCHANGED bootstrap
       \/ /\ bootstrap.recorded # id /\ Captured(c)
          /\ bootstrap' = [recorded |-> id, kernel |-> id]
       \/ dnsFailures /\ Fails(c) /\ UNCHANGED bootstrap
       \/ /\ bootstrap.recorded # id /\ dnsFailures /\ ~Transactional /\ Fails(c)
          /\ bootstrap' = [recorded |-> NotRecorded(id), kernel |-> id]
    /\ UNCHANGED <<dnsPlatform, network, switches, cache, uplink, dnsFailures>>

-----------------------------------------------------------------------------
(* Cache.ResolveAddresses after the capture *)

\* revision++ with a resolver concerns every lookup that has read the revision before.
Revised(state, resolver) ==
    IF state.pc \in {"fence", "revision"}
    THEN [state EXCEPT !.outdated = TRUE, !.seen = @ \cup {resolver}] ELSE state
NewRevision(f, resolver) == [c \in Callers |-> Revised(f[c], resolver)]

Installed(c) == [caller EXCEPT ![c].pc = "ask", ![c].captured = None]

SetResolver(c) ==
    /\ caller[c].pc = "set"
    /\ IF cache.identity = caller[c].captured /\ cache.resolver # None
       THEN caller' = Installed(c) /\ UNCHANGED cache
       ELSE /\ cache' = [identity |-> caller[c].captured, resolver |-> caller[c].captured]
            /\ caller' = NewRevision(Installed(c), caller[c].captured)
    /\ UNCHANGED <<dnsPlatform, network, switches, uplink, bootstrap, dnsFailures>>

\* A new owner of the network, or a new attempt, replaces the source.
SetResolverSource ==
    /\ cache' = [cache EXCEPT !.resolver = None] /\ caller' = NewRevision(caller, None)
    /\ UNCHANGED <<dnsPlatform, network, switches, uplink, bootstrap, dnsFailures>>

\* The resolver may be another lookup's by now.
Ask(c) ==
    /\ caller[c].pc = "ask"
    /\ IF cache.resolver = None THEN Fails(c)
       ELSE caller' = [caller EXCEPT ![c].pc = "fence", ![c].asked = cache.resolver,
                                     ![c].since = {network}, ![c].seen = {cache.resolver}]
    /\ UNCHANGED <<dnsPlatform, network, switches, cache, uplink, bootstrap, dnsFailures>>

\* The resolver of Linux compares the name servers of its own link before and after, and
\* links stay as they are.
SeesItsLinkOnly == dnsPlatform = "linux"

NoFence(c) == TRUE \* fault: the answer is not checked against the network
\* The network that the resolver was made for has to be there still.
Fence(c) == SeesItsLinkOnly \/ network = caller[c].asked

\* The lookup itself is module CapturedDns, or the platform's own; it fails or it has
\* addresses.
Resolve(c) ==
    /\ caller[c].pc = "fence"
    /\ Fails(c) \/ (Fence(c) /\ SetCaller(c, "revision"))
    /\ UNCHANGED <<dnsPlatform, network, switches, cache, uplink, bootstrap, dnsFailures>>

NeverOutdated(c) == FALSE \* fault: the revision is not compared
Outdated(c) == caller[c].outdated

CheckRevision(c) ==
    /\ caller[c].pc = "revision"
    /\ \/ ~Outdated(c) /\ SetCaller(c, "answered")
       \/ (Outdated(c) \/ dnsFailures) /\ Fails(c)
    /\ UNCHANGED <<dnsPlatform, network, switches, cache, uplink, bootstrap, dnsFailures>>

\* The answer is used, and the goroutine resolves again.
Use(c) ==
    /\ caller[c].pc = "answered" /\ Fails(c)
    /\ UNCHANGED <<dnsPlatform, network, switches, cache, uplink, bootstrap, dnsFailures>>

DnsFailuresEnd ==
    /\ dnsFailures /\ dnsFailures' = FALSE
    /\ UNCHANGED <<dnsPlatform, network, switches, cache, uplink, bootstrap, caller>>

Step(c) ==
    \/ Bind(c) \/ UpdateBootstrap(c) \/ SetResolver(c) \/ Ask(c) \/ Resolve(c) \/ CheckRevision(c) \/ Use(c)

DnsNext ==
    \/ Switch \/ SetResolverSource \/ DnsFailuresEnd
    \/ \E c \in Callers : BeginCapture(c) \/ Step(c)

DnsSpec == DnsInit /\ [][DnsNext]_dnsVars

\* The ticker ticks, its goroutine runs, and its calls end (they have deadlines).
DnsFair == BeginCapture(Ticker) \/ Step(Ticker)

-----------------------------------------------------------------------------
\* ResolveAddresses, although lookups replace each other's resolver and the network may
\* switch at any step: no other resolver was in the cache from the time that the one which
\* answers was asked until the answer was checked, and its network was the physical network
\* at some time since.  For the latter Linux is the exception: its link resolver does not see
\* that another link became the default.
AnswersAreCurrent ==
    \A c \in Lookups : caller[c].pc = "answered" =>
        /\ caller[c].seen = {caller[c].asked}
        /\ dnsPlatform # "linux" => caller[c].asked \in caller[c].since

\* On Windows, once the network stays as it is and calls work, the guard's exceptions and
\* the bindings of sockets are those of that network, and stay so, whichever captures were
\* under way.  (Elsewhere sockets are not bound, and the guard of Linux may keep what it has
\* recorded: BootstrapRecorded.)
Settled == switches = MaxSwitches /\ ~dnsFailures
NetworkFollowed ==
    <>[]Settled => <>[](dnsPlatform = "windows" => uplink = network /\ bootstrap.kernel = network)

\* filter_linux.go: "UpdateBootstrap atomically replaces exceptions for the captured link's
\* DNS": what the guard has recorded is what the kernel lets pass.
BootstrapRecorded == bootstrap.recorded = bootstrap.kernel
=============================================================================
