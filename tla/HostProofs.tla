----------------------------- MODULE HostProofs -----------------------------
(***************************************************************************)
(* Proofs about the parts of the host, for any attempts, dialers, hosts,   *)
(* networks, lookups, devices and sources: what the runs of module Host    *)
(* check on a small instance is proved from an inductive invariant of each *)
(* part.  The parts share no state, so the invariant of the host is the    *)
(* conjunction of theirs.                                                  *)
(***************************************************************************)
EXTENDS Host, DeviceProofs, TLAPS

-----------------------------------------------------------------------------
(* SocketScopes: why a closed scope has no permission left *)

\* What a dialer may be doing.
DialStates == [pc : {"idle", "next", "protect", "connect", "connected"},
               gen : Generations \cup {0}, mode : {"first", "all"},
               todo : SUBSET (Destinations \cup {Loopback}), dest : Destinations \cup {Loopback}]

\* A filter in the kernel is one that the guard has recorded, so that Retire finds it; only
\* Windows has filters; and a dial that protects a socket does so for some attempt.
ScopesInv ==
    /\ scope \in [Generations -> {"none", "open", "canceled", "closed"}]
    /\ permits \subseteq Generations \X (Destinations \cup {Loopback})
    /\ dial \in [Dialers -> DialStates]
    /\ \A d \in Dialers : dial[d].pc # "idle" => dial[d].gen \in Generations
    /\ permits \subseteq attempts
    /\ platform # "windows" => permits = {}
    /\ RetiredForGood

USE DEF guardVars, scopeVars

\* Before the first attempt nothing is permitted.
LEMMA ScopesInitInv == ScopesInit => ScopesInv
  BY DEF ScopesInit, ScopesInv, RetiredForGood, Idle, DialStates

\* NewSocketScope, the end of an attempt's context and Close: a scope is closed only when
\* every filter of its attempt is gone.
LEMMA ScopeStepInv ==
    ASSUME ScopesInv, NEW g \in Generations, NewSocketScope(g) \/ CancelScope(g) \/ Close(g)
    PROVE  ScopesInv'
<1>1. CASE NewSocketScope(g)
  BY <1>1 DEF NewSocketScope, ScopesInv, RetiredForGood
<1>2. CASE CancelScope(g)
  BY <1>2 DEF CancelScope, ScopesInv, RetiredForGood
<1>3. CASE Close(g)
  BY <1>3 DEF Close, ScopesInv, RetiredForGood, Retired, RetireFails, Recorded, KeepsRecord
<1> QED BY <1>1, <1>2, <1>3

\* A dial: a destination is permitted only while the scope of its attempt is open.
LEMMA DialStepInv == ASSUME ScopesInv, NEW d \in Dialers, Dial(d) PROVE ScopesInv'
<1>1. CASE BeginDial(d)
  <2>1. PICK g \in Generations, addresses \in SUBSET (Destinations \cup {Loopback}) :
               SetDial(d, [Idle EXCEPT !.pc = "next", !.gen = g, !.todo = addresses])
    BY <1>1 DEF BeginDial
  <2> QED BY <1>1, <2>1 DEF BeginDial, ScopesInv, RetiredForGood, SetDial, Idle, DialStates
<1>2. CASE BeginNative(d)
  <2>1. PICK g \in Generations, matching \in SUBSET Destinations :
               SetDial(d, [Idle EXCEPT !.pc = "next", !.gen = g, !.mode = "all", !.todo = matching])
    BY <1>2 DEF BeginNative
  <2>2. matching \in SUBSET (Destinations \cup {Loopback})
    OBVIOUS
  <2> QED BY <1>2, <2>1, <2>2 DEF BeginNative, ScopesInv, RetiredForGood, SetDial, Idle, DialStates
<1>3. CASE NextAddress(d)
  <2>1. \E to \in DialStates : SetDial(d, to) /\ (to.pc # "idle" => to.gen \in Generations)
    <3>1. dial[d] \in DialStates /\ dial[d].gen \in Generations
      BY <1>3 DEF NextAddress, ScopesInv
    <3>2. CASE \E a \in dial[d].todo :
                  SetDial(d, [dial[d] EXCEPT !.pc = "protect", !.dest = a, !.todo = @ \ {a}])
      <4>1. PICK a \in dial[d].todo :
                   SetDial(d, [dial[d] EXCEPT !.pc = "protect", !.dest = a, !.todo = @ \ {a}])
        BY <3>2
      <4>2. [dial[d] EXCEPT !.pc = "protect", !.dest = a, !.todo = @ \ {a}] \in DialStates
        BY <3>1 DEF DialStates
      <4>3. [dial[d] EXCEPT !.pc = "protect", !.dest = a, !.todo = @ \ {a}].gen = dial[d].gen
        BY <3>1 DEF DialStates
      <4> QED BY <3>1, <4>1, <4>2, <4>3
    <3>3. Idle \in DialStates /\ Idle.pc = "idle"
      BY DEF Idle, DialStates
    <3>4. CASE SetDial(d, [dial[d] EXCEPT !.pc = "connect"])
      BY <3>1, <3>4 DEF DialStates
    <3> QED BY <1>3, <3>2, <3>3, <3>4 DEF NextAddress
  <2> QED BY <1>3, <2>1 DEF NextAddress, ScopesInv, RetiredForGood, SetDial
<1>4. CASE ProtectFD(d)
  BY <1>4 DEF ProtectFD, ScopesInv, RetiredForGood, SetDial, Idle, DialStates, Failed, Protected, Authorize
<1>5. CASE Connect(d) \/ CloseSocket(d)
  BY <1>5 DEF Connect, CloseSocket, ScopesInv, RetiredForGood, SetDial, Idle, DialStates, Failed
<1> QED BY <1>1, <1>2, <1>3, <1>4, <1>5 DEF Dial

\* Every step of protected_dialer keeps the invariant.
LEMMA ScopesStepInv == ScopesInv /\ [ScopesNext]_scopeVars => ScopesInv'
<1> SUFFICES ASSUME ScopesInv, [ScopesNext]_scopeVars PROVE ScopesInv'
  OBVIOUS
<1>1. CASE Rebind \/ CloseGuard \/ FailuresEnd
  BY <1>1 DEF Rebind, CloseGuard, FailuresEnd, ScopesInv, RetiredForGood
<1>2. CASE UNCHANGED scopeVars
  BY <1>2 DEF ScopesInv, RetiredForGood
<1> QED BY <1>1, <1>2, ScopeStepInv, DialStepInv DEF ScopesNext

-----------------------------------------------------------------------------
(* WindowsEngine: why a configured adapter is guarded *)

\* Where startPlatformEngine changes settings of the adapter, after it has the guard.
Configuring == {"dad", "readDns", "ip4", "ip6", "preferred", "dns"}

\* windowsAdapterState.
AdapterStates == [owned : BOOLEAN, iface : BOOLEAN, luid : BOOLEAN, guard : BOOLEAN,
                  dnsKnown : BOOLEAN, mutated : SUBSET Settings]

\* Where it has the device and has not begun to close it.
Owning == Configuring \cup {"find", "guard", "running"}

\* The filters are there while settings are made and until the adapter was seen to be gone;
\* an adapter that exists is owned, so that the wait for its removal is a real one; an
\* adapter takes its settings along, so that the next one begins without any; and no close
\* of an earlier device takes the adapter away while it is being configured, because a Stop
\* that succeeds has forgotten its phases.
EngineInv ==
    /\ stopPhases \in [Phases -> {"none", "running", "done"}]
    /\ adapter \in AdapterStates
    /\ enginePc \in Configuring => blocked
    /\ enginePc \in Owning => wintun /\ ownedDevice
    /\ enginePc \in Owning \cup {"idle"} => stopPhases["device-close"] = "none"
    /\ enginePc \in {"removal", "release", "finish"} /\ ~stopErr => stopPhases["device-close"] = "none"
    /\ wintun => adapter.owned
    /\ ~wintun => settings = {}
    /\ enginePc = "release" => ~wintun
    /\ ConfiguredIsGuarded

USE DEF windows, program, engineVars

\* There is no adapter before the first Start.
LEMMA EngineInitInv == EngineInit => EngineInv
  BY DEF EngineInit, EngineInv, ConfiguredIsGuarded, NoAdapter, NoPhases, Phases, AdapterStates, Owning, Configuring

\* A flag for a setting leaves what the adapter owns.
LEMMA MutatedAdapter ==
    ASSUME adapter \in AdapterStates, NEW s \in Settings, Mutated(s)
    PROVE  adapter' \in AdapterStates /\ adapter'.owned = adapter.owned
  BY DEF Mutated, AdapterStates

\* startPlatformEngine: the guard comes before the first setting.
LEMMA StartingInv == ASSUME EngineInv, Starting PROVE EngineInv'
<1>1. CASE Start
  <2>1. adapter' \in AdapterStates /\ (wintun' => adapter'.owned)
    <3>1. CASE UNCHANGED <<adapter, wintun>>
      BY <3>1 DEF EngineInv
    <3>2. CASE adapter' = [adapter EXCEPT !.owned = TRUE]
      BY <3>2 DEF EngineInv, AdapterStates
    <3> QED BY <1>1, <3>1, <3>2 DEF Start
  <2> QED BY <1>1, <2>1 DEF Start, StartFails, Goto, EngineInv, ConfiguredIsGuarded, Owning, Configuring
<1>2. CASE FindAdapter
  <2>1. adapter' \in AdapterStates /\ adapter'.owned = adapter.owned
    BY <1>2 DEF FindAdapter, EngineInv, AdapterStates
  <2> QED BY <1>2, <2>1 DEF FindAdapter, StartFails, Goto, EngineInv, ConfiguredIsGuarded, Owning, Configuring
<1>3. CASE AcquireGuard
  <2>1. adapter' \in AdapterStates /\ adapter'.owned = adapter.owned
    BY <1>3 DEF AcquireGuard, EngineInv, AdapterStates
  <2> QED BY <1>3, <2>1 DEF AcquireGuard, StartFails, Goto, EngineInv, ConfiguredIsGuarded, Owning, Configuring
<1>4. CASE SetDAD
  <2>1. adapter' \in AdapterStates /\ adapter'.owned = adapter.owned
    BY <1>4, MutatedAdapter DEF SetDAD, EngineInv, Settings
  <2> QED BY <1>4, <2>1 DEF SetDAD, StartFails, Goto, EngineInv, ConfiguredIsGuarded, Owning, Configuring
<1>5. CASE ReadDNS
  BY <1>5 DEF ReadDNS, StartFails, Goto, EngineInv, ConfiguredIsGuarded, Owning, Configuring, AdapterStates
<1>6. ASSUME NEW s \in {"ip4", "ip6"}, NEW next \in {"ip6", "preferred"}, AddAddress(s, next) PROVE EngineInv'
  <2>1. adapter' \in AdapterStates /\ adapter'.owned = adapter.owned
    BY <1>6, MutatedAdapter DEF AddAddress, EngineInv, Settings
  <2> QED BY <1>6, <2>1 DEF AddAddress, StartFails, Goto, EngineInv, ConfiguredIsGuarded, Owning, Configuring
<1>7. CASE SetDNS
  <2>1. adapter' \in AdapterStates /\ adapter'.owned = adapter.owned
    BY <1>7, MutatedAdapter DEF SetDNS, EngineInv, Settings
  <2> QED BY <1>7, <2>1 DEF SetDNS, StartFails, Goto, EngineInv, ConfiguredIsGuarded, Owning, Configuring
<1>8. CASE AwaitPreferred
  BY <1>8 DEF AwaitPreferred, StartFails, Goto, EngineInv, ConfiguredIsGuarded, Owning, Configuring
<1> QED BY <1>1, <1>2, <1>3, <1>4, <1>5, <1>6, <1>7, <1>8 DEF Starting

\* stopPlatformEngine: the guard is released last, when the adapter is gone.
LEMMA StoppingInv == ASSUME EngineInv, Stopping PROVE EngineInv'
<1>1. CASE Cleanup
  <2>1. CASE ~adapter.iface
    BY <1>1, <2>1 DEF Cleanup, Goto, EngineInv, ConfiguredIsGuarded, Owning, Configuring
  <2>2. CASE adapter.iface
    <3>1. PICK restored \in SUBSET adapter.mutated :
                 /\ adapter' = [adapter EXCEPT !.mutated = @ \ restored,
                                               !.dnsKnown = @ /\ ~("dns" \in restored)]
                 /\ settings' = settings \ restored
      BY <1>1, <2>2 DEF Cleanup
    <3>2. adapter' \in AdapterStates /\ adapter'.owned = adapter.owned
      BY <3>1 DEF EngineInv, AdapterStates
    <3> QED BY <1>1, <3>1, <3>2 DEF Cleanup, Goto, EngineInv, ConfiguredIsGuarded, Owning, Configuring
  <2> QED BY <2>1, <2>2 DEF EngineInv
<1>2. CASE BeginPhase \/ EndPhase \/ PhaseTimeout \/ StackStopped
  BY <1>2 DEF BeginPhase, EndPhase, PhaseTimeout, StackStopped, Phase, Phases, ForgetPhases, NoPhases, Goto, EngineInv, ConfiguredIsGuarded, Owning, Configuring
<1>3. CASE AwaitRemoval
  <2>1. PICK removed \in BOOLEAN :
               /\ IF removed THEN ~adapter.owned \/ ~wintun ELSE adapter.owned /\ expired
               /\ Goto(IF adapter.guard /\ removed THEN "release" ELSE "finish")
               /\ adapter' = IF removed /\ ~adapter.guard THEN NoAdapter ELSE adapter
    BY <1>3 DEF AwaitRemoval, Confirmed
  <2>2. adapter' \in AdapterStates
    BY <2>1 DEF NoAdapter, AdapterStates, EngineInv
  <2>3. removed => ~wintun
    BY <2>1 DEF EngineInv
  <2> QED BY <1>3, <2>1, <2>2, <2>3 DEF AwaitRemoval, Goto, EngineInv, ConfiguredIsGuarded, Owning, Configuring
<1>4. CASE ReleaseGuard
  <2>1. adapter' \in AdapterStates
    <3>1. NoAdapter \in AdapterStates
      BY DEF NoAdapter, AdapterStates
    <3> QED BY <1>4, <3>1 DEF ReleaseGuard, EngineInv
  <2> QED BY <1>4, <2>1 DEF ReleaseGuard, Goto, EngineInv, ConfiguredIsGuarded, Owning, Configuring
<1>5. CASE StopReturns
  BY <1>5 DEF StopReturns, Goto, EngineInv, ConfiguredIsGuarded, Owning, Configuring
<1> QED BY <1>1, <1>2, <1>3, <1>4, <1>5 DEF Stopping

\* Every step of the Windows engine keeps the invariant.
LEMMA EngineStepInv == EngineInv /\ [EngineNext]_engineVars => EngineInv'
<1> SUFFICES ASSUME EngineInv, [EngineNext]_engineVars PROVE EngineInv'
  OBVIOUS
<1>1. CASE BeginStop \/ Expire \/ EngineFailuresEnd
  BY <1>1 DEF BeginStop, Expire, EngineFailuresEnd, Goto, EngineInv, ConfiguredIsGuarded, Owning, Configuring
<1>2. CASE InBackground
  BY <1>2 DEF InBackground, AdapterGone, FinishPhase, Phases, EngineInv, ConfiguredIsGuarded, Owning, Configuring
<1>3. CASE UNCHANGED engineVars
  BY <1>3 DEF EngineInv, ConfiguredIsGuarded
<1> QED BY <1>1, <1>2, <1>3, StartingInv, StoppingInv DEF EngineNext

-----------------------------------------------------------------------------
(* PhysicalDns: why an answer is current *)

\* What a goroutine that resolves may be doing.
CallerStates == [pc : {"idle", "bind", "update", "set", "ask", "fence", "revision", "answered"},
                 captured : Networks \cup {None, "down"}, asked : Networks \cup {None, "down"},
                 since : SUBSET (Networks \cup {"down"}), seen : SUBSET (Networks \cup {None, "down"}),
                 outdated : BOOLEAN]

\* While a resolver is asked, the network there is now is one of those there were since; the
\* fence compares it with the one that the resolver was made for, and only then an answer
\* passes.  A lookup that is not outdated has seen no resolver but its own.
DnsInv ==
    /\ network \in Networks \cup {"down"}
    /\ cache \in [identity : Networks \cup {None, "down"}, resolver : Networks \cup {None, "down"}]
    /\ caller \in [Callers -> CallerStates]
    /\ \A c \in Callers : caller[c].pc = "fence" => network \in caller[c].since
    /\ \A c \in Callers : caller[c].pc \in {"revision", "answered"} /\ dnsPlatform # "linux"
                             => caller[c].asked \in caller[c].since
    /\ \A c \in Callers : caller[c].pc \in {"fence", "revision"} /\ ~caller[c].outdated
                             => caller[c].seen = {caller[c].asked}
    /\ \A c \in Callers : caller[c].pc = "answered" => caller[c].seen = {caller[c].asked}

USE DEF dnsVars

\* Nobody resolves in the beginning.
LEMMA DnsInitInv == DnsInit => DnsInv
  BY DEF DnsInit, DnsInv, CallerStates, IdleCaller

\* A goroutine that sets only its place keeps the rest.
LEMMA CallerMoves ==
    ASSUME caller \in [Callers -> CallerStates], NEW c \in Callers,
           NEW pc \in {"idle", "bind", "update", "set", "ask", "fence", "revision", "answered"},
           SetCaller(c, pc)
    PROVE  /\ caller' \in [Callers -> CallerStates]
           /\ caller'[c].pc = pc /\ caller'[c].asked = caller[c].asked /\ caller'[c].since = caller[c].since
           /\ caller'[c].seen = caller[c].seen /\ caller'[c].outdated = caller[c].outdated
           /\ \A b \in Callers \ {c} : caller'[b] = caller[b]
<1>1. [caller[c] EXCEPT !.pc = pc] \in CallerStates
  BY DEF CallerStates
<1>2. caller' = [caller EXCEPT ![c] = [caller[c] EXCEPT !.pc = pc]]
  BY DEF SetCaller
<1>3. caller'[c] = [caller[c] EXCEPT !.pc = pc]
  BY <1>2
<1> QED BY <1>1, <1>2, <1>3 DEF CallerStates

\* A goroutine that fails begins again.
LEMMA CallerFails ==
    ASSUME caller \in [Callers -> CallerStates], NEW c \in Callers, Fails(c)
    PROVE  /\ caller' \in [Callers -> CallerStates]
           /\ caller'[c].pc = "idle"
           /\ \A b \in Callers \ {c} : caller'[b] = caller[b]
  BY DEF Fails, CallerStates, IdleCaller

\* The network switches: it joins what every lookup under way has seen.
LEMMA SwitchInv == ASSUME DnsInv, Switch PROVE DnsInv'
<1>1. network' \in Networks \cup {"down"} /\ UNCHANGED <<cache, dnsPlatform>>
  BY DEF Switch
<1>2. caller' \in [Callers -> CallerStates]
  <2>1. ASSUME NEW c \in Callers
        PROVE  [caller[c] EXCEPT !.since = IF @ = {} THEN {} ELSE @ \cup {network'}] \in CallerStates
    BY <1>1 DEF DnsInv, CallerStates
  <2> QED BY <2>1 DEF Switch
<1>3. ASSUME NEW c \in Callers
      PROVE  /\ caller'[c].pc = caller[c].pc /\ caller'[c].asked = caller[c].asked
             /\ caller'[c].seen = caller[c].seen /\ caller'[c].outdated = caller[c].outdated
             /\ caller'[c].since = IF caller[c].since = {} THEN {} ELSE caller[c].since \cup {network'}
  <2>1. caller[c] \in CallerStates
    BY DEF DnsInv
  <2>2. caller'[c] = [caller[c] EXCEPT !.since = IF @ = {} THEN {} ELSE @ \cup {network'}]
    BY DEF Switch
  <2> QED BY <2>1, <2>2 DEF CallerStates
<1> QED BY <1>1, <1>2, <1>3 DEF DnsInv

\* A new resolver in the cache outdates the lookups that have asked another one, and
\* leaves the others as they are.
LEMMA NewRevisionKeeps ==
    ASSUME NEW f \in [Callers -> CallerStates], NEW resolver \in Networks \cup {None, "down"}
    PROVE  /\ NewRevision(f, resolver) \in [Callers -> CallerStates]
           /\ \A c \in Callers :
                 /\ NewRevision(f, resolver)[c].pc = f[c].pc
                 /\ NewRevision(f, resolver)[c].asked = f[c].asked
                 /\ NewRevision(f, resolver)[c].since = f[c].since
                 /\ f[c].pc \in {"fence", "revision"} => NewRevision(f, resolver)[c].outdated
                 /\ f[c].pc = "answered" => NewRevision(f, resolver)[c].seen = f[c].seen
<1>1. ASSUME NEW c \in Callers
      PROVE  /\ Revised(f[c], resolver) \in CallerStates
             /\ Revised(f[c], resolver).pc = f[c].pc
             /\ Revised(f[c], resolver).asked = f[c].asked
             /\ Revised(f[c], resolver).since = f[c].since
             /\ f[c].pc \in {"fence", "revision"} => Revised(f[c], resolver).outdated
             /\ f[c].pc = "answered" => Revised(f[c], resolver).seen = f[c].seen
  <2>1. f[c] \in CallerStates
    OBVIOUS
  <2>2. CASE f[c].pc \in {"fence", "revision"}
    <3>1. Revised(f[c], resolver) = [f[c] EXCEPT !.outdated = TRUE, !.seen = @ \cup {resolver}]
      BY <2>2 DEF Revised
    <3>2. f[c].seen \cup {resolver} \in SUBSET (Networks \cup {None, "down"})
      BY <2>1 DEF CallerStates
    <3>3. [f[c] EXCEPT !.outdated = TRUE, !.seen = f[c].seen \cup {resolver}] \in CallerStates
      BY <2>1, <3>2 DEF CallerStates
    <3>4. /\ Revised(f[c], resolver).pc = f[c].pc
          /\ Revised(f[c], resolver).asked = f[c].asked
          /\ Revised(f[c], resolver).since = f[c].since
          /\ Revised(f[c], resolver).outdated
      BY <2>1, <3>1 DEF CallerStates
    <3> QED BY <2>2, <3>1, <3>3, <3>4
  <2>3. CASE f[c].pc \notin {"fence", "revision"}
    BY <2>1, <2>3 DEF Revised
  <2> QED BY <2>2, <2>3
<1> QED BY <1>1 DEF NewRevision

\* The capture: no lookup that has asked is concerned.
LEMMA CaptureInv ==
    ASSUME DnsInv, NEW c \in Callers, BeginCapture(c) \/ Bind(c) \/ UpdateBootstrap(c)
    PROVE  DnsInv'
<1>0. caller[c] \in CallerStates /\ network \in Networks \cup {"down"}
  BY DEF DnsInv
<1>1. CASE BeginCapture(c)
  <2>1. [caller[c] EXCEPT !.pc = "bind", !.captured = network] \in CallerStates
    BY <1>0 DEF CallerStates
  <2>2. caller' = [caller EXCEPT ![c] = [caller[c] EXCEPT !.pc = "bind", !.captured = network]]
    BY <1>1 DEF BeginCapture
  <2>3. caller' \in [Callers -> CallerStates]
    BY <2>1, <2>2 DEF DnsInv
  <2>4. caller'[c].pc = "bind" /\ \A b \in Callers \ {c} : caller'[b] = caller[b]
    BY <2>2 DEF DnsInv, CallerStates
  <2> QED BY <1>1, <2>3, <2>4 DEF BeginCapture, DnsInv
<1>2. CASE Bind(c)
  <2>1. CASE \E pc \in {"update", "set"} : SetCaller(c, pc)
    BY <1>2, <2>1, CallerMoves DEF Bind, DnsInv
  <2>2. CASE Fails(c)
    BY <1>2, <2>2, CallerFails DEF Bind, DnsInv
  <2>3. CASE caller' = [caller EXCEPT ![c].pc = "update", ![c].captured = "down"]
    <3>1. [caller[c] EXCEPT !.pc = "update", !.captured = "down"] \in CallerStates
      BY <1>0 DEF CallerStates
    <3>2. caller' = [caller EXCEPT ![c] = [caller[c] EXCEPT !.pc = "update", !.captured = "down"]]
      BY <2>3
    <3>3. caller' \in [Callers -> CallerStates]
      BY <3>1, <3>2 DEF DnsInv
    <3>4. caller'[c].pc = "update" /\ \A b \in Callers \ {c} : caller'[b] = caller[b]
      BY <3>2 DEF DnsInv, CallerStates
    <3> QED BY <1>2, <3>3, <3>4 DEF Bind, DnsInv
  <2> QED BY <1>2, <2>1, <2>2, <2>3
          DEF Bind, CaptureWindowsInterface, CaptureLinuxLink, CaptureUnderlyingNetwork
<1>3. CASE UpdateBootstrap(c)
  <2>1. CASE SetCaller(c, "set")
    BY <1>3, <2>1, CallerMoves DEF UpdateBootstrap, DnsInv
  <2>2. CASE Fails(c)
    BY <1>3, <2>2, CallerFails DEF UpdateBootstrap, DnsInv
  <2> QED BY <1>3, <2>1, <2>2 DEF UpdateBootstrap, Captured
<1> QED BY <1>1, <1>2, <1>3

\* ResolveAddresses after the capture: the fence lets an answer pass when the network is
\* the one that was asked.
LEMMA ResolveInv ==
    ASSUME DnsInv, NEW c \in Callers,
           SetResolver(c) \/ Ask(c) \/ Resolve(c) \/ CheckRevision(c) \/ Use(c)
    PROVE  DnsInv'
<1>0. caller[c] \in CallerStates /\ network \in Networks \cup {"down"}
  BY DEF DnsInv
<1>1. CASE SetResolver(c)
  <2> DEFINE asking == Installed(c)
  <2>1. [caller[c] EXCEPT !.pc = "ask", !.captured = None] \in CallerStates
    BY <1>0 DEF CallerStates
  <2>2. asking = [caller EXCEPT ![c] = [caller[c] EXCEPT !.pc = "ask", !.captured = None]]
    BY DEF Installed
  <2>3. asking \in [Callers -> CallerStates] /\ asking[c].pc = "ask"
    BY <2>1, <2>2 DEF DnsInv, CallerStates
  <2>4. \A b \in Callers \ {c} : asking[b] = caller[b]
    BY <2>2 DEF DnsInv
  <2> HIDE DEF asking
  <2>5. CASE caller' = asking /\ UNCHANGED cache
    BY <1>1, <2>3, <2>4, <2>5 DEF SetResolver, DnsInv
  <2>6. CASE /\ cache' = [identity |-> caller[c].captured, resolver |-> caller[c].captured]
             /\ caller' = NewRevision(asking, caller[c].captured)
    <3>1. caller[c].captured \in Networks \cup {None, "down"}
      BY DEF DnsInv, CallerStates
    <3>2. cache' \in [identity : Networks \cup {None, "down"}, resolver : Networks \cup {None, "down"}]
      BY <2>6, <3>1
    <3>3. /\ caller' \in [Callers -> CallerStates]
          /\ \A b \in Callers : /\ caller'[b].pc = asking[b].pc /\ caller'[b].asked = asking[b].asked
                                /\ caller'[b].since = asking[b].since
                                /\ asking[b].pc \in {"fence", "revision"} => caller'[b].outdated
                                /\ asking[b].pc = "answered" => caller'[b].seen = asking[b].seen
      BY <2>3, <2>6, <3>1, NewRevisionKeeps
    <3> QED BY <1>1, <2>3, <2>4, <3>2, <3>3 DEF SetResolver, DnsInv
  <2> QED BY <1>1, <2>5, <2>6 DEF SetResolver, asking
<1>2. CASE Ask(c)
  <2>1. CASE Fails(c)
    BY <1>2, <2>1, CallerFails DEF Ask, DnsInv
  <2>2. CASE caller' = [caller EXCEPT ![c].pc = "fence", ![c].asked = cache.resolver,
                                      ![c].since = {network}, ![c].seen = {cache.resolver}]
    <3> DEFINE asking == [caller[c] EXCEPT !.pc = "fence", !.asked = cache.resolver,
                                           !.since = {network}, !.seen = {cache.resolver}]
    <3>0. cache.resolver \in Networks \cup {None, "down"}
      BY DEF DnsInv
    <3>1. /\ asking \in CallerStates /\ asking.pc = "fence" /\ asking.since = {network}
          /\ asking.seen = {asking.asked}
      BY <1>0, <3>0 DEF CallerStates
    <3>2. caller' = [caller EXCEPT ![c] = asking]
      BY <2>2
    <3> HIDE DEF asking
    <3>3. caller' \in [Callers -> CallerStates]
      BY <3>1, <3>2 DEF DnsInv
    <3>4. /\ caller'[c].pc = "fence" /\ caller'[c].since = {network}
          /\ caller'[c].seen = {caller'[c].asked}
      BY <3>1, <3>2 DEF DnsInv
    <3>5. \A b \in Callers \ {c} : caller'[b] = caller[b]
      BY <2>2 DEF DnsInv
    <3> QED BY <1>2, <3>3, <3>4, <3>5 DEF Ask, DnsInv
  <2> QED BY <1>2, <2>1, <2>2 DEF Ask
<1>3. CASE Resolve(c)
  <2>1. CASE Fails(c)
    BY <1>3, <2>1, CallerFails DEF Resolve, DnsInv
  <2>2. CASE Fence(c) /\ SetCaller(c, "revision")
    <3>1. dnsPlatform # "linux" => caller[c].asked \in caller[c].since
      BY <1>3, <2>2 DEF Resolve, Fence, SeesItsLinkOnly, DnsInv
    <3> QED BY <1>3, <2>2, <3>1, CallerMoves DEF Resolve, DnsInv
  <2> QED BY <1>3, <2>1, <2>2 DEF Resolve
<1>4. CASE CheckRevision(c) \/ Use(c)
  <2>1. CASE Fails(c)
    BY <1>4, <2>1, CallerFails DEF CheckRevision, Use, DnsInv
  <2>2. CASE CheckRevision(c) /\ ~Outdated(c) /\ SetCaller(c, "answered")
    <3>1. /\ caller[c].pc = "revision" /\ ~caller[c].outdated
          /\ UNCHANGED <<dnsPlatform, network, cache>>
      BY <2>2 DEF CheckRevision, Outdated
    <3>2. /\ caller[c].seen = {caller[c].asked}
          /\ dnsPlatform # "linux" => caller[c].asked \in caller[c].since
      BY <3>1 DEF DnsInv
    <3>3. /\ caller' \in [Callers -> CallerStates]
          /\ caller'[c].pc = "answered" /\ caller'[c].asked = caller[c].asked
          /\ caller'[c].since = caller[c].since /\ caller'[c].seen = caller[c].seen
          /\ \A b \in Callers \ {c} : caller'[b] = caller[b]
      BY <2>2, CallerMoves DEF DnsInv
    <3> QED BY <3>1, <3>2, <3>3 DEF DnsInv
  <2> QED BY <1>4, <2>1, <2>2 DEF CheckRevision, Use
<1> QED BY <1>1, <1>2, <1>3, <1>4

\* Every step of the resolver keeps the invariant.
LEMMA DnsStepInv == DnsInv /\ [DnsNext]_dnsVars => DnsInv'
<1> SUFFICES ASSUME DnsInv, [DnsNext]_dnsVars PROVE DnsInv'
  OBVIOUS
<1>1. CASE SetResolverSource
  <2>1. cache' \in [identity : Networks \cup {None, "down"}, resolver : Networks \cup {None, "down"}]
    BY <1>1 DEF SetResolverSource, DnsInv
  <2>2. /\ caller' \in [Callers -> CallerStates]
        /\ \A c \in Callers : /\ caller'[c].pc = caller[c].pc /\ caller'[c].asked = caller[c].asked
                              /\ caller'[c].since = caller[c].since
                              /\ caller[c].pc \in {"fence", "revision"} => caller'[c].outdated
                              /\ caller[c].pc = "answered" => caller'[c].seen = caller[c].seen
    BY <1>1, NewRevisionKeeps DEF SetResolverSource, DnsInv
  <2> QED BY <1>1, <2>1, <2>2 DEF SetResolverSource, DnsInv
<1>2. CASE DnsFailuresEnd \/ UNCHANGED dnsVars
  BY <1>2 DEF DnsFailuresEnd, DnsInv
<1> QED BY <1>1, <1>2, SwitchInv, CaptureInv, ResolveInv DEF DnsNext, Step

-----------------------------------------------------------------------------
(* CapturedDns: why a lookup leaves no query behind and uses every server *)

QueryStates == [pc : {"udp", "tcp", "reply", "sent", "taken"}, seen : SUBSET Aliases, result : Results]

\* A family that collects has taken failures only.  One that has sent has joined its queries.
\* What it is to send is what one of its servers answered, or else all of them failed.
LookupInv ==
    /\ lookup \in [pc : {"idle", "asking", "returned"}, ended : BOOLEAN,
                   result : {"none", "refused", "canceled", "addresses", "error"}]
    /\ families \in [Kinds -> [pc : {"collect", "join", "sent"}, result : Results]]
    /\ queries \in [Kinds -> [NameServers -> QueryStates]]
    /\ \A k \in Kinds : families[k].pc = "collect" =>
          \A s \in NameServers : queries[k][s].pc = "taken" => queries[k][s].result = "error"
    /\ \A k \in Kinds : families[k].pc = "sent" =>
          \A s \in NameServers : queries[k][s].pc \in {"sent", "taken"}
    /\ \A k \in Kinds : families[k].pc # "collect" =>
          \/ /\ families[k].result = "error"
             /\ \A s \in NameServers : queries[k][s].pc = "taken" /\ queries[k][s].result = "error"
          \/ /\ families[k].result # "error"
             /\ \E s \in NameServers : queries[k][s].pc = "taken" /\ queries[k][s].result = families[k].result
    /\ lookup.pc # "asking" => \A k \in Kinds : families[k].pc = "sent"
    /\ lookup.pc = "asking" => lookup.result = "none"
    /\ lookup.result = "error" => \A k \in Kinds : families[k].result # "addresses"

USE DEF lookupVars

\* Nothing is asked in the beginning.
LEMMA CapturedDnsInitInv == CapturedDnsInit => LookupInv
  BY DEF CapturedDnsInit, LookupInv, NoQuery, QueryStates, Results, Kinds

\* A lookup begins, or is refused, or its context ends, or it returns.
LEMMA CallerOfLookupInv ==
    ASSUME LookupInv, RefuseLookup \/ BeginLookup \/ EndLookupContext \/ ReturnLookup PROVE LookupInv'
<1>1. CASE RefuseLookup
  BY <1>1 DEF RefuseLookup, LookupInv
<1>2. CASE BeginLookup
  <2>1. NewQuery \in QueryStates /\ NewQuery.pc = "udp"
    BY DEF NewQuery, QueryStates, Results
  <2>2. /\ families' \in [Kinds -> [pc : {"collect", "join", "sent"}, result : Results]]
        /\ \A k \in Kinds : families'[k].pc = "collect"
    BY <1>2 DEF BeginLookup, Results
  <2>3. /\ queries' \in [Kinds -> [NameServers -> QueryStates]]
        /\ \A k \in Kinds, s \in NameServers : queries'[k][s] = NewQuery
    BY <1>2, <2>1 DEF BeginLookup
  <2> QED BY <1>2, <2>1, <2>2, <2>3 DEF BeginLookup, LookupInv
<1>3. CASE EndLookupContext
  <2>1. [lookup EXCEPT !.ended = TRUE] \in [pc : {"idle", "asking", "returned"}, ended : BOOLEAN,
                   result : {"none", "refused", "canceled", "addresses", "error"}]
    BY DEF LookupInv
  <2>2. lookup'.pc = lookup.pc /\ lookup'.result = lookup.result /\ UNCHANGED <<families, queries>>
    BY <1>3 DEF EndLookupContext, LookupInv
  <2> QED BY <1>3, <2>1, <2>2 DEF EndLookupContext, LookupInv
<1>4. CASE ReturnLookup
  BY <1>4 DEF ReturnLookup, LookupInv
<1> QED BY <1>1, <1>2, <1>3, <1>4

\* A query that has not been taken changes nothing that a family relies on, unless it goes
\* back behind its reply.
LEMMA QueryMoves ==
    ASSUME LookupInv, NEW k \in Kinds, NEW s \in NameServers, NEW to \in QueryStates,
           queries' = [queries EXCEPT ![k][s] = to], UNCHANGED <<lookup, families>>,
           queries[k][s].pc \in {"udp", "tcp", "reply"}, to.pc # "taken"
    PROVE  LookupInv'
<1>1. /\ queries' \in [Kinds -> [NameServers -> QueryStates]] /\ queries'[k][s] = to
      /\ \A j \in Kinds, t \in NameServers : j # k \/ t # s => queries'[j][t] = queries[j][t]
  BY DEF LookupInv
<1>2. families[k].pc # "sent"
  BY DEF LookupInv
<1>3. \A j \in Kinds, t \in NameServers :
         queries'[j][t].pc = "taken" => queries[j][t].pc = "taken" /\ queries'[j][t] = queries[j][t]
  BY <1>1
<1>4. \A j \in Kinds, t \in NameServers : queries[j][t].pc = "taken" => queries'[j][t] = queries[j][t]
  BY <1>1
<1>5. \A j \in Kinds : families[j].pc = "sent" => \A t \in NameServers : queries'[j][t] = queries[j][t]
  BY <1>1, <1>2
<1> QED BY <1>1, <1>3, <1>4, <1>5 DEF LookupInv

\* An exchange, and the reply that follows.
LEMMA QueryInv ==
    ASSUME LookupInv, NEW k \in Kinds, NEW s \in NameServers,
           \/ ExchangeFails(k, s) \/ ExchangeTruncated(k, s) \/ ExchangeSettles(k, s)
           \/ ExchangeFollows(k, s) \/ SendReply(k, s)
    PROVE  LookupInv'
<1>1. queries[k][s] \in QueryStates
  BY DEF LookupInv
<1>2. ASSUME NEW result \in Results, Exchanging(k, s), EndQuery(k, s, result), UNCHANGED <<lookup, families>>
      PROVE  LookupInv'
  <2> DEFINE to == [queries[k][s] EXCEPT !.pc = "reply", !.seen = {}, !.result = result]
  <2>1. to \in QueryStates /\ to.pc = "reply"
    BY <1>1 DEF QueryStates
  <2>2. queries' = [queries EXCEPT ![k][s] = to]
    BY <1>2 DEF EndQuery, LookupInv
  <2> HIDE DEF to
  <2> QED BY <1>2, <2>1, <2>2, QueryMoves DEF Exchanging
<1>3. CASE ExchangeTruncated(k, s)
  <2> DEFINE to == [queries[k][s] EXCEPT !.pc = "tcp"]
  <2>1. to \in QueryStates /\ to.pc = "tcp"
    BY <1>1 DEF QueryStates
  <2>2. queries' = [queries EXCEPT ![k][s] = to]
    BY <1>3 DEF ExchangeTruncated, LookupInv
  <2> HIDE DEF to
  <2> QED BY <1>3, <2>1, <2>2, QueryMoves DEF ExchangeTruncated
<1>4. CASE ExchangeFollows(k, s)
  <2>1. PICK met \in SUBSET (Aliases \ queries[k][s].seen) :
               queries' = [queries EXCEPT ![k][s].pc = "udp", ![k][s].seen = @ \cup met]
    BY <1>4 DEF ExchangeFollows
  <2> DEFINE to == [queries[k][s] EXCEPT !.pc = "udp", !.seen = @ \cup met]
  <2>2. to \in QueryStates /\ to.pc = "udp"
    BY <1>1 DEF QueryStates
  <2>3. queries' = [queries EXCEPT ![k][s] = to]
    BY <2>1 DEF LookupInv
  <2> HIDE DEF to
  <2> QED BY <1>4, <2>2, <2>3, QueryMoves DEF ExchangeFollows, Exchanging
<1>5. CASE SendReply(k, s)
  <2> DEFINE to == [queries[k][s] EXCEPT !.pc = "sent"]
  <2>1. to \in QueryStates /\ to.pc = "sent"
    BY <1>1 DEF QueryStates
  <2>2. queries' = [queries EXCEPT ![k][s] = to]
    BY <1>5 DEF SendReply, LookupInv
  <2> HIDE DEF to
  <2> QED BY <1>5, <2>1, <2>2, QueryMoves DEF SendReply
<1>6. "error" \in Results
  BY DEF Results
<1> QED BY <1>2, <1>3, <1>4, <1>5, <1>6 DEF ExchangeFails, ExchangeSettles

\* A family takes a reply: it goes on, or fails with all of its servers, or has its answer.
LEMMA TakeInv == ASSUME LookupInv, NEW k \in Kinds, NEW s \in NameServers, TakeReply(k, s) PROVE LookupInv'
<1> DEFINE result == queries[k][s].result
           last == \A t \in NameServers \ {s} : queries[k][t].pc = "taken"
           pc == IF Settles(result) THEN "join" ELSE IF last THEN "sent" ELSE "collect"
           fam == [families[k] EXCEPT !.result = result, !.pc = pc]
           to == [queries[k][s] EXCEPT !.pc = "taken"]
<1>1. queries[k][s] \in QueryStates /\ result \in Results /\ families[k] \in [pc : {"collect", "join", "sent"}, result : Results]
  BY DEF LookupInv, QueryStates
<1>2. to \in QueryStates /\ to.pc = "taken" /\ to.result = result
  BY <1>1 DEF QueryStates
<1>3. /\ fam \in [pc : {"collect", "join", "sent"}, result : Results]
      /\ fam.pc = pc /\ fam.result = result
  BY <1>1
<1>4. queries' = [queries EXCEPT ![k][s] = to] /\ families' = [families EXCEPT ![k] = fam]
  BY DEF TakeReply, LookupInv
<1>5. families[k].pc = "collect" /\ lookup' = lookup
  BY DEF TakeReply
<1>6. /\ pc = "join" => result # "error"
      /\ pc = "sent" => result = "error" /\ last
      /\ pc = "collect" => result = "error"
  BY DEF Settles
<1>7. last => \A t \in NameServers : t # s => queries[k][t].pc = "taken"
  OBVIOUS
<1> HIDE DEF to, fam, pc, last, result
<1>8. /\ queries' \in [Kinds -> [NameServers -> QueryStates]] /\ queries'[k][s] = to
      /\ \A j \in Kinds, t \in NameServers : j # k \/ t # s => queries'[j][t] = queries[j][t]
  BY <1>2, <1>4 DEF LookupInv
<1>9. /\ families' \in [Kinds -> [pc : {"collect", "join", "sent"}, result : Results]] /\ families'[k] = fam
      /\ \A j \in Kinds : j # k => families'[j] = families[j]
  BY <1>3, <1>4 DEF LookupInv
<1>10. lookup.pc = "asking" /\ lookup.result = "none"
  BY <1>5 DEF LookupInv
<1>11. ASSUME NEW j \in Kinds, families'[j].pc = "collect", NEW t \in NameServers, queries'[j][t].pc = "taken"
       PROVE  queries'[j][t].result = "error"
  BY <1>2, <1>3, <1>5, <1>6, <1>8, <1>9, <1>11 DEF LookupInv
<1>12. ASSUME NEW j \in Kinds, families'[j].pc = "sent", NEW t \in NameServers
       PROVE  queries'[j][t].pc \in {"sent", "taken"}
  <2>1. CASE j # k
    BY <2>1, <1>8, <1>9, <1>12 DEF LookupInv
  <2>2. CASE j = k /\ t = s
    BY <2>2, <1>2, <1>8
  <2>3. CASE j = k /\ t # s
    BY <2>3, <1>3, <1>6, <1>7, <1>8, <1>9, <1>12
  <2> QED BY <2>1, <2>2, <2>3
<1>13. ASSUME NEW j \in Kinds, families'[j].pc # "collect"
       PROVE  \/ /\ families'[j].result = "error"
                 /\ \A t \in NameServers : queries'[j][t].pc = "taken" /\ queries'[j][t].result = "error"
              \/ /\ families'[j].result # "error"
                 /\ \E t \in NameServers : queries'[j][t].pc = "taken" /\ queries'[j][t].result = families'[j].result
  <2>1. CASE j # k
    <3>1. \A t \in NameServers : queries'[j][t] = queries[j][t]
      BY <2>1, <1>8
    <3> QED BY <2>1, <3>1, <1>9, <1>13 DEF LookupInv
  <2>2. CASE j = k /\ pc = "join"
    BY <2>2, <1>2, <1>3, <1>6, <1>8, <1>9
  <2>3. CASE j = k /\ pc # "join"
    <3>1. pc = "sent" /\ result = "error"
      BY <2>3, <1>3, <1>6, <1>9, <1>13
    <3>2. \A t \in NameServers : t # s => queries'[k][t].pc = "taken" /\ queries'[k][t].result = "error"
      BY <3>1, <1>5, <1>6, <1>7, <1>8 DEF LookupInv
    <3> QED BY <2>3, <3>1, <3>2, <1>2, <1>3, <1>8, <1>9
  <2> QED BY <2>1, <2>2, <2>3
<1> QED BY <1>5, <1>8, <1>9, <1>10, <1>11, <1>12, <1>13 DEF LookupInv

\* Every step of a lookup keeps the invariant.
LEMMA CapturedDnsStepInv == LookupInv /\ [CapturedDnsNext]_lookupVars => LookupInv'
<1> SUFFICES ASSUME LookupInv, [CapturedDnsNext]_lookupVars PROVE LookupInv'
  OBVIOUS
<1>1. ASSUME NEW k \in Kinds, JoinQueries(k) PROVE LookupInv'
  <2>1. /\ families' \in [Kinds -> [pc : {"collect", "join", "sent"}, result : Results]]
        /\ families'[k].pc = "sent" /\ families'[k].result = families[k].result
        /\ \A j \in Kinds : j # k => families'[j] = families[j]
    BY <1>1 DEF JoinQueries, LookupInv
  <2>2. families[k].pc = "join" /\ QueriesEnded(k) /\ UNCHANGED <<lookup, queries>>
    BY <1>1 DEF JoinQueries
  <2>3. lookup.pc = "asking" /\ lookup.result = "none"
    BY <2>2 DEF LookupInv
  <2>4. ASSUME NEW j \in Kinds
        PROVE  /\ families'[j].pc = "collect" => families[j].pc = "collect"
               /\ families'[j].pc # "collect" => families[j].pc # "collect"
               /\ families'[j].result = families[j].result
    BY <2>1, <2>2
  <2>5. ASSUME NEW j \in Kinds, families'[j].pc = "sent", NEW s \in NameServers
        PROVE  queries[j][s].pc \in {"sent", "taken"}
    BY <2>1, <2>2, <2>5 DEF LookupInv, QueriesEnded
  <2> QED BY <2>1, <2>2, <2>3, <2>4, <2>5 DEF LookupInv
<1>2. CASE UNCHANGED lookupVars
  BY <1>2 DEF LookupInv
<1> QED BY <1>1, <1>2, CallerOfLookupInv, QueryInv, TakeInv DEF CapturedDnsNext, LookupStep, QueryStep

\* What the invariant says of a lookup that has returned.
LEMMA LookupInvExact == LookupInv => LookupDrained /\ FailoverUsed
<1>1. LookupInv => LookupDrained
  BY DEF LookupInv, LookupDrained
<1>2. ASSUME LookupInv, lookup.result = "error", NEW k \in Kinds
      PROVE  \/ \E s \in NameServers : queries[k][s].result = "nothing"
             \/ \A s \in NameServers : queries[k][s].result = "error"
  <2>1. families[k].pc = "sent" /\ families[k].result \in {"nothing", "error"}
    BY <1>2 DEF LookupInv, Results
  <2> QED BY <1>2, <2>1 DEF LookupInv
<1> QED BY <1>1, <1>2 DEF FailoverUsed

-----------------------------------------------------------------------------
(* SourceStore: why the file and the session know the accepted source *)

\* What a session knows of its source.
ManagerStates == [attached : BOOLEAN, configured : BOOLEAN, source : Urls \cup {Inline, Absent}, error : BOOLEAN]

\* Where a Configure has changed the file and has neither committed nor failed.
Replacing == configuring.pc \in {"restrict", "commit"}

\* What the file may hold while a Configure is at work: it keeps an allowed source until it
\* is replaced, and holds the new one then.  What AttachSourceStore has loaded meanwhile is
\* one of them, so that it is still allowed when the Configure fails, and not wanted when
\* it succeeds.
StoreInv ==
    /\ mobile \in BOOLEAN
    /\ manager \in ManagerStates
    /\ attaching \in [pc : {"no", "load", "apply", "failed"}, loaded : Urls \cup {Absent}]
    /\ configuring \in [pc : {"no", "write", "replace", "restrict", "clear", "commit"},
                        source : Urls \cup {Inline, Absent}]
    /\ disk \in Urls \cup {Absent}
    /\ configuring.pc \in {"write", "replace", "restrict"} => configuring.source \in Urls
    /\ configuring.pc = "clear" => configuring.source = Inline
    /\ configuring.pc = "commit" => configuring.source \in Urls \cup {Inline}
    /\ configuring.pc \in {"write", "replace", "restrict", "clear"} => manager.attached
    /\ configuring.pc = "restrict" => disk = configuring.source
    /\ configuring.pc = "commit" /\ manager.attached => disk = Stored(configuring.source)
    /\ configuring.pc = "commit" /\ ~manager.attached => disk \in storable
    /\ ~Replacing => disk \in storable
    /\ attaching.pc = "apply" /\ ~manager.configured
          => attaching.loaded \in storable \cup {Absent} \cup (IF Replacing THEN {Stored(configuring.source)} ELSE {})
    /\ SourceExact

USE DEF storeVars

\* A new manager knows nothing that is not on the disk.
LEMMA NewManagerKnows ==
    ASSUME mobile \in BOOLEAN, NEW file \in Urls \cup {Absent}, NEW m \in NewManager(file)
    PROVE  m \in ManagerStates /\ ~m.configured /\ m.source \in {Absent, file}
<1>1. CASE m = [attached |-> ~mobile, configured |-> FALSE, source |-> Absent, error |-> ~mobile]
  BY <1>1 DEF ManagerStates
<1>2. CASE m = [attached |-> ~mobile, configured |-> FALSE,
                source |-> IF mobile THEN Absent ELSE file, error |-> FALSE]
  BY <1>2 DEF ManagerStates
<1> QED BY <1>1, <1>2 DEF NewManager

\* No source has been accepted in the beginning.
LEMMA StoreInitInv == StoreInit => StoreInv
<1> SUFFICES ASSUME StoreInit PROVE StoreInv
  OBVIOUS
<1>1. manager \in ManagerStates /\ ~manager.configured /\ manager.source = Absent
  BY NewManagerKnows DEF StoreInit
<1> QED BY <1>1 DEF StoreInit, StoreInv, NotAttaching, NotConfiguring, Replacing, SourceExact, Unlocked

\* AttachSourceStore, its load outside of the lock, and what it makes of it.
LEMMA AttachInv == ASSUME StoreInv, AttachSourceStore \/ Load \/ Apply PROVE StoreInv'
<1>1. CASE AttachSourceStore
  BY <1>1 DEF ManagerStates, AttachSourceStore, NotAttaching, StoreInv, Replacing, SourceExact, Unlocked
<1>2. CASE Load
  <2>1. attaching' \in [pc : {"no", "load", "apply", "failed"}, loaded : Urls \cup {Absent}]
    BY <1>2 DEF Load, StoreInv
  <2>2. attaching'.pc = "apply" => attaching'.loaded = disk
    BY <1>2 DEF Load
  <2>3. disk \in storable \cup {Absent} \cup (IF Replacing THEN {Stored(configuring.source)} ELSE {})
    BY UrlsAssumption DEF StoreInv, Replacing, Stored
  <2> QED BY <1>2, <2>1, <2>2, <2>3 DEF Load, StoreInv, Replacing, SourceExact, Unlocked, Stored
<1>3. CASE Apply
  BY <1>3 DEF ManagerStates, Apply, LoadedWanted, NotAttaching, StoreInv, Replacing, SourceExact, Unlocked
<1> QED BY <1>1, <1>2, <1>3

\* Configure: each call on the file system, when it succeeds and when it fails.
LEMMA ConfigureInv ==
    ASSUME StoreInv,
           \/ \E source \in Urls \cup {Inline} : Accept(source)
           \/ Write \/ ReplaceSourceFile \/ Restrict \/ Clear \/ Commit
    PROVE  StoreInv'
<1>1. ASSUME NEW source \in Urls \cup {Inline}, Accept(source) PROVE StoreInv'
  BY <1>1, UrlsAssumption DEF Accept, StoreInv, Replacing, SourceExact, Unlocked, Stored
<1>2. CASE Write
  BY <1>2 DEF Write, Go, Refused, NotConfiguring, StoreInv, Replacing, SourceExact, Unlocked, Stored
<1>3. CASE ReplaceSourceFile
  BY <1>3 DEF ReplaceSourceFile, Go, Refused, NotConfiguring, StoreInv, Replacing, SourceExact, Unlocked, Stored
<1>4. CASE Restrict
  BY <1>4, UrlsAssumption
     DEF Restrict, Go, Refused, NotConfiguring, StoreInv, Replacing, SourceExact, Unlocked, Stored
<1>5. CASE Clear
  BY <1>5 DEF Clear, Go, Refused, NotConfiguring, StoreInv, Replacing, SourceExact, Unlocked, Stored
<1>6. CASE Commit
  BY <1>6 DEF ManagerStates, Commit, NotConfiguring, StoreInv, Replacing, SourceExact, Unlocked, Stored
<1> QED BY <1>1, <1>2, <1>3, <1>4, <1>5, <1>6

\* A crash at any step, and the process after it.
LEMMA RestartInv == ASSUME StoreInv, Restart PROVE StoreInv'
<1>1. disk \in storable'
  BY UrlsAssumption DEF Restart, StoreInv, Replacing, Unlocked, Stored
<1>2. manager' \in ManagerStates /\ ~manager'.configured /\ manager'.source \in {Absent, disk}
  BY NewManagerKnows DEF Restart, StoreInv
<1> QED BY <1>1, <1>2 DEF Restart, NotAttaching, NotConfiguring, StoreInv, Replacing, SourceExact, Unlocked

\* Every step of the store keeps the invariant.
LEMMA StoreStepInv == StoreInv /\ [StoreNext]_storeVars => StoreInv'
<1>1. ASSUME StoreInv, UNCHANGED storeVars PROVE StoreInv'
  BY <1>1 DEF StoreInv, Replacing, SourceExact, Unlocked, Stored
<1> QED BY <1>1, AttachInv, ConfigureInv, RestartInv DEF StoreNext

-----------------------------------------------------------------------------
(* The host *)

\* The parts share no state: the invariant of the host is that of each of its parts.
HostInv ==
    /\ ScopesInv /\ EngineInv /\ DnsInv /\ LookupInv /\ StoreInv
    /\ XrayInv /\ TTInv /\ OutlineInv /\ FwdInv

\* A host begins in a state of the invariant.
LEMMA HostInitInv == Init => HostInv
  BY ScopesInitInv, EngineInitInv, DnsInitInv, CapturedDnsInitInv, StoreInitInv, XrayInitInv, TTInitInv,
     OutlineInitInv, FwdInitInv DEF Init, HostInv

\* A step of the host is, for each part, a step of that part or none.
LEMMA HostStepIsOfParts ==
    [Next]_hostVars =>
        /\ [ScopesNext]_scopeVars /\ [EngineNext]_engineVars /\ [DnsNext]_dnsVars
        /\ [CapturedDnsNext]_lookupVars /\ [StoreNext]_storeVars
        /\ [XrayNext]_xrayVars /\ [TTNext]_ttVars /\ [OutlineNext]_outlineVars /\ [ForwarderNext]_fwdVars
  BY DEF Next, hostVars, devices, resolvers, session, InScopes, InEngine, InDns, InLookup, InSession,
         InStore, InPublisher, InDevice, InOutline, InXray, InTrustTunnel, InForwarder

\* Every step of the host keeps the invariant.
LEMMA HostStepInv == HostInv /\ [Next]_hostVars => HostInv'
  BY HostStepIsOfParts, ScopesStepInv, EngineStepInv, DnsStepInv, CapturedDnsStepInv, StoreStepInv,
     XrayStepInv, TTStepInv, OutlineStepInv, FwdStepInv DEF HostInv

\* The host is in its invariant at any time.
LEMMA HostInvHolds == Spec => []HostInv
  BY HostInitInv, HostStepInv, PTL DEF Spec

\* NewSocketScope, Authorize, Retire and Close, startPlatformEngine and stopPlatformEngine:
\* however many attempts and dialers there are and whichever calls fail, no destination of an
\* attempt whose scope is closed is let through, and a configured adapter has its guard.
THEOREM ClosedScopesAndAdaptersAreGuarded == Spec => []GuardExact
<1>1. HostInv => GuardExact
  BY DEF HostInv, ScopesInv, EngineInv, GuardExact
<1> QED BY <1>1, HostInvHolds, PTL

\* The dialer of Xray and the native TrustTunnel client: with any number of devices one owns
\* them at a time, and it gives them back only when nothing of it is left.
THEOREM OneOwnerOfHooks == Spec => []HooksOwned
<1>1. HostInv => HooksOwned
  BY XrayInvOwned DEF HostInv, TTInv, HooksOwned
<1> QED BY <1>1, HostInvHolds, PTL

\* Close of an Outline device, with any number of flows, and of an endpoint forwarder, with
\* any number of listener pairs tried, whatever is accepted or dialed meanwhile: once it has
\* returned without an error no worker runs and no socket is open.
THEOREM CloseDrainsDevices == Spec => []ClosedIsDrained
<1>1. HostInv => ClosedIsDrained
  BY OutlineInvDrained, FwdInvDrained DEF HostInv, ClosedIsDrained
<1> QED BY <1>1, HostInvHolds, PTL

\* ResolveAddresses, with any number of networks, of lookups and of changes of the network: no
\* other resolver came while the one that answers was asked, and on every platform but Linux,
\* whose link resolver does not see that another link became the default, its network was
\* there since.  resolveCapturedDNSServers, with any number of servers: a lookup fails only
\* when no server makes it succeed, and returns with no query under way.
THEOREM LookupsAnswerForTheNetwork == Spec => []AnswersExact
<1>1. HostInv => AnswersExact
  BY LookupInvExact DEF HostInv, DnsInv, AnswersExact, AnswersAreCurrent, Callers
<1> QED BY <1>1, HostInvHolds, PTL

\* Configure and AttachSourceStore, with any sources, failing writes and restarts of the
\* process between any two steps: the source the manager uses is the last one accepted, and
\* between Configures the file holds, whole, a source that it may hold.
THEOREM SourceFollowsFile == Spec => []SourceExact
<1>1. HostInv => SourceExact
  BY DEF HostInv, StoreInv
<1> QED BY <1>1, HostInvHolds, PTL
=============================================================================
