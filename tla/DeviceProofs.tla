---------------------------- MODULE DeviceProofs ----------------------------
(***************************************************************************)
(* Proofs about the devices of the protocols, for any number of devices,   *)
(* dials, connections and pairs of listeners: hooks that the process has   *)
(* once have one owner, and a Close that succeeds leaves nothing behind.   *)
(***************************************************************************)
EXTENDS XrayDevice, TrustTunnelDevice, OutlineDevice, EndpointForwarder, TLAPS

USE DEF hooks, sockets, xrayVars, ttVars, outlineVars, fwdVars

-----------------------------------------------------------------------------
(* XrayDevice: why a closed device has nothing that was dialed through it *)

\* What a device and a dial may be doing.
XrayStates == [pc : {"new", "install", "start", "running", "failed", "instance", "retire", "settle",
                     "reset", "unlock", "closed"},
               instance : BOOLEAN, retire : BOOLEAN, canceled : BOOLEAN, closing : BOOLEAN]
XDialStates == [dev : Devices \cup {"none"}, pc : UnderWay \cup {"none", "held", "ended"}]

\* Where the caller of Open or Close relies on having the hooks, and where it no longer
\* expects anything of the dialer.
Holding == {"install", "start", "running", "retire", "settle", "reset", "unlock"}
DialerRetired(d) == device[d].pc \in {"reset", "unlock", "closed"}

\* A device holds the lock exactly while it has the hooks to retire, and its dialer is
\* installed between Install and ResetDialer.  A dial under way, and a socket that is open,
\* belong to a device that has not retired its dialer; a socket is tracked, or about to be
\* by a dial that is under way and so is waited for.
XrayInv ==
    /\ device \in [Devices -> XrayStates] /\ xdial \in [XrayDials -> XDialStates]
    /\ instanceOwner \in Devices \cup {"none"} /\ systemDialer \in Devices \cup {"default"}
    /\ rawSockets \subseteq XrayDials
    /\ \A d \in Devices : device[d].retire <=> instanceOwner = d
    /\ \A d \in Devices : device[d].pc \in Holding => device[d].retire
    /\ \A d \in Devices : device[d].pc \in {"new", "closed"} => ~device[d].retire
    /\ \A d \in Devices : systemDialer = d <=> device[d].retire /\ device[d].pc \notin {"install", "unlock"}
    /\ \A d \in Devices : device[d].pc \in {"settle", "reset", "unlock"} => device[d].closing
    /\ \A x \in XrayDials : x \in rawSockets \/ xdial[x].pc \in UnderWay
          => /\ xdial[x].dev \in Devices /\ device[xdial[x].dev].retire
             /\ ~DialerRetired(xdial[x].dev)
    /\ \A x \in rawSockets : xdial[x].pc # "none" /\ (x \in owned \/ xdial[x].pc \in {"routed", "track"})

\* No device has been opened.
LEMMA XrayInitInv == XrayInit => XrayInv
  BY XrayAssumption DEF XrayInit, XrayInv, XrayStates, XDialStates, Holding, UnderWay

\* Open: the lock comes before the dialer.
LEMMA XrayOpenInv ==
    ASSUME XrayInv, NEW d \in Devices, TryLock(d) \/ Install(d) \/ StartInstance(d)
    PROVE  XrayInv'
<1>1. CASE TryLock(d)
  BY <1>1, XrayAssumption DEF TryLock, To, XrayInv, XrayStates, Holding, DialerRetired
<1>2. CASE Install(d)
  BY <1>2, XrayAssumption DEF Install, To, XrayInv, XrayStates, Holding, DialerRetired
<1>3. CASE StartInstance(d)
  BY <1>3, XrayAssumption DEF StartInstance, To, XrayInv, XrayStates, Holding, DialerRetired
<1> QED BY <1>1, <1>2, <1>3

\* A dial: it begins through the dialer that is installed, and its socket is tracked.
LEMMA XrayDialInv ==
    ASSUME XrayInv, NEW x \in XrayDials,
           \/ \E d \in Devices : DialSystem(x, d)
           \/ XrayDialing(x) \/ XrayCloses(x)
    PROVE  XrayInv'
<1>1. ASSUME NEW d \in Devices, DialSystem(x, d) PROVE XrayInv'
  <2>1. systemDialer \in Devices /\ UNCHANGED <<hooks, device, sockets>>
    BY <1>1 DEF DialSystem
  <2>2. ~device[systemDialer].closing => device[systemDialer].retire /\ ~DialerRetired(systemDialer)
    BY <2>1 DEF XrayInv, DialerRetired
  <2>3. CASE xdial' = [xdial EXCEPT ![x] = [dev |-> "none", pc |-> "ended"]]
    <3>1. x \notin rawSockets
      BY <1>1 DEF DialSystem, XrayInv
    <3> QED BY <2>1, <2>3, <3>1 DEF XrayInv, XDialStates, DialerRetired, UnderWay
  <2>4. CASE ~device[systemDialer].closing /\ xdial' = [xdial EXCEPT ![x] = [dev |-> systemDialer, pc |-> "dial"]]
    BY <1>1, <2>1, <2>2, <2>4 DEF DialSystem, XrayInv, XDialStates, DialerRetired, UnderWay
  <2> QED BY <1>1, <2>3, <2>4 DEF DialSystem
<1>2. CASE DialResolved(x) \/ CheckRoute(x) \/ CloseRoute(x) \/ CreateSocket(x)
  <2>1. PICK at \in UnderWay \cup {"ended"} : xdial' = [xdial EXCEPT ![x].pc = at]
    BY <1>2 DEF DialResolved, CheckRoute, CloseRoute, CreateSocket, DialFails, UnderWay
  <2>2. /\ xdial[x].pc \in {"dial", "route", "routed", "create"} /\ xdial[x].pc \in UnderWay
        /\ UNCHANGED <<hooks, device, owned>>
    BY <1>2 DEF DialResolved, CheckRoute, CloseRoute, CreateSocket, UnderWay
  <2>3. /\ xdial' \in [XrayDials -> XDialStates] /\ xdial'[x].pc = at /\ xdial'[x].dev = xdial[x].dev
        /\ \A y \in XrayDials \ {x} : xdial'[y] = xdial[y]
    BY <2>1 DEF XrayInv, XDialStates
  <2>4. /\ rawSockets' \subseteq rawSockets \cup {x}
        /\ x \in rawSockets' => x \in owned \/ at \in {"routed", "track"}
    <3>1. CASE rawSockets' = rawSockets \cup {x}
      <4>1. xdial' = [xdial EXCEPT ![x].pc = "routed"] \/ xdial' = [xdial EXCEPT ![x].pc = "track"]
            \/ UNCHANGED rawSockets
        BY <1>2, <3>1 DEF DialResolved, CheckRoute, CloseRoute, RouteClosed, CreateSocket, DialFails
      <4>2. CASE UNCHANGED rawSockets /\ xdial[x].pc # "routed"
        BY <2>2, <4>2 DEF XrayInv
      <4>3. CASE xdial[x].pc = "routed"
        BY <1>2, <3>1, <4>3 DEF DialResolved, CheckRoute, CloseRoute, RouteClosed, CreateSocket
      <4> QED BY <2>3, <3>1, <4>1, <4>2, <4>3 DEF XrayInv, XDialStates
    <3>2. CASE UNCHANGED rawSockets /\ xdial[x].pc # "routed"
      BY <2>2, <3>2 DEF XrayInv
    <3>3. CASE rawSockets' = rawSockets \ {x}
      BY <3>3
    <3> QED BY <1>2, <3>1, <3>2, <3>3 DEF DialResolved, CheckRoute, CloseRoute, RouteClosed, CreateSocket
  <2>5. /\ xdial[x].dev \in Devices /\ device[xdial[x].dev].retire /\ ~DialerRetired(xdial[x].dev)
        /\ at # "none"
    BY <2>2 DEF XrayInv, UnderWay
  <2> QED BY <2>2, <2>3, <2>4, <2>5 DEF XrayInv, DialerRetired
<1>3. CASE Track(x)
  BY <1>3 DEF Track, XrayInv, XDialStates, DialerRetired, UnderWay
<1>4. CASE CheckSocket(x)
  BY <1>4 DEF CheckSocket, XrayInv, XDialStates, DialerRetired, UnderWay
<1>5. CASE XrayCloses(x)
  BY <1>5 DEF XrayCloses, XrayInv, XDialStates, DialerRetired, UnderWay
<1> QED BY <1>1, <1>2, <1>3, <1>4, <1>5 DEF XrayDialing

\* CloseContext: the dialer is retired when no dial is under way and no socket is left.
LEMMA XrayCloseInv ==
    ASSUME XrayInv, NEW d \in Devices, CloseDevice(d) \/ XrayClosing(d)
    PROVE  XrayInv'
<1>1. CASE CloseDevice(d)
  <2>1. device' \in [Devices -> XrayStates]
    <3>1. [device[d] EXCEPT !.pc = "instance", !.canceled = TRUE] \in XrayStates
      <4>1. device[d] \in XrayStates
        BY DEF XrayInv
      <4> QED BY <4>1 DEF XrayStates
    <3>2. device' = [device EXCEPT ![d] = [device[d] EXCEPT !.pc = "instance", !.canceled = TRUE]]
      BY <1>1 DEF CloseDevice
    <3> QED BY <3>1, <3>2 DEF XrayInv
  <2>2. /\ device'[d].pc = "instance" /\ device'[d].retire = device[d].retire
        /\ \A e \in Devices \ {d} : device'[e] = device[e]
    BY <1>1 DEF CloseDevice, XrayInv, XrayStates
  <2> QED BY <1>1, <2>1, <2>2 DEF CloseDevice, XrayInv, Holding, DialerRetired
<1>2. CASE CloseInstance(d)
  BY <1>2 DEF CloseInstance, To, XrayInv, XrayStates, Holding, DialerRetired
<1>3. CASE CloseSockets(d)
  BY <1>3 DEF CloseSockets, Owned, XrayInv, XrayStates, XDialStates, Holding, DialerRetired, UnderWay
<1>4. CASE Settle(d)
  <2>1. PICK pc \in {"reset", "failed"} : To(d, pc) /\ (pc = "reset" => NothingLeft(d))
    BY <1>4 DEF Settle
  <2>2. device' \in [Devices -> XrayStates]
    BY <2>1 DEF To, XrayInv, XrayStates
  <2>3. /\ device'[d].pc = pc /\ device'[d].retire = device[d].retire /\ device'[d].closing = device[d].closing
        /\ \A e \in Devices \ {d} : device'[e] = device[e]
    BY <2>1 DEF To, XrayInv, XrayStates
  <2>4. pc = "reset" => \A x \in XrayDials : xdial[x].dev = d
                           => x \notin rawSockets /\ xdial[x].pc \notin UnderWay
    BY <2>1 DEF NothingLeft, Pending, Owned, XrayInv, UnderWay
  <2> QED BY <1>4, <2>2, <2>3, <2>4 DEF Settle, XrayInv, Holding, DialerRetired
<1>5. CASE ResetDialer(d)
  BY <1>5, XrayAssumption DEF ResetDialer, To, XrayInv, XrayStates, Holding, DialerRetired
<1>6. CASE Unlock(d)
  BY <1>6, XrayAssumption DEF Unlock, XrayInv, XrayStates, Holding, DialerRetired
<1> QED BY <1>1, <1>2, <1>3, <1>4, <1>5, <1>6 DEF XrayClosing

\* Every step of the Xray devices keeps the invariant.
LEMMA XrayStepInv == XrayInv /\ [XrayNext]_xrayVars => XrayInv'
<1>1. ASSUME XrayInv, XrayFailuresEnd \/ UNCHANGED xrayVars PROVE XrayInv'
  BY <1>1 DEF XrayFailuresEnd, XrayInv, DialerRetired
<1> QED BY <1>1, XrayOpenInv, XrayDialInv, XrayCloseInv DEF XrayNext, XrayOpening

\* InstallProtectedSystemDialer and its retirement, from the invariant.
LEMMA XrayInvOwned == XrayInv => DialerOwned
  BY DEF XrayInv, DialerOwned, Holding, DialerRetired, XrayStates

-----------------------------------------------------------------------------
(* TrustTunnelDevice: why the native client has one owner *)

\* The fields of a device and the goroutines in its methods.
TTStates == [open : {"no", "lock", "own", "start", "returned", "opened"},
             close : {"no", "lock", "stop", "forwarders", "failed", "closed"},
             wait : {"no", "check", "blocked", "returned"}, mu : BOOLEAN, canceled : BOOLEAN,
             nativeOwned : BOOLEAN, forwarding : BOOLEAN, closed : BOOLEAN,
             state : NativeStates, readinessClosed : BOOLEAN]

\* lifecycleMu keeps Open and Close of a device apart; who starts the native client has its
\* place in the channel, and who closes the forwarders has stopped the client.
TTInv ==
    /\ tt \in [TTDevices -> TTStates]
    /\ nativeOwner \in TTDevices \cup {"none"} /\ native \in TTDevices \cup {"none"}
    /\ \A d \in TTDevices : tt[d].open \in {"own", "start"} => tt[d].mu /\ tt[d].close \notin {"stop", "forwarders"}
    /\ \A d \in TTDevices : tt[d].close \in {"stop", "forwarders"} => tt[d].mu
    /\ \A d \in TTDevices : tt[d].open = "start" => tt[d].nativeOwned
    /\ \A d \in TTDevices : tt[d].close = "forwarders" => native # d
    /\ OneNativeOwner

\* Nobody owns the client in the beginning.
LEMMA TTInitInv == TTInit => TTInv
  BY TTAssumption DEF TTInit, NewDevice, TTInv, TTStates, NativeStates, OneNativeOwner

\* Open: waiting for the lock and the place, and starting the client.
LEMMA TTOpenInv ==
    ASSUME TTInv, NEW d \in TTDevices, OpenBegins(d) \/ TTOpening(d)
    PROVE  TTInv'
<1>1. CASE OpenBegins(d)
  BY <1>1 DEF OpenBegins, TTInv, TTStates, OneNativeOwner
<1>2. CASE OpenLocked(d)
  BY <1>2 DEF OpenLocked, TTInv, TTStates, OneNativeOwner
<1>3. CASE Own(d)
  BY <1>3, TTAssumption DEF Own, TTInv, TTStates, OneNativeOwner
<1>4. CASE StartNative(d)
  <2>1. PICK made \in BOOLEAN, started \in BOOLEAN :
               /\ tt' = [tt EXCEPT ![d].open = IF started THEN "opened" ELSE "returned",
                                   ![d].mu = FALSE, ![d].forwarding = made]
               /\ native' = IF started THEN d ELSE native
    BY <1>4 DEF StartNative
  <2>2. tt[d] \in TTStates /\ tt[d].nativeOwned /\ nativeOwner = d
    BY <1>4 DEF StartNative, TTInv, OneNativeOwner
  <2>3. tt' \in [TTDevices -> TTStates]
    <3> DEFINE to == [tt[d] EXCEPT !.open = IF started THEN "opened" ELSE "returned",
                                   !.mu = FALSE, !.forwarding = made]
    <3>1. to \in TTStates
      BY <2>2 DEF TTStates
    <3>2. tt' = [tt EXCEPT ![d] = to]
      BY <2>1
    <3> QED BY <3>1, <3>2 DEF TTInv
  <2>4. /\ tt'[d].open \in {"opened", "returned"} /\ tt'[d].close = tt[d].close /\ tt'[d].nativeOwned
        /\ \A e \in TTDevices \ {d} : tt'[e] = tt[e]
    BY <2>1, <2>2 DEF TTInv, TTStates
  <2>5. tt[d].close \notin {"stop", "forwarders"}
    BY <1>4 DEF StartNative, TTInv
  <2> QED BY <1>4, <2>1, <2>2, <2>3, <2>4, <2>5, TTAssumption DEF StartNative, TTInv, OneNativeOwner
<1> QED BY <1>1, <1>2, <1>3, <1>4 DEF TTOpening

\* Close: the place is given back when the client is stopped and the forwarders are closed.
LEMMA TTCloseInv ==
    ASSUME TTInv, NEW d \in TTDevices, TTCloseBegins(d) \/ TTClosing(d)
    PROVE  TTInv'
<1>1. CASE TTCloseBegins(d)
  <2> DEFINE to == [tt[d] EXCEPT !.close = "lock", !.canceled = @ \/ CancelFirst(d),
                                 !.readinessClosed = TRUE, !.wait = Wake(@)]
  <2>1. tt[d] \in TTStates
    BY DEF TTInv
  <2>2. to \in TTStates /\ to.close = "lock"
    BY <2>1 DEF TTStates, CancelFirst, Wake
  <2>3. /\ to.open = tt[d].open /\ to.mu = tt[d].mu
        /\ to.nativeOwned = tt[d].nativeOwned /\ to.forwarding = tt[d].forwarding
    BY <2>1 DEF TTStates
  <2>4. tt' = [tt EXCEPT ![d] = to]
    BY <1>1 DEF TTCloseBegins
  <2> HIDE DEF to
  <2>5. tt' \in [TTDevices -> TTStates] /\ tt'[d] = to /\ \A e \in TTDevices \ {d} : tt'[e] = tt[e]
    BY <2>2, <2>4 DEF TTInv
  <2>6. UNCHANGED <<nativeOwner, native>>
    BY <1>1 DEF TTCloseBegins
  <2> QED BY <2>2, <2>3, <2>5, <2>6 DEF TTInv, OneNativeOwner
<1>2. CASE CloseLocked(d)
  BY <1>2 DEF CloseLocked, TTInv, TTStates, OneNativeOwner
<1>3. CASE StopNative(d)
  BY <1>3, TTAssumption DEF StopNative, TTInv, TTStates, OneNativeOwner
<1>4. CASE CloseForwarders(d)
  <2>1. CASE /\ nativeOwner' = KeepPlace(d)
             /\ tt' = [tt EXCEPT ![d].close = "failed", ![d].mu = FALSE]
    BY <1>4, <2>1 DEF CloseForwarders, KeepPlace, TTInv, TTStates, OneNativeOwner
  <2>2. CASE /\ tt' = [tt EXCEPT ![d].close = "closed", ![d].mu = FALSE, ![d].closed = TRUE,
                                 ![d].forwarding = FALSE, ![d].nativeOwned = FALSE]
             /\ nativeOwner' = IF tt[d].nativeOwned THEN "none" ELSE nativeOwner
    <3>1. tt' \in [TTDevices -> TTStates]
      <4> DEFINE to == [tt[d] EXCEPT !.close = "closed", !.mu = FALSE, !.closed = TRUE,
                                     !.forwarding = FALSE, !.nativeOwned = FALSE]
      <4>1. tt[d] \in TTStates
        BY DEF TTInv
      <4>2. to \in TTStates
        BY <4>1 DEF TTStates
      <4>3. tt' = [tt EXCEPT ![d] = to]
        BY <2>2
      <4> QED BY <4>2, <4>3 DEF TTInv
    <3>2. /\ tt'[d].close = "closed" /\ tt'[d].open = tt[d].open /\ ~tt'[d].nativeOwned /\ ~tt'[d].forwarding
          /\ \A e \in TTDevices \ {d} : tt'[e] = tt[e]
      BY <2>2 DEF TTInv, TTStates
    <3>3. tt[d].open \notin {"own", "start"} /\ native # d
      BY <1>4 DEF CloseForwarders, TTInv
    <3> QED BY <1>4, <2>2, <3>1, <3>2, <3>3, TTAssumption DEF CloseForwarders, TTInv, OneNativeOwner
  <2> QED BY <1>4, <2>1, <2>2 DEF CloseForwarders
<1> QED BY <1>1, <1>2, <1>3, <1>4 DEF TTClosing

\* nativeReadiness does not concern the ownership.
LEMMA TTReadyInv ==
    ASSUME TTInv, NEW d \in TTDevices, StateChanged(d) \/ WaitReady(d) \/ CheckReady(d) \/ WaitEnds(d)
    PROVE  TTInv'
<1>1. CASE StateChanged(d)
  <2>1. PICK state \in NativeStates : tt' = [tt EXCEPT ![d].state = state, ![d].wait = Wake(@)]
    BY <1>1 DEF StateChanged
  <2> DEFINE to == [tt[d] EXCEPT !.state = state, !.wait = Wake(@)]
  <2>2. tt[d] \in TTStates
    BY DEF TTInv
  <2>3. to \in TTStates
    BY <2>2 DEF TTStates, Wake
  <2>4. /\ to.open = tt[d].open /\ to.mu = tt[d].mu /\ to.close = tt[d].close
        /\ to.nativeOwned = tt[d].nativeOwned /\ to.forwarding = tt[d].forwarding
    BY <2>2 DEF TTStates
  <2>5. tt' = [tt EXCEPT ![d] = to]
    BY <2>1
  <2> HIDE DEF to
  <2> QED BY <1>1, <2>3, <2>4, <2>5 DEF StateChanged, TTInv, OneNativeOwner
<1>2. CASE WaitReady(d)
  BY <1>2 DEF WaitReady, TTInv, TTStates, OneNativeOwner
<1>3. CASE CheckReady(d)
  BY <1>3 DEF CheckReady, TTInv, TTStates, OneNativeOwner
<1>4. CASE WaitEnds(d)
  BY <1>4 DEF WaitEnds, TTInv, TTStates, OneNativeOwner
<1> QED BY <1>1, <1>2, <1>3, <1>4

\* Every step of the TrustTunnel devices keeps the invariant.
LEMMA TTStepInv == TTInv /\ [TTNext]_ttVars => TTInv'
<1>1. ASSUME TTInv, TTFailuresEnd \/ UNCHANGED ttVars PROVE TTInv'
  BY <1>1 DEF TTFailuresEnd, TTInv, OneNativeOwner
<1> QED BY <1>1, TTOpenInv, TTCloseInv, TTReadyInv DEF TTNext

-----------------------------------------------------------------------------
(* EndpointForwarder: why a closed forwarder has no worker and no socket *)

\* The goroutines of a forwarder, and the caller of Close.
FwdStates == [make : {"listen", "udp", "made", "failed"}, pair : Nat,
              acceptor : {"no", "accept", "track", "ended"}, receiver : {"no", "read", "dial", "track", "ended"},
              stream : {"no", "dial", "track", "copy", "unwind", "ended"},
              up : BOOLEAN, down : BOOLEAN, returner : BOOLEAN, peer : BOOLEAN]
FCloseStates == [pc : {"open", "listeners", "sweep", "drain", "late", "failed", "closed"}, closed : BOOLEAN,
                 todo : SUBSET Sockets, err : BOOLEAN]

\* Sockets are tracked, or in the hand of the goroutine that has just opened them.
Accounted ==
    /\ "local" \in fsockets => "local" \in ftracked \/ fwd.acceptor = "track"
    /\ "remote" \in fsockets => "remote" \in ftracked \/ fwd.stream = "track"
    /\ "peer" \in fsockets => "peer" \in ftracked \/ fwd.receiver = "track"

\* The workers begin with the listeners.  An open socket is tracked or in the hand of a worker.  Close joins the workers before its
\* last pass: from then on nothing is opened, and what is open is still to be released or
\* has made this Close fail.
FwdInv ==
    /\ fwd \in FwdStates /\ fclose \in FCloseStates
    /\ fsockets \subseteq Sockets /\ ftracked \subseteq Sockets
    /\ fwd.make = "listen" => listening = {}
    /\ fwd.make # "made" => fwd.acceptor = "no" /\ fwd.receiver = "no" /\ fwd.stream = "no"
    /\ fwd.acceptor = "track" => fwd.stream = "no"
    /\ fclose.pc # "open" => fwd.make = "made"
    /\ Accounted
    /\ fclose.pc = "drain" => ~fclose.err
    /\ fclose.pc \in {"sweep", "drain", "late"} /\ ~fclose.err => listening = {}
    /\ fclose.pc \in {"late", "closed"} => ForwarderNoWorkers
    /\ fclose.pc = "late" /\ ~fclose.err => fsockets \subseteq fclose.todo
    /\ fclose.pc = "closed" => fsockets = {} /\ listening = {}

\* There is nothing before newEndpointForwarder.
LEMMA FwdInitInv == ForwarderInit => FwdInv
  BY DEF ForwarderInit, FwdInv, FwdStates, FCloseStates, Sockets, Accounted

\* newEndpointForwarder: another pair of listeners begins when the last one is closed.
LEMMA FwdListenInv == ASSUME FwdInv, ListenTCP \/ ListenUDP PROVE FwdInv'
<1>1. CASE ListenTCP
  <2>1. fwd' \in FwdStates /\ fwd'.make # "listen"
    <3>1. fwd \in FwdStates
      BY DEF FwdInv
    <3>2. CASE fwd' = [fwd EXCEPT !.make = "udp"]
      BY <3>1, <3>2 DEF FwdStates
    <3>3. CASE fwd' = [fwd EXCEPT !.make = "failed", !.pair = 1]
      BY <3>1, <3>3 DEF FwdStates
    <3> QED BY <1>1, <3>2, <3>3 DEF ListenTCP
  <2>2. fwd'.acceptor = fwd.acceptor /\ fwd'.receiver = fwd.receiver /\ fwd'.stream = fwd.stream
    BY <1>1 DEF ListenTCP, FwdInv, FwdStates
  <2>3. fwd.acceptor = "no" /\ fwd.receiver = "no" /\ fwd.stream = "no" /\ fclose.pc = "open"
    BY <1>1 DEF ListenTCP, FwdInv
  <2> QED BY <1>1, <2>1, <2>2, <2>3 DEF ListenTCP, FwdInv, Accounted
<1>2. CASE ListenUDP
  <2>1. fwd' \in FwdStates /\ (fwd'.make = "listen" => listening' = {})
    <3>1. fwd \in FwdStates
      BY DEF FwdInv
    <3>2. CASE fwd' = [fwd EXCEPT !.make = "made", !.pair = 1, !.acceptor = "accept", !.receiver = "read"]
      BY <3>1, <3>2 DEF FwdStates
    <3>3. CASE fwd' = [fwd EXCEPT !.make = "failed", !.pair = 1]
      BY <3>1, <3>3 DEF FwdStates
    <3>4. CASE fwd' = [fwd EXCEPT !.make = "listen", !.pair = @ + 1] /\ listening' = {}
      <4>1. fwd.pair + 1 \in Nat
        BY <3>1 DEF FwdStates
      <4>2. fwd' = [fwd EXCEPT !.make = "listen", !.pair = fwd.pair + 1]
        BY <3>4
      <4> QED BY <3>1, <3>4, <4>1, <4>2 DEF FwdStates
    <3> QED BY <1>2, <3>2, <3>3, <3>4 DEF ListenUDP, NextPair
  <2>2. fwd'.make # "made" => fwd'.acceptor = fwd.acceptor /\ fwd'.receiver = fwd.receiver /\ fwd'.stream = fwd.stream
    BY <1>2 DEF ListenUDP, FwdInv, FwdStates
  <2>3. fwd.acceptor = "no" /\ fwd.receiver = "no" /\ fwd.stream = "no" /\ fclose.pc = "open"
    BY <1>2 DEF ListenUDP, FwdInv
  <2>4. Accounted' /\ fclose'.pc = "open" /\ UNCHANGED <<fsockets, ftracked, fclose>>
    BY <1>2, <2>3 DEF ListenUDP, FwdInv, Accounted
  <2>5. fwd'.acceptor = "track" => fwd'.stream = "no"
    BY <1>2, <2>3 DEF ListenUDP, FwdInv, FwdStates
  <2> QED BY <2>1, <2>2, <2>3, <2>4, <2>5 DEF FwdInv
<1> QED BY <1>1, <1>2

\* track, for a socket in the hand of a goroutine.
LEMMA FwdTrackInv ==
    ASSUME FwdInv, TrackLocal \/ TrackRemote \/ TrackPeer
    PROVE  FwdInv'
<1>1. CASE TrackLocal
  <2> fwd \in FwdStates
    BY DEF FwdInv
  <2>1. CASE fwd' = [fwd EXCEPT !.acceptor = "accept", !.stream = "dial"]
    <3>1. /\ fwd' \in FwdStates
          /\ fwd'.make = fwd.make /\ fwd'.acceptor = "accept" /\ fwd'.receiver = fwd.receiver /\ fwd'.stream = "dial"
          /\ fwd'.up = fwd.up /\ fwd'.down = fwd.down /\ fwd'.returner = fwd.returner
      BY <2>1 DEF FwdStates
    <3> QED BY <1>1, <2>1, <3>1 DEF TrackLocal, Tracked, FwdInv, Sockets, Accounted, ForwarderNoWorkers
  <2>2. CASE fwd' = [fwd EXCEPT !.acceptor = "ended"]
    <3>1. /\ fwd' \in FwdStates
          /\ fwd'.make = fwd.make /\ fwd'.acceptor = "ended" /\ fwd'.receiver = fwd.receiver /\ fwd'.stream = fwd.stream
          /\ fwd'.up = fwd.up /\ fwd'.down = fwd.down /\ fwd'.returner = fwd.returner
      BY <2>2 DEF FwdStates
    <3> QED BY <1>1, <2>2, <3>1 DEF TrackLocal, Tracked, FwdInv, Sockets, Accounted, ForwarderNoWorkers
  <2> QED BY <1>1, <2>1, <2>2 DEF TrackLocal, Tracked
<1>2. CASE TrackRemote
  <2> fwd \in FwdStates
    BY DEF FwdInv
  <2>1. CASE fwd' = [fwd EXCEPT !.stream = "copy", !.up = TRUE, !.down = TRUE]
    <3>1. /\ fwd' \in FwdStates
          /\ fwd'.make = fwd.make /\ fwd'.acceptor = fwd.acceptor /\ fwd'.receiver = fwd.receiver /\ fwd'.stream = "copy"
          /\ fwd'.up = TRUE /\ fwd'.down = TRUE /\ fwd'.returner = fwd.returner
      BY <2>1 DEF FwdStates
    <3> QED BY <1>2, <2>1, <3>1 DEF TrackRemote, Tracked, FwdInv, Sockets, Accounted, ForwarderNoWorkers
  <2>2. CASE fwd' = [fwd EXCEPT !.stream = "unwind"]
    <3>1. /\ fwd' \in FwdStates
          /\ fwd'.make = fwd.make /\ fwd'.acceptor = fwd.acceptor /\ fwd'.receiver = fwd.receiver /\ fwd'.stream = "unwind"
          /\ fwd'.up = fwd.up /\ fwd'.down = fwd.down /\ fwd'.returner = fwd.returner
      BY <2>2 DEF FwdStates
    <3> QED BY <1>2, <2>2, <3>1 DEF TrackRemote, Tracked, FwdInv, Sockets, Accounted, ForwarderNoWorkers
  <2> QED BY <1>2, <2>1, <2>2 DEF TrackRemote, Tracked
<1>3. CASE TrackPeer
  <2> fwd \in FwdStates
    BY DEF FwdInv
  <2>1. CASE fwd' = [fwd EXCEPT !.receiver = "read", !.returner = TRUE, !.peer = TRUE]
    <3>1. /\ fwd' \in FwdStates
          /\ fwd'.make = fwd.make /\ fwd'.acceptor = fwd.acceptor /\ fwd'.receiver = "read" /\ fwd'.stream = fwd.stream
          /\ fwd'.up = fwd.up /\ fwd'.down = fwd.down /\ fwd'.returner = TRUE
      BY <2>1 DEF FwdStates
    <3> QED BY <1>3, <2>1, <3>1 DEF TrackPeer, Tracked, FwdInv, Sockets, Accounted, ForwarderNoWorkers
  <2>2. CASE fwd' = [fwd EXCEPT !.receiver = "ended"]
    <3>1. /\ fwd' \in FwdStates
          /\ fwd'.make = fwd.make /\ fwd'.acceptor = fwd.acceptor /\ fwd'.receiver = "ended" /\ fwd'.stream = fwd.stream
          /\ fwd'.up = fwd.up /\ fwd'.down = fwd.down /\ fwd'.returner = fwd.returner
      BY <2>2 DEF FwdStates
    <3> QED BY <1>3, <2>2, <3>1 DEF TrackPeer, Tracked, FwdInv, Sockets, Accounted, ForwarderNoWorkers
  <2> QED BY <1>3, <2>1, <2>2 DEF TrackPeer, Tracked
<1> QED BY <1>1, <1>2, <1>3

\* The streams of the listener.
LEMMA FwdStreamInv ==
    ASSUME FwdInv, ForwarderAccept \/ AcceptEnds \/ DialRemote
    PROVE  FwdInv'
<1>1. CASE ForwarderAccept
  <2> fwd \in FwdStates
    BY DEF FwdInv
  <2>1. CASE fwd' = [fwd EXCEPT !.acceptor = "track"]
    <3>1. /\ fwd' \in FwdStates
          /\ fwd'.make = fwd.make /\ fwd'.acceptor = "track" /\ fwd'.receiver = fwd.receiver /\ fwd'.stream = fwd.stream
          /\ fwd'.up = fwd.up /\ fwd'.down = fwd.down /\ fwd'.returner = fwd.returner
      BY <2>1 DEF FwdStates
    <3> QED BY <1>1, <2>1, <3>1 DEF ForwarderAccept, FwdInv, Sockets, Accounted, ForwarderNoWorkers
  <2> QED BY <1>1, <2>1 DEF ForwarderAccept
<1>2. CASE AcceptEnds
  BY <1>2 DEF AcceptEnds, FwdInv, FwdStates, FCloseStates, Sockets, Accounted, ForwarderNoWorkers
<1>3. CASE DialRemote
  <2> fwd \in FwdStates
    BY DEF FwdInv
  <2>1. CASE fwd' = [fwd EXCEPT !.stream = "track"]
    <3>1. /\ fwd' \in FwdStates
          /\ fwd'.make = fwd.make /\ fwd'.acceptor = fwd.acceptor /\ fwd'.receiver = fwd.receiver /\ fwd'.stream = "track"
          /\ fwd'.up = fwd.up /\ fwd'.down = fwd.down /\ fwd'.returner = fwd.returner
      BY <2>1 DEF FwdStates
    <3> QED BY <1>3, <2>1, <3>1 DEF DialRemote, FwdInv, Sockets, Accounted, ForwarderNoWorkers
  <2>2. CASE fwd' = [fwd EXCEPT !.stream = "unwind"]
    <3>1. /\ fwd' \in FwdStates
          /\ fwd'.make = fwd.make /\ fwd'.acceptor = fwd.acceptor /\ fwd'.receiver = fwd.receiver /\ fwd'.stream = "unwind"
          /\ fwd'.up = fwd.up /\ fwd'.down = fwd.down /\ fwd'.returner = fwd.returner
      BY <2>2 DEF FwdStates
    <3>2. UNCHANGED <<fsockets, listening, ftracked, fclose>> /\ fwd.stream = "dial"
      BY <1>3, <3>1 DEF DialRemote, FwdStates
    <3> QED BY <3>1, <3>2 DEF FwdInv, Accounted, ForwarderNoWorkers
  <2> QED BY <1>3, <2>1, <2>2 DEF DialRemote
<1> QED BY <1>1, <1>2, <1>3

\* The datagrams of the peer.
LEMMA FwdPeerInv ==
    ASSUME FwdInv, Receive \/ ReceiveEnds \/ DialPeer
    PROVE  FwdInv'
<1>1. CASE Receive
  BY <1>1 DEF Receive, FwdInv, FwdStates, FCloseStates, Sockets, Accounted, ForwarderNoWorkers
<1>2. CASE ReceiveEnds
  BY <1>2 DEF ReceiveEnds, FwdInv, FwdStates, FCloseStates, Sockets, Accounted, ForwarderNoWorkers
<1>3. CASE DialPeer
  BY <1>3 DEF DialPeer, FwdInv, FwdStates, FCloseStates, Sockets, Accounted, ForwarderNoWorkers
<1> QED BY <1>1, <1>2, <1>3

\* Workers that end release what they relayed, or leave it tracked.
LEMMA FwdEndInv ==
    ASSUME FwdInv, ForwarderCopyEnds("up") \/ ForwarderCopyEnds("down") \/ StreamEnds \/ ReturnEnds
    PROVE  FwdInv'
<1>1. CASE ForwarderCopyEnds("up")
  <2>1. fwd \in FwdStates /\ fwd' = [fwd EXCEPT !.up = FALSE]
    BY <1>1 DEF ForwarderCopyEnds, FwdInv
  <2>2. /\ fwd' \in FwdStates
        /\ fwd'.make = fwd.make /\ fwd'.acceptor = fwd.acceptor /\ fwd'.receiver = fwd.receiver /\ fwd'.stream = fwd.stream
        /\ fwd'.up = FALSE /\ fwd'.down = fwd.down /\ fwd'.returner = fwd.returner
    BY <2>1 DEF FwdStates
  <2>3. PICK released \in SUBSET ftracked : fsockets' = fsockets \ released /\ ftracked' = ftracked \ released
    BY <1>1 DEF ForwarderCopyEnds, ReleaseIgnored
  <2>4. UNCHANGED <<listening, fclose>>
    BY <1>1 DEF ForwarderCopyEnds
  <2> QED BY <2>2, <2>3, <2>4 DEF FwdInv, Accounted, ForwarderNoWorkers
<1>2. CASE ForwarderCopyEnds("down")
  <2>1. fwd \in FwdStates /\ fwd' = [fwd EXCEPT !.down = FALSE]
    BY <1>2 DEF ForwarderCopyEnds, FwdInv
  <2>2. /\ fwd' \in FwdStates
        /\ fwd'.make = fwd.make /\ fwd'.acceptor = fwd.acceptor /\ fwd'.receiver = fwd.receiver /\ fwd'.stream = fwd.stream
        /\ fwd'.up = fwd.up /\ fwd'.down = FALSE /\ fwd'.returner = fwd.returner
    BY <2>1 DEF FwdStates
  <2>3. PICK released \in SUBSET ftracked : fsockets' = fsockets \ released /\ ftracked' = ftracked \ released
    BY <1>2 DEF ForwarderCopyEnds, ReleaseIgnored
  <2>4. UNCHANGED <<listening, fclose>>
    BY <1>2 DEF ForwarderCopyEnds
  <2> QED BY <2>2, <2>3, <2>4 DEF FwdInv, Accounted, ForwarderNoWorkers
<1>3. CASE StreamEnds
  BY <1>3 DEF StreamEnds, ReleaseIgnored, FwdInv, FwdStates, FCloseStates, Sockets, Accounted, ForwarderNoWorkers
<1>4. CASE ReturnEnds
  <2>1. fwd \in FwdStates /\ fwd' = [fwd EXCEPT !.returner = FALSE, !.peer = FALSE]
    BY <1>4 DEF ReturnEnds, FwdInv
  <2>2. /\ fwd' \in FwdStates
        /\ fwd'.make = fwd.make /\ fwd'.acceptor = fwd.acceptor /\ fwd'.receiver = fwd.receiver /\ fwd'.stream = fwd.stream
        /\ fwd'.up = fwd.up /\ fwd'.down = fwd.down /\ fwd'.returner = FALSE
    BY <2>1 DEF FwdStates
  <2>3. PICK released \in SUBSET ftracked : fsockets' = fsockets \ released /\ ftracked' = ftracked \ released
    BY <1>4 DEF ReturnEnds, ReleaseIgnored
  <2>4. UNCHANGED <<listening, fclose>>
    BY <1>4 DEF ReturnEnds
  <2> QED BY <2>2, <2>3, <2>4 DEF FwdInv, Accounted, ForwarderNoWorkers
<1> QED BY <1>1, <1>2, <1>3, <1>4

\* Close: listeners, a first pass, the join, a last pass.
LEMMA FwdCloseInv == ASSUME FwdInv, ForwarderCloseBegins \/ ForwarderClosing PROVE FwdInv'
<1>1. CASE ForwarderCloseBegins
  BY <1>1 DEF ForwarderCloseBegins, FwdInv, FCloseStates, Accounted, ForwarderNoWorkers
<1>2. CASE CloseListeners
  BY <1>2 DEF CloseListeners, FwdInv, FCloseStates, Accounted, ForwarderNoWorkers
<1>3. ASSUME NEW s \in Sockets, ReleaseSocket(s) PROVE FwdInv'
  BY <1>3 DEF ReleaseSocket, FwdInv, FCloseStates, Accounted, ForwarderNoWorkers
<1>4. CASE ForwarderSwept
  BY <1>4 DEF ForwarderSwept, FwdInv, FCloseStates, Accounted, ForwarderNoWorkers
<1>5. CASE ForwarderJoined
  <2>1. fsockets \subseteq ftracked
    BY <1>5 DEF ForwarderJoined, FwdInv, Sockets, Accounted, ForwarderNoWorkers
  <2> QED BY <1>5, <2>1 DEF ForwarderJoined, Late, FwdInv, FCloseStates, Accounted, ForwarderNoWorkers
<1>6. CASE ForwarderCloseReturns
  BY <1>6 DEF ForwarderCloseReturns, FwdInv, FCloseStates, Accounted, ForwarderNoWorkers
<1> QED BY <1>1, <1>2, <1>3, <1>4, <1>5, <1>6 DEF ForwarderClosing

\* Every step of a forwarder keeps the invariant.
LEMMA FwdStepInv == FwdInv /\ [ForwarderNext]_fwdVars => FwdInv'
<1>1. ASSUME FwdInv, FwdFailuresEnd \/ UNCHANGED fwdVars PROVE FwdInv'
  BY <1>1 DEF FwdFailuresEnd, FwdInv, Accounted, ForwarderNoWorkers
<1> QED BY <1>1, FwdListenInv, FwdTrackInv, FwdStreamInv, FwdPeerInv, FwdEndInv, FwdCloseInv
        DEF ForwarderNext, Accepting, Streaming, Receiving

\* endpointForwarder.Close and listenEndpointPair, from the invariant.
LEMMA FwdInvDrained == FwdInv => ForwarderDrained
  BY DEF FwdInv, ForwarderDrained

-----------------------------------------------------------------------------
(* OutlineDevice: why a closed device has no worker and no handle *)

\* The workers of a connection, and the caller of Close.
FlowStates == [pc : {"none", "tracking", "serve", "connect", "copy", "associate", "teardown", "join", "hangup", "ended"},
               dial : {"none", "begin", "handshake", "track", "held", "failed"}, aborted : BOOLEAN,
               from : {"none", "read", "dial", "write", "ended"}, to : BOOLEAN, inMap : BOOLEAN, closed : BOOLEAN,
               dns : SUBSET {"conn", "pending", "readErr"}]
OCloseStates == [pc : {"open", "snapshot", "listener", "sweep", "drain", "late", "failed", "closed"},
                 todo : SUBSET (Flows \X {"client", "up", "relay"}), err : BOOLEAN]

\* A dial that may still open or hand over a socket.
Dialing(f) == flow[f].dial \in {"begin", "handshake", "track"}
Associated(f) == flow[f].pc \in {"associate", "teardown", "join"}

\* A handle is tracked or in the hand of the worker that has just opened it; relays are
\* closed by the teardown of their association.
Handled(f) ==
    /\ Client(f) \in handles => Client(f) \in connections \/ acceptor = f
    /\ Up(f) \in handles => Up(f) \in connections \/ flow[f].dial \in {"handshake", "track"}
    /\ Relay(f) \in handles => flow[f].pc \in {"associate", "teardown"}

\* The worker of a connection is the last one of its goroutines to end: what dials or relays
\* for it has an owner that Close waits for.
Supervised(f) ==
    /\ acceptor = f => flow[f].pc = "tracking"
    /\ Dialing(f) => flow[f].pc = "connect" \/ flow[f].from = "dial"
    /\ flow[f].from \in {"read", "dial", "write"} \/ flow[f].to => Associated(f)

\* After the join nothing is opened, and what is open is still to be closed by the last
\* pass or has made this Close fail.
OutlineInv ==
    /\ outline \in [canceled : BOOLEAN, closing : BOOLEAN, listener : BOOLEAN, failures : BOOLEAN]
    /\ handles \subseteq Flows \X {"client", "up", "relay"}
    /\ connections \subseteq Flows \X {"client", "up", "relay"}
    /\ acceptor \in Flows \cup {"accept", "ended"}
    /\ flow \in [Flows -> FlowStates] /\ outlineClose \in OCloseStates
    /\ \A f \in Flows : Handled(f) /\ Supervised(f)
    /\ outlineClose.pc = "drain" => ~outlineClose.err
    /\ outlineClose.pc \in {"sweep", "drain", "late"} /\ ~outlineClose.err => ~outline.listener
    /\ outlineClose.pc \in {"late", "closed"} => OutlineNoWorkers
    /\ outlineClose.pc = "late" /\ ~outlineClose.err => handles \subseteq outlineClose.todo
    /\ outlineClose.pc = "closed" => handles = {} /\ ~outline.listener

\* A device begins with its listener only.
LEMMA OutlineInitInv == OutlineInit => OutlineInv
  BY FlowsAssumption
     DEF OutlineInit, NoFlow, OutlineInv, FlowStates, OCloseStates, Handled, Supervised, Dialing, Associated

\* A handle belongs to one flow and has one kind.
LEMMA HandlesDistinct ==
    ASSUME NEW f \in Flows, NEW g \in Flows
    PROVE  /\ Client(f) = Client(g) => f = g
           /\ Up(f) = Up(g) => f = g
           /\ Relay(f) = Relay(g) => f = g
           /\ Client(f) # Up(g) /\ Client(f) # Relay(g) /\ Up(f) # Relay(g)
           /\ {Client(f), Up(f), Relay(f)} \subseteq Flows \X {"client", "up", "relay"}
  BY DEF Client, Up, Relay

\* Every handle is the client, the upstream or the relay of a flow.
LEMMA HandleKinds ==
    ASSUME NEW h \in Flows \X {"client", "up", "relay"}
    PROVE  \E f \in Flows : h \in {Client(f), Up(f), Relay(f)}
  BY DEF Client, Up, Relay

\* A flow that has a worker is not one of those that Close has joined.
LEMMA WorkersBeforeJoin ==
    ASSUME OutlineInv, NEW f \in Flows,
           \/ flow[f].pc \notin {"none", "ended"} \/ flow[f].to \/ flow[f].from \notin {"none", "ended"}
           \/ Dialing(f) \/ acceptor # "ended"
    PROVE  outlineClose.pc \notin {"late", "closed"}
  BY DEF OutlineInv, OutlineNoWorkers, Supervised

\* The step of a worker concerns its flow only: the handles and places of other flows stay.
LEMMA FlowStepInv ==
    ASSUME OutlineInv, NEW f \in Flows, NEW to \in FlowStates,
           outlineClose.pc \notin {"late", "closed"}, UNCHANGED <<outline, outlineClose>>,
           flow' = [flow EXCEPT ![f] = to],
           handles' \subseteq handles \cup {Client(f), Up(f), Relay(f)},
           connections \subseteq connections' \cup {Client(f), Up(f), Relay(f)},
           connections' \subseteq connections \cup {Client(f), Up(f), Relay(f)},
           acceptor' \in Flows \cup {"accept", "ended"},
           \A g \in Flows \ {f} : acceptor' = g <=> acceptor = g,
           Handled(f)', Supervised(f)'
    PROVE  OutlineInv'
<1>1. flow' \in [Flows -> FlowStates] /\ \A g \in Flows \ {f} : flow'[g] = flow[g]
  BY DEF OutlineInv
<1>2. ASSUME NEW g \in Flows, g # f PROVE Handled(g)' /\ Supervised(g)'
  <2>1. {Client(g), Up(g), Relay(g)} \cap {Client(f), Up(f), Relay(f)} = {}
    BY <1>2, HandlesDistinct
  <2>2. flow'[g] = flow[g]
    BY <1>1, <1>2
  <2>3. Handled(g) /\ Supervised(g)
    BY DEF OutlineInv
  <2>4. Handled(g)'
    BY <1>2, <2>1, <2>2, <2>3 DEF Handled
  <2>5. Supervised(g)'
    BY <1>2, <2>2, <2>3 DEF Supervised, Dialing, Associated
  <2> QED BY <2>4, <2>5
<1>3. /\ handles' \subseteq Flows \X {"client", "up", "relay"}
      /\ connections' \subseteq Flows \X {"client", "up", "relay"}
  BY HandlesDistinct DEF OutlineInv
<1> QED BY <1>1, <1>2, <1>3 DEF OutlineInv

\* A close whose error is ignored takes a handle away or leaves it tracked.
LEMMA CloseIgnoredKeeps ==
    ASSUME NEW S, CloseIgnored(S)
    PROVE  /\ handles' \subseteq handles /\ connections' \subseteq connections
           /\ connections \ connections' \subseteq S
           /\ \A h \in handles' : h \in connections => h \in connections'
  BY DEF CloseIgnored

\* Accepting and tracking a client; its place in the worker of Serve.
LEMMA ClientInv ==
    ASSUME OutlineInv, NEW f \in Flows, OutlineAccept(f) \/ TrackClient(f)
    PROVE  OutlineInv'
<1> DEFINE at(pc) == [flow[f] EXCEPT !.pc = pc]
<1>1. flow[f] \in FlowStates /\ Handled(f) /\ Supervised(f)
  BY DEF OutlineInv
<1>2. CASE OutlineAccept(f)
  <2>1. at("tracking") \in FlowStates /\ flow' = [flow EXCEPT ![f] = at("tracking")]
    BY <1>1, <1>2 DEF OutlineAccept, FlowStates
  <2>2. flow'[f] = at("tracking")
    BY <2>1 DEF OutlineInv
  <2>3. outlineClose.pc \notin {"late", "closed"} /\ ~Dialing(f) /\ ~Associated(f)
    BY <1>1, <1>2, WorkersBeforeJoin, FlowsAssumption DEF OutlineAccept, Supervised, Associated
  <2>4. Handled(f)'
    BY <1>1, <1>2, <2>2, HandlesDistinct DEF OutlineAccept, Handled, FlowStates
  <2>5. Supervised(f)'
    BY <1>1, <1>2, <2>2, <2>3 DEF OutlineAccept, Supervised, Dialing, Associated, FlowStates
  <2> QED BY <1>2, <2>1, <2>3, <2>4, <2>5, FlowStepInv, FlowsAssumption DEF OutlineAccept
<1>3. CASE TrackClient(f)
  <2>1. PICK pc \in {"serve", "ended"} : /\ flow' = [flow EXCEPT ![f] = at(pc)]
                                         /\ acceptor' \in {"accept", "ended"}
    BY <1>3 DEF TrackClient
  <2>2. at(pc) \in FlowStates /\ flow'[f] = at(pc)
    BY <1>1, <2>1 DEF OutlineInv, FlowStates
  <2>3. outlineClose.pc \notin {"late", "closed"} /\ ~Dialing(f) /\ ~Associated(f) /\ acceptor = f
    BY <1>1, <1>3, WorkersBeforeJoin, FlowsAssumption DEF TrackClient, Supervised, Associated
  <2>4. Handled(f)'
    BY <1>1, <1>3, <2>2, HandlesDistinct DEF TrackClient, Handled, FlowStates, Supervised
  <2>5. Supervised(f)'
    BY <1>1, <2>1, <2>2, <2>3, FlowsAssumption DEF Supervised, Dialing, Associated, FlowStates
  <2> QED BY <1>3, <2>1, <2>2, <2>3, <2>4, <2>5, FlowStepInv, FlowsAssumption DEF TrackClient
<1> QED BY <1>2, <1>3

\* The same for the goroutines of a flow that has been accepted, by what becomes of it.
LEMMA WorkerStepInv ==
    ASSUME OutlineInv, NEW f \in Flows, NEW to \in FlowStates,
           \/ flow[f].pc \notin {"none", "ended"} \/ flow[f].to \/ flow[f].from \notin {"none", "ended"}
           \/ Dialing(f),
           flow' = [flow EXCEPT ![f] = to], UNCHANGED <<outline, acceptor, outlineClose>>,
           handles' \subseteq handles \cup {Client(f), Up(f), Relay(f)},
           connections \subseteq connections' \cup {Client(f), Up(f), Relay(f)},
           connections' \subseteq connections \cup {Client(f), Up(f), Relay(f)},
           Client(f) \in handles' => Client(f) \in connections' \/ acceptor = f,
           Up(f) \in handles' => Up(f) \in connections' \/ to.dial \in {"handshake", "track"},
           Relay(f) \in handles' => to.pc \in {"associate", "teardown"},
           acceptor = f => to.pc = "tracking",
           to.dial \in {"begin", "handshake", "track"} => to.pc = "connect" \/ to.from = "dial",
           to.from \in {"read", "dial", "write"} \/ to.to => to.pc \in {"associate", "teardown", "join"}
    PROVE  OutlineInv'
<1>1. flow'[f] = to
  BY DEF OutlineInv
<1>2. Handled(f)' /\ Supervised(f)'
  BY <1>1 DEF Handled, Supervised, Dialing, Associated
<1>3. acceptor' \in Flows \cup {"accept", "ended"}
  BY DEF OutlineInv
<1> QED BY <1>2, <1>3, FlowStepInv, WorkersBeforeJoin

\* The worker of a connection: its request, its copies and its end.
LEMMA ServeInv ==
    ASSUME OutlineInv, NEW f \in Flows,
           Request(f) \/ Connected(f) \/ OutlineCopyEnds(f) \/ Hangup(f)
    PROVE  OutlineInv'
<1>1. flow[f] \in FlowStates /\ Handled(f) /\ Supervised(f)
  BY DEF OutlineInv
<1>2. CASE Request(f)
  <2>1. CASE flow' = [flow EXCEPT ![f].pc = "connect", ![f].dial = "begin"] /\ UNCHANGED handles
    <3> DEFINE to == [flow[f] EXCEPT !.pc = "connect", !.dial = "begin"]
    <3>1. to \in FlowStates /\ flow' = [flow EXCEPT ![f] = to]
      BY <1>1, <2>1 DEF FlowStates
    <3>2. to.pc = "connect" /\ to.dial = "begin" /\ to.from = flow[f].from /\ to.to = flow[f].to
      BY <1>1 DEF FlowStates
    <3> HIDE DEF to
    <3> QED BY <1>1, <1>2, <2>1, <3>1, <3>2, WorkerStepInv
            DEF Request, Handled, Supervised, Associated, Dialing
  <2>2. CASE /\ handles' = handles \cup {Relay(f)}
             /\ flow' = [flow EXCEPT ![f].pc = "associate", ![f].from = "read"]
    <3> DEFINE to == [flow[f] EXCEPT !.pc = "associate", !.from = "read"]
    <3>1. to \in FlowStates /\ flow' = [flow EXCEPT ![f] = to]
      BY <1>1, <2>2 DEF FlowStates
    <3>2. to.pc = "associate" /\ to.dial = flow[f].dial /\ to.from = "read"
      BY <1>1 DEF FlowStates
    <3> HIDE DEF to
    <3> QED BY <1>1, <1>2, <2>2, <3>1, <3>2, WorkerStepInv, HandlesDistinct
            DEF Request, Handled, Supervised, Associated, Dialing
  <2>3. CASE flow' = [flow EXCEPT ![f].pc = "hangup"] /\ UNCHANGED handles
    <3> DEFINE to == [flow[f] EXCEPT !.pc = "hangup"]
    <3>1. to \in FlowStates /\ flow' = [flow EXCEPT ![f] = to]
      BY <1>1, <2>3 DEF FlowStates
    <3>2. to.pc = "hangup" /\ to.dial = flow[f].dial /\ to.from = flow[f].from /\ to.to = flow[f].to
      BY <1>1 DEF FlowStates
    <3> HIDE DEF to
    <3> QED BY <1>1, <1>2, <2>3, <3>1, <3>2, WorkerStepInv DEF Request, Handled, Supervised, Associated, Dialing
  <2> QED BY <1>2, <2>1, <2>2, <2>3 DEF Request
<1>3. CASE Connected(f) \/ OutlineCopyEnds(f)
  <2>1. PICK pc \in {"copy", "hangup"} : flow' = [flow EXCEPT ![f].pc = pc]
    BY <1>3 DEF Connected, OutlineCopyEnds
  <2> DEFINE to == [flow[f] EXCEPT !.pc = pc]
  <2>2. to \in FlowStates /\ flow' = [flow EXCEPT ![f] = to]
    BY <1>1, <2>1 DEF FlowStates
  <2>3. to.pc = pc /\ to.dial = flow[f].dial /\ to.from = flow[f].from /\ to.to = flow[f].to
    BY <1>1 DEF FlowStates
  <2> HIDE DEF to
  <2> QED BY <1>1, <1>3, <2>2, <2>3, WorkerStepInv
          DEF Connected, OutlineCopyEnds, Handled, Supervised, Associated, Dialing
<1>4. CASE Hangup(f)
  <2> DEFINE to == [flow[f] EXCEPT !.pc = "ended"]
  <2>1. to \in FlowStates /\ flow' = [flow EXCEPT ![f] = to]
    BY <1>1, <1>4 DEF Hangup, FlowStates
  <2>2. to.pc = "ended" /\ to.dial = flow[f].dial /\ to.from = flow[f].from /\ to.to = flow[f].to
    BY <1>1 DEF FlowStates
  <2>3. /\ handles' \subseteq handles /\ connections' \subseteq connections
        /\ connections \ connections' \subseteq {Client(f), Up(f)}
        /\ \A h \in handles' : h \in connections => h \in connections'
    <3>1. PICK S \in SUBSET {Client(f), Up(f)} : CloseIgnored(S)
      BY <1>4 DEF Hangup
    <3> QED BY <3>1, CloseIgnoredKeeps
  <2> HIDE DEF to
  <2>4. /\ handles' \subseteq handles /\ connections' \subseteq connections
        /\ connections \subseteq connections' \cup {Client(f), Up(f), Relay(f)}
    BY <2>3
  <2>5. /\ Client(f) \in handles' => Client(f) \in connections' \/ acceptor = f
        /\ Up(f) \in handles' => Up(f) \in connections' \/ to.dial \in {"handshake", "track"}
        /\ Relay(f) \in handles' => to.pc \in {"associate", "teardown"}
    BY <1>1, <1>4, <2>2, <2>3 DEF Hangup, Handled
  <2> QED BY <1>1, <1>4, <2>1, <2>2, <2>4, <2>5, WorkerStepInv
          DEF Hangup, Supervised, Associated, Dialing
<1> QED BY <1>2, <1>3, <1>4

\* handleDial: a socket is pending, handed over and tracked, or closed.
LEMMA DialInv ==
    ASSUME OutlineInv, NEW f \in Flows,
           DialBegins(f) \/ Abort(f) \/ HandshakeEnds(f) \/ TrackUp(f)
    PROVE  OutlineInv'
<1>1. flow[f] \in FlowStates /\ Handled(f) /\ Supervised(f)
  BY DEF OutlineInv
<1>2. CASE DialBegins(f) \/ HandshakeEnds(f) \/ TrackUp(f)
  <2>1. PICK at \in {"handshake", "track", "failed", "held"}, holds \in {flow[f].dns, {"conn"}} :
               flow' = [flow EXCEPT ![f] = [flow[f] EXCEPT !.dial = at, !.dns = holds]]
    <3>1. ASSUME NEW at \in {"handshake", "track", "failed", "held"}, flow' = [flow EXCEPT ![f].dial = at]
          PROVE  flow' = [flow EXCEPT ![f] = [flow[f] EXCEPT !.dial = at, !.dns = flow[f].dns]]
      <4>1. [flow[f] EXCEPT !.dial = at] = [flow[f] EXCEPT !.dial = at, !.dns = flow[f].dns]
        BY <1>1 DEF FlowStates
      <4> QED BY <3>1, <4>1
    <3>2. \/ \E at \in {"handshake", "track", "failed", "held"} : flow' = [flow EXCEPT ![f].dial = at]
          \/ flow' = [flow EXCEPT ![f].dial = "track", ![f].dns = {"conn"}]
      BY <1>2 DEF DialBegins, HandshakeEnds, TrackUp
    <3> QED BY <3>1, <3>2
  <2> DEFINE to == [flow[f] EXCEPT !.dial = at, !.dns = holds]
  <2>2. to \in FlowStates /\ flow' = [flow EXCEPT ![f] = to]
    BY <1>1, <2>1 DEF FlowStates
  <2>3. flow'[f].dial = at /\ to.dial = at /\ to.pc = flow[f].pc /\ to.from = flow[f].from /\ to.to = flow[f].to
    BY <1>1, <2>2 DEF OutlineInv, FlowStates
  <2>4. Up(f) \in handles' => Up(f) \in connections' \/ at \in {"handshake", "track"}
    <3>1. CASE DialBegins(f)
      <4>1. \/ flow' = [flow EXCEPT ![f].dial = "handshake"]
            \/ flow' = [flow EXCEPT ![f].dial = "track", ![f].dns = {"conn"}]
            \/ UNCHANGED <<handles, connections>>
        BY <3>1 DEF DialBegins
      <4> QED BY <1>1, <2>3, <3>1, <4>1 DEF OutlineInv, Handled, DialBegins, FlowStates
    <3>2. CASE HandshakeEnds(f)
      <4>1. flow' = [flow EXCEPT ![f].dial = "track"] \/ Up(f) \notin handles'
        BY <3>2 DEF HandshakeEnds
      <4> QED BY <2>3, <4>1 DEF OutlineInv, FlowStates
    <3>3. CASE TrackUp(f)
      BY <3>3 DEF TrackUp
    <3> QED BY <1>2, <3>1, <3>2, <3>3
  <2>5. /\ handles' \subseteq handles \cup {Up(f)} /\ connections' \subseteq connections \cup {Up(f)}
        /\ connections \subseteq connections'
        /\ UNCHANGED <<outline, acceptor, outlineClose>> /\ Dialing(f)
    BY <1>2 DEF DialBegins, HandshakeEnds, TrackUp, Dialing
  <2> HIDE DEF to
  <2> QED BY <1>1, <2>2, <2>3, <2>4, <2>5, WorkerStepInv, HandlesDistinct DEF Handled, Supervised, Associated
<1>3. CASE Abort(f)
  <2> DEFINE to == [flow[f] EXCEPT !.aborted = TRUE]
  <2>1. to \in FlowStates /\ flow' = [flow EXCEPT ![f] = to]
    BY <1>1, <1>3 DEF Abort, FlowStates
  <2>2. to.dial = flow[f].dial /\ to.pc = flow[f].pc /\ to.from = flow[f].from /\ to.to = flow[f].to
    BY <1>1 DEF FlowStates
  <2>3. handles' \subseteq handles /\ UNCHANGED <<connections, outline, acceptor, outlineClose>> /\ Dialing(f)
    BY <1>3 DEF Abort, ClosePending, Dialing
  <2> HIDE DEF to
  <2> QED BY <1>1, <2>1, <2>2, <2>3, WorkerStepInv DEF Handled, Supervised, Dialing, Associated
<1> QED BY <1>2, <1>3

\* relayFromClient: a datagram is written, after its upstream was dialed, or is lost.
LEMMA FromInv ==
    ASSUME OutlineInv, NEW f \in Flows, FromClient(f) \/ PlainWrite(f) \/ TruncatedWrite(f) \/ Insert(f)
    PROVE  OutlineInv'
<1>1. flow[f] \in FlowStates /\ Handled(f) /\ Supervised(f)
  BY DEF OutlineInv
<1>2. /\ Associated(f) /\ ~Dialing(f) /\ UNCHANGED <<outline, acceptor, outlineClose>>
      /\ flow[f].from \in {"read", "write", "dial"}
      /\ CloseIgnored({Up(f)}) \/ UNCHANGED <<handles, connections>>
  BY <1>1 DEF FromClient, PlainWrite, TruncatedWrite, WriteFails, Insert, Supervised, Dialing, Associated
<1>3. /\ handles' \subseteq handles /\ connections' \subseteq connections
      /\ connections \ connections' \subseteq {Up(f)}
      /\ \A h \in handles' : h \in connections => h \in connections'
  BY <1>2, CloseIgnoredKeeps
<1>4. ASSUME NEW to \in FlowStates, flow' = [flow EXCEPT ![f] = to], to.pc = flow[f].pc,
             to.dial \in {"begin", "none", flow[f].dial}, to.dial = "begin" => to.from = "dial"
      PROVE  OutlineInv'
  <2>1. Up(f) \in handles' => Up(f) \in connections'
    BY <1>1, <1>2, <1>3 DEF Handled, Dialing
  <2>2. acceptor # f
    BY <1>1, <1>2 DEF Supervised, Associated
  <2> QED BY <1>1, <1>2, <1>3, <1>4, <2>1, <2>2, WorkerStepInv DEF Handled, Dialing, Associated
<1>5. CASE FromClient(f)
  <2>1. CASE flow' = [flow EXCEPT ![f].from = "ended"] \/ flow' = [flow EXCEPT ![f].from = "write"]
    <3>1. PICK at \in {"ended", "write"} : flow' = [flow EXCEPT ![f].from = at]
      BY <2>1
    <3> DEFINE to == [flow[f] EXCEPT !.from = at]
    <3>2. to \in FlowStates /\ flow' = [flow EXCEPT ![f] = to] /\ to.pc = flow[f].pc /\ to.dial = flow[f].dial
      BY <1>1, <3>1 DEF FlowStates
    <3> HIDE DEF to
    <3> QED BY <1>2, <1>4, <3>2 DEF Dialing
  <2>2. CASE flow' = [flow EXCEPT ![f].from = "dial", ![f].dial = "begin", ![f].aborted = FALSE, ![f].dns = {}]
    <3> DEFINE to == [flow[f] EXCEPT !.from = "dial", !.dial = "begin", !.aborted = FALSE, !.dns = {}]
    <3>1. /\ to \in FlowStates /\ flow' = [flow EXCEPT ![f] = to]
          /\ to.pc = flow[f].pc /\ to.dial = "begin" /\ to.from = "dial"
      BY <1>1, <2>2 DEF FlowStates
    <3> HIDE DEF to
    <3> QED BY <1>4, <3>1
  <2> QED BY <1>5, <2>1, <2>2 DEF FromClient
<1>6. CASE PlainWrite(f) \/ TruncatedWrite(f)
  <2>1. CASE flow' = [flow EXCEPT ![f].from = "read", ![f].inMap = FALSE]
    <3> DEFINE to == [flow[f] EXCEPT !.from = "read", !.inMap = FALSE]
    <3>1. to \in FlowStates /\ flow' = [flow EXCEPT ![f] = to] /\ to.pc = flow[f].pc /\ to.dial = flow[f].dial
      BY <1>1, <2>1 DEF FlowStates
    <3> HIDE DEF to
    <3> QED BY <1>2, <1>4, <3>1 DEF Dialing
  <2>2. CASE flow' = [flow EXCEPT ![f].from = "read"]
    <3> DEFINE to == [flow[f] EXCEPT !.from = "read"]
    <3>1. to \in FlowStates /\ flow' = [flow EXCEPT ![f] = to] /\ to.pc = flow[f].pc /\ to.dial = flow[f].dial
      BY <1>1, <2>2 DEF FlowStates
    <3> HIDE DEF to
    <3> QED BY <1>2, <1>4, <3>1 DEF Dialing
  <2>3. CASE \E more \in {"pending", "readErr"} :
                flow' = [flow EXCEPT ![f].from = "read", ![f].dns = @ \cup {more}]
    <3>1. PICK more \in {"pending", "readErr"} :
             flow' = [flow EXCEPT ![f].from = "read", ![f].dns = @ \cup {more}]
      BY <2>3
    <3> DEFINE to == [flow[f] EXCEPT !.from = "read", !.dns = @ \cup {more}]
    <3>2. to \in FlowStates /\ flow' = [flow EXCEPT ![f] = to] /\ to.pc = flow[f].pc /\ to.dial = flow[f].dial
      BY <1>1, <3>1 DEF FlowStates
    <3> HIDE DEF to
    <3> QED BY <1>2, <1>4, <3>2 DEF Dialing
  <2> QED BY <1>6, <2>1, <2>2, <2>3 DEF PlainWrite, TruncatedWrite, WriteFails
<1>7. CASE Insert(f)
  <2>1. CASE flow' = [flow EXCEPT ![f].from = "write", ![f].dial = "none", ![f].inMap = TRUE, ![f].to = TRUE]
    <3> DEFINE to == [flow[f] EXCEPT !.from = "write", !.dial = "none", !.inMap = TRUE, !.to = TRUE]
    <3>1. to \in FlowStates /\ flow' = [flow EXCEPT ![f] = to] /\ to.pc = flow[f].pc /\ to.dial = "none"
      BY <1>1, <2>1 DEF FlowStates
    <3> HIDE DEF to
    <3> QED BY <1>4, <3>1
  <2>2. CASE flow' = [flow EXCEPT ![f].from = "read", ![f].dial = "none"]
    <3> DEFINE to == [flow[f] EXCEPT !.from = "read", !.dial = "none"]
    <3>1. to \in FlowStates /\ flow' = [flow EXCEPT ![f] = to] /\ to.pc = flow[f].pc /\ to.dial = "none"
      BY <1>1, <2>2 DEF FlowStates
    <3> HIDE DEF to
    <3> QED BY <1>4, <3>1
  <2> QED BY <1>7, <2>1, <2>2 DEF Insert
<1> QED BY <1>5, <1>6, <1>7

\* relayToClient: it takes an answer, or ends before the worker of the connection does.
LEMMA ToInv ==
    ASSUME OutlineInv, NEW f \in Flows, TakeAnswer(f) \/ ToClientEnds(f)
    PROVE  OutlineInv'
<1>1. flow[f] \in FlowStates /\ Handled(f) /\ Supervised(f)
  BY DEF OutlineInv
<1>2. CASE TakeAnswer(f)
  <2> DEFINE to == [flow[f] EXCEPT !.dns = @ \ {"pending"}]
  <2>1. to \in FlowStates /\ flow' = [flow EXCEPT ![f] = to]
    BY <1>1, <1>2 DEF TakeAnswer, FlowStates
  <2>2. to.dial = flow[f].dial /\ to.pc = flow[f].pc /\ to.from = flow[f].from /\ to.to = flow[f].to
    BY <1>1 DEF FlowStates
  <2>3. UNCHANGED <<handles, connections, outline, acceptor, outlineClose>> /\ flow[f].to
    BY <1>2 DEF TakeAnswer
  <2> HIDE DEF to
  <2> QED BY <1>1, <2>1, <2>2, <2>3, WorkerStepInv DEF Handled, Supervised, Dialing, Associated
<1>3. CASE ToClientEnds(f)
  <2>1. CloseIgnored({Up(f)}) \/ UNCHANGED <<handles, connections>>
    BY <1>3 DEF ToClientEnds
  <2>2. /\ handles' \subseteq handles /\ connections' \subseteq connections
        /\ connections \ connections' \subseteq {Up(f)}
        /\ \A h \in handles' : h \in connections => h \in connections'
    BY <2>1, CloseIgnoredKeeps
  <2> DEFINE to == [flow[f] EXCEPT !.to = FALSE, !.inMap = FALSE]
  <2>3. to \in FlowStates /\ flow' = [flow EXCEPT ![f] = to]
    BY <1>1, <1>3 DEF ToClientEnds, FlowStates
  <2>4. to.dial = flow[f].dial /\ to.pc = flow[f].pc /\ to.from = flow[f].from /\ to.to = FALSE
    BY <1>1 DEF FlowStates
  <2>5. UNCHANGED <<outline, acceptor, outlineClose>> /\ flow[f].to
    BY <1>3 DEF ToClientEnds
  <2> HIDE DEF to
  <2>6. /\ connections \subseteq connections' \cup {Client(f), Up(f), Relay(f)}
        /\ Client(f) \in handles' => Client(f) \in connections' \/ acceptor = f
        /\ Up(f) \in handles' => Up(f) \in connections' \/ to.dial \in {"handshake", "track"}
        /\ Relay(f) \in handles' => to.pc \in {"associate", "teardown"}
    BY <1>1, <2>2, <2>4 DEF Handled
  <2>7. /\ acceptor = f => to.pc = "tracking"
        /\ to.dial \in {"begin", "handshake", "track"} => to.pc = "connect" \/ to.from = "dial"
        /\ to.from \in {"read", "dial", "write"} \/ to.to => to.pc \in {"associate", "teardown", "join"}
    BY <1>1, <2>4 DEF Supervised, Dialing, Associated
  <2> QED BY <2>2, <2>3, <2>5, <2>6, <2>7, WorkerStepInv
<1> QED BY <1>2, <1>3

\* The end of an association: its relay is closed, then its goroutines are joined.
LEMMA AssociationInv ==
    ASSUME OutlineInv, NEW f \in Flows,
           AssociationCanceled(f) \/ ControlEnds(f) \/ Teardown(f) \/ Join(f)
    PROVE  OutlineInv'
<1>1. flow[f] \in FlowStates /\ Handled(f) /\ Supervised(f)
  BY DEF OutlineInv
<1>2. CASE AssociationCanceled(f)
  <2>1. PICK gone \in SUBSET {Client(f)} :
               handles' = handles \ (gone \cup {Relay(f)}) /\ connections' = connections \ gone
    BY <1>2 DEF AssociationCanceled
  <2>2. flow' = [flow EXCEPT ![f] = flow[f]]
    BY <1>2 DEF AssociationCanceled, OutlineInv
  <2>3. /\ handles' \subseteq handles /\ connections' \subseteq connections
        /\ connections \subseteq connections' \cup {Client(f), Up(f), Relay(f)}
    BY <2>1
  <2>4. /\ Client(f) \in handles' => Client(f) \in connections' \/ acceptor = f
        /\ Up(f) \in handles' => Up(f) \in connections' \/ flow[f].dial \in {"handshake", "track"}
        /\ Relay(f) \in handles' => flow[f].pc \in {"associate", "teardown"}
    BY <1>1, <1>2, <2>1, HandlesDistinct DEF AssociationCanceled, Handled
  <2> QED BY <1>1, <1>2, <2>2, <2>3, <2>4, WorkerStepInv
          DEF AssociationCanceled, Supervised, Dialing, Associated
<1>3. CASE ControlEnds(f) \/ Join(f)
  <2>1. PICK pc \in {"teardown", "hangup"} : flow' = [flow EXCEPT ![f].pc = pc] /\ (pc = "hangup" => Join(f))
    BY <1>3 DEF ControlEnds, Join
  <2> DEFINE to == [flow[f] EXCEPT !.pc = pc]
  <2>2. to \in FlowStates /\ flow' = [flow EXCEPT ![f] = to]
    BY <1>1, <2>1 DEF FlowStates
  <2>3. to.pc = pc /\ to.dial = flow[f].dial /\ to.from = flow[f].from /\ to.to = flow[f].to
    BY <1>1 DEF FlowStates
  <2>4. /\ UNCHANGED <<handles, connections, outline, acceptor, outlineClose>>
        /\ flow[f].pc \in {"associate", "join"}
    BY <1>3 DEF ControlEnds, Join
  <2>5. pc = "hangup" => flow[f].pc = "join" /\ flow[f].from = "ended" /\ ~flow[f].to
    BY <2>1 DEF Join
  <2>6. pc = "teardown" => flow[f].pc = "associate"
    BY <1>1, <1>3, <2>1, <2>3 DEF ControlEnds, Join, OutlineInv, FlowStates
  <2> HIDE DEF to
  <2> QED BY <1>1, <2>2, <2>3, <2>4, <2>5, <2>6, WorkerStepInv DEF Handled, Supervised, Dialing, Associated
<1>4. CASE Teardown(f)
  <2>1. PICK gone \in SUBSET {Up(f)} :
               handles' = handles \ (gone \cup {Relay(f)}) /\ connections' = connections \ gone
    BY <1>4 DEF Teardown
  <2> DEFINE to == [flow[f] EXCEPT !.pc = "join", !.closed = TRUE, !.inMap = FALSE]
  <2>2. to \in FlowStates /\ flow' = [flow EXCEPT ![f] = to]
    BY <1>1, <1>4 DEF Teardown, FlowStates
  <2>3. to.pc = "join" /\ to.dial = flow[f].dial /\ to.from = flow[f].from /\ to.to = flow[f].to
    BY <1>1 DEF FlowStates
  <2> HIDE DEF to
  <2>4. /\ handles' \subseteq handles /\ connections' \subseteq connections
        /\ connections \subseteq connections' \cup {Client(f), Up(f), Relay(f)}
    BY <2>1
  <2>5. /\ Client(f) \in handles' => Client(f) \in connections' \/ acceptor = f
        /\ Up(f) \in handles' => Up(f) \in connections' \/ to.dial \in {"handshake", "track"}
        /\ Relay(f) \in handles' => to.pc \in {"associate", "teardown"}
    BY <1>1, <1>4, <2>1, <2>3, HandlesDistinct DEF Teardown, Handled
  <2> QED BY <1>1, <1>4, <2>2, <2>3, <2>4, <2>5, WorkerStepInv
          DEF Teardown, Supervised, Dialing, Associated
<1> QED BY <1>2, <1>3, <1>4

\* What the caller of Close does leaves flows as they are; handles only go with their entry.
LEMMA SweepKeeps ==
    ASSUME OutlineInv, UNCHANGED <<acceptor, flow>>, NEW gone,
           handles' = handles \ gone, connections' = connections \ gone
    PROVE  /\ \A f \in Flows : Handled(f)' /\ Supervised(f)'
           /\ handles' \subseteq Flows \X {"client", "up", "relay"}
           /\ connections' \subseteq Flows \X {"client", "up", "relay"}
           /\ OutlineNoWorkers' = OutlineNoWorkers
<1>1. ASSUME NEW f \in Flows PROVE Handled(f)' /\ Supervised(f)'
  BY DEF OutlineInv, Handled, Supervised, Dialing, Associated
<1> QED BY <1>1 DEF OutlineInv, OutlineNoWorkers

\* Close: the listener, a first pass, the join of the workers, a last pass.
LEMMA OutlineCloseInv == ASSUME OutlineInv, OutlineCloseBegins \/ OutlineClosing PROVE OutlineInv'
<1>1. CASE OutlineCloseBegins \/ Snapshot \/ CloseListener \/ OutlineSwept \/ OutlineCloseReturns
  <2>1. handles' = handles \ {} /\ connections' = connections \ {} /\ UNCHANGED <<acceptor, flow>>
    BY <1>1 DEF OutlineCloseBegins, Snapshot, CloseListener, OutlineSwept, OutlineCloseReturns
  <2>2. /\ \A f \in Flows : Handled(f)' /\ Supervised(f)'
        /\ OutlineNoWorkers' = OutlineNoWorkers
    BY <2>1, SweepKeeps
  <2>3. CASE OutlineCloseBegins
    BY <2>1, <2>2, <2>3 DEF OutlineCloseBegins, OutlineInv, OCloseStates
  <2>4. CASE Snapshot
    BY <2>1, <2>2, <2>4 DEF Snapshot, OutlineInv, OCloseStates
  <2>5. CASE CloseListener
    BY <2>1, <2>2, <2>5 DEF CloseListener, OutlineInv, OCloseStates
  <2>6. CASE OutlineSwept \/ OutlineCloseReturns
    BY <2>1, <2>2, <2>6 DEF OutlineSwept, OutlineCloseReturns, OutlineInv, OCloseStates
  <2> QED BY <1>1, <2>3, <2>4, <2>5, <2>6
<1>2. CASE OutlineJoined
  <2>1. handles \subseteq connections
    <3>1. \A f \in Flows : \A h \in {Client(f), Up(f), Relay(f)} : h \in handles => h \in connections
      BY <1>2, FlowsAssumption
         DEF OutlineJoined, OutlineNoWorkers, OutlineInv, Handled, Supervised, Dialing, Associated
    <3> QED BY <3>1, HandleKinds DEF OutlineInv
  <2>2. handles' = handles \ {} /\ connections' = connections \ {} /\ UNCHANGED <<acceptor, flow>>
    BY <1>2 DEF OutlineJoined
  <2>3. /\ \A f \in Flows : Handled(f)' /\ Supervised(f)'
        /\ OutlineNoWorkers'
    BY <1>2, <2>2, SweepKeeps DEF OutlineJoined
  <2> QED BY <1>2, <2>1, <2>2, <2>3 DEF OutlineJoined, LateHandles, OutlineInv, OCloseStates
<1>3. ASSUME NEW c, CloseConnection(c) PROVE OutlineInv'
  <2>1. PICK gone \in SUBSET {c} : handles' = handles \ gone /\ connections' = connections \ gone
    <3>1. CASE handles' = handles \ {c} /\ connections' = connections \ {c}
      BY <3>1
    <3>2. CASE UNCHANGED <<handles, connections>>
      <4>1. {} \in SUBSET {c} /\ handles' = handles \ {} /\ connections' = connections \ {}
        BY <3>2
      <4> QED BY <4>1
    <3> QED BY <1>3, <3>1, <3>2 DEF CloseConnection
  <2>2. UNCHANGED <<acceptor, flow, outline>>
    BY <1>3 DEF CloseConnection
  <2>3. /\ \A f \in Flows : Handled(f)' /\ Supervised(f)'
        /\ handles' \subseteq Flows \X {"client", "up", "relay"}
        /\ connections' \subseteq Flows \X {"client", "up", "relay"}
        /\ OutlineNoWorkers' = OutlineNoWorkers
    BY <2>1, <2>2, SweepKeeps
  <2>4. /\ outlineClose' \in OCloseStates /\ outlineClose'.pc = outlineClose.pc
        /\ outlineClose.pc \in {"sweep", "late"}
        /\ ~outlineClose'.err => ~outlineClose.err /\ handles' = handles \ {c}
                               /\ outlineClose'.todo = outlineClose.todo \ {c}
    BY <1>3 DEF CloseConnection, OutlineInv, OCloseStates
  <2> QED BY <2>2, <2>3, <2>4 DEF OutlineInv
<1> QED BY <1>1, <1>2, <1>3 DEF OutlineClosing

\* Every step of an Outline device keeps the invariant.
LEMMA OutlineStepInv == OutlineInv /\ [OutlineNext]_outlineVars => OutlineInv'
<1>1. ASSUME OutlineInv, ServeEnds PROVE OutlineInv'
  <2>1. outlineClose.pc \notin {"late", "closed"}
    BY <1>1 DEF ServeEnds, OutlineInv, OutlineNoWorkers
  <2>2. \A f \in Flows : Handled(f)' /\ Supervised(f)'
    BY <1>1, FlowsAssumption DEF ServeEnds, OutlineInv, Handled, Supervised, Dialing, Associated
  <2> QED BY <1>1, <2>1, <2>2 DEF ServeEnds, OutlineInv
<1>2. ASSUME OutlineInv, OutlineFailuresEnd \/ UNCHANGED outlineVars PROVE OutlineInv'
  <2>1. handles' = handles \ {} /\ connections' = connections \ {} /\ UNCHANGED <<acceptor, flow, outlineClose>>
    BY <1>2 DEF OutlineFailuresEnd
  <2>2. /\ \A f \in Flows : Handled(f)' /\ Supervised(f)'
        /\ OutlineNoWorkers' = OutlineNoWorkers
    BY <1>2, <2>1, SweepKeeps
  <2>3. /\ outline' \in [canceled : BOOLEAN, closing : BOOLEAN, listener : BOOLEAN, failures : BOOLEAN]
        /\ outline'.listener = outline.listener
    BY <1>2 DEF OutlineFailuresEnd, OutlineInv
  <2> QED BY <1>2, <2>1, <2>2, <2>3 DEF OutlineInv
<1>3. ASSUME OutlineInv, NEW f \in Flows, Serving(f) \/ OutlineDialing(f) \/ Replying(f)
                                          \/ Blocked(f) \/ Unblocked(f)
      PROVE  OutlineInv'
  BY <1>3, ClientInv, ServeInv, DialInv, FromInv, ToInv, AssociationInv
     DEF Serving, OutlineDialing, Replying, Blocked, Unblocked
<1> QED BY <1>1, <1>2, <1>3, ClientInv, DialInv, AssociationInv, OutlineCloseInv DEF OutlineNext

\* OutlineDevice.Close, from the invariant.
LEMMA OutlineInvDrained == OutlineInv => OutlineDrained
  BY DEF OutlineInv, OutlineDrained
=============================================================================
