----------------------------- MODULE TunnelFlows -----------------------------
(***************************************************************************)
(* The packet stack of core/tunnel and the flows it carries: Engine        *)
(* attaches one protocol attempt at a time, detaches it and stops;         *)
(* switchingProxy routes new flows to the attached attempt; flowOwner      *)
(* accounts for the dials and connections of one attempt, so that nothing  *)
(* of it is left when Detach or Stop reports success.                      *)
(*                                                                         *)
(* An action is one critical section (of the router, of a flow owner or of *)
(* a connection) or one call that does IO.  Engine.mu is held over a whole *)
(* Attach, Detach or Stop: `op' is the one in progress.                    *)
(*                                                                         *)
(* Abstractions: addresses, payloads, bypass and statistics are left out;  *)
(* a flow is a dialing goroutine with at most one socket; an attempt is    *)
(* its generation, 0 is none.  Of UDP, the outbound association and the    *)
(* input endpoint (origin) of a flow are two kinds of flow.                *)
(***************************************************************************)
EXTENDS Naturals, FiniteSets

CONSTANTS
    TCP, UDP, Origins, \* goroutines that dial TCP, dial UDP, admit UDP origins
    MaxAttempts,       \* bound: attempts attached
    MayFail            \* may closing a socket fail, and deadlines pass?

ASSUME FlowsAssumption == TCP \cap UDP = {} /\ (TCP \cup UDP) \cap Origins = {}
ASSUME AttemptsAssumption == MaxAttempts \in Nat
ASSUME MayFailAssumption == MayFail \in BOOLEAN

Flows == TCP \cup UDP \cup Origins

VARIABLES
    \* Engine
    proxy,         \* the attached attempt, or 0
    attempt,       \* its generation, kept after Detach
    stopped, reserved, \* reserved: activeEngine is this engine
    platformUp,    \* the platform engine runs
    op,            \* the call that holds Engine.mu, and how far it is
    closing,       \* connections that sealAndClose has still to close
    \* switchingProxy
    target, routerClosed,
    \* flowOwner of every attempt
    sealed,        \* attempts whose owner is closed
    tcpContext,    \* attempt -> "none", "live", "canceled"
    pending,       \* flows between beginDial and endDial
    connections,   \* flows in a connections map
    \* the UDP relay of every attempt
    relays,        \* attempts whose relay runs
    queued,        \* attempts whose relay has taken an origin it must dispatch
    \* flows
    pc, gen,       \* where a flow is, and the attempt it was routed to
    open           \* flows whose socket exists

engineVars == <<proxy, attempt, stopped, reserved, platformUp, op, closing>>
routerVars == <<target, routerClosed>>
ownerVars == <<sealed, tcpContext, pending, connections>>
relayVars == <<relays, queued>>
flowVars == <<pc, gen, open>>
vars == <<engineVars, routerVars, ownerVars, relayVars, flowVars>>

Attempts == 1..MaxAttempts

Init ==
    /\ proxy = 0 /\ attempt = 0 /\ stopped = FALSE /\ reserved = TRUE /\ platformUp = TRUE
    /\ op = "none" /\ closing = {}
    /\ target = 0 /\ routerClosed = FALSE
    /\ sealed = {} /\ tcpContext = [g \in Attempts |-> "none"]
    /\ pending = {} /\ connections = {} /\ relays = {} /\ queued = {}
    /\ pc = [f \in Flows |-> "none"] /\ gen = [f \in Flows |-> 0] /\ open = {}

-----------------------------------------------------------------------------
(* Closing one connection: trackedConn, idlePacketConn, trackedUDPOrigin and *)
(* pendingSOCKSConn.  A close that fails leaves, or puts, the connection in   *)
(* the owner's map, so that it is retried.                                    *)

ReleaseFailed(f) == open' = open /\ connections' = connections \cup {f}

Close(f) ==
    \/ f \notin open /\ UNCHANGED <<open, connections>>
    \/ f \in open /\ open' = open \ {f} /\ connections' = connections \ {f}
    \/ f \in open /\ MayFail /\ ReleaseFailed(f)

-----------------------------------------------------------------------------
(* Flows *)

Goto(f, place) == pc' = [pc EXCEPT ![f] = place]
FlowFrame == UNCHANGED <<engineVars, routerVars, relayVars, sealed>>

\* switchingProxy: TCP waits for a target under its own context, UDP is dropped.
Route(f) ==
    /\ f \in TCP \cup UDP /\ pc[f] = "none" /\ f \notin connections
    /\ target # 0
    /\ gen' = [gen EXCEPT ![f] = target] /\ Goto(f, "routed")
    /\ UNCHANGED <<open, tcpContext, pending, connections>> /\ FlowFrame

\* The relay dispatches an origin: it dials through the attempt that admitted it,
\* also when that has been replaced since.
DispatchUDP(f) ==
    /\ f \in UDP /\ pc[f] = "none" /\ f \notin connections
    /\ \E g \in queued : /\ queued' = queued \ {g}
                         /\ gen' = [gen EXCEPT ![f] = g] /\ Goto(f, "routed")
    /\ UNCHANGED <<open, ownerVars, relays, engineVars, routerVars>>

BeginDial(f) ==
    /\ pc[f] = "routed"
    /\ IF gen[f] \in sealed THEN Goto(f, "none") /\ UNCHANGED pending
       ELSE /\ Goto(f, IF f \in TCP THEN "register" ELSE "dial")
            /\ pending' = pending \cup {f}
    /\ UNCHANGED <<gen, open, tcpContext, connections>> /\ FlowFrame

\* HandleUDP: admission is registered before Detach can fence the router.
AdmitLate(f) == gen' = [gen EXCEPT ![f] = target] /\ Goto(f, "routed") /\ UNCHANGED pending \* fault
Admit(f) == gen' = [gen EXCEPT ![f] = target] /\ Goto(f, "track") /\ pending' = pending \cup {f}
HandleUDP(f) ==
    /\ f \in Origins /\ pc[f] = "none" /\ f \notin connections
    /\ target # 0 /\ target \notin sealed
    /\ Admit(f) /\ open' = open \cup {f}
    /\ UNCHANGED <<tcpContext, connections>> /\ FlowFrame

\* pendingTCPContext: the owner may have been sealed since beginDial.
RegisterOnly(f) == IF tcpContext[gen[f]] = "none" THEN "live" ELSE tcpContext[gen[f]] \* fault
Registered(f) == IF gen[f] \in sealed THEN "canceled" ELSE "live"
PendingTCPContext(f) ==
    /\ pc[f] = "register" /\ Goto(f, "dial")
    /\ tcpContext' = [tcpContext EXCEPT ![gen[f]] = Registered(f)]
    /\ UNCHANGED <<gen, open, pending, connections>> /\ FlowFrame

\* The outbound dial returns a socket, or an error.
DialContext(f) ==
    /\ pc[f] = "dial"
    /\ \/ Goto(f, "track") /\ open' = open \cup {f} /\ UNCHANGED connections
       \/ Goto(f, "end") /\ UNCHANGED <<open, connections>>
       \* the handshake's own socket could not be closed
       \/ /\ f \in TCP /\ MayFail /\ Goto(f, "end")
          /\ open' = open \cup {f} /\ connections' = connections \cup {f}
    /\ UNCHANGED <<gen, tcpContext, pending>> /\ FlowFrame

\* A UDP association that timed out before is not tracked, also when its close failed and
\* left it in the map: the caller closes it again.
Trackable(f) == f \in open \ connections

Track(f) ==
    /\ pc[f] = "track"
    /\ IF gen[f] \notin sealed /\ Trackable(f)
       THEN connections' = connections \cup {f} /\ Goto(f, IF f \in Origins THEN "relay" ELSE "end")
       ELSE Goto(f, "late") /\ UNCHANGED connections
    /\ UNCHANGED <<gen, open, tcpContext, pending>> /\ FlowFrame

\* The owner was sealed, or the association timed out: the caller closes what it got.
CloseLate(f) ==
    /\ pc[f] = "late" /\ Close(f) /\ Goto(f, "end")
    /\ UNCHANGED <<gen, tcpContext, pending>> /\ FlowFrame

\* An admitted origin is handed to the attempt's relay, or closed when the
\* attempt retires first.
NeverRetired(f) == FALSE \* fault: only the relay is waited for
Retired(f) == gen[f] \in sealed
HandUDPIn(f) ==
    /\ pc[f] = "relay" /\ gen[f] \in relays
    /\ queued' = queued \cup {gen[f]} /\ Goto(f, "end")
    /\ UNCHANGED <<gen, open, ownerVars, relays, engineVars, routerVars>>
HandUDPRetired(f) ==
    /\ pc[f] = "relay" /\ Retired(f) /\ Close(f) /\ Goto(f, "end")
    /\ UNCHANGED <<gen, tcpContext, pending>> /\ FlowFrame

EndDial(f) ==
    /\ pc[f] = "end" /\ pending' = pending \ {f} /\ Goto(f, "none")
    /\ UNCHANGED <<gen, open, tcpContext, connections>> /\ FlowFrame

\* The stack or the peer ends a flow; a UDP association may also have timed out
\* before it is tracked.
FlowEnds(f) ==
    /\ f \in open
    /\ \/ pc[f] = "none" /\ f \in connections
       \/ pc[f] = "track" /\ f \in UDP \ connections
    /\ Close(f)
    /\ UNCHANGED <<pc, gen, tcpContext, pending>> /\ FlowFrame

-----------------------------------------------------------------------------
(* Engine *)

\* Attach is refused while an earlier attempt still owns flows.
Attach ==
    /\ op = "none" /\ ~stopped /\ proxy = 0 /\ attempt < MaxAttempts
    /\ proxy' = attempt + 1 /\ attempt' = attempt + 1
    /\ target' = IF routerClosed THEN target ELSE attempt + 1
    /\ relays' = relays \cup {attempt + 1}
    /\ UNCHANGED <<stopped, reserved, platformUp, op, closing, routerClosed, ownerVars,
                   queued, flowVars>>

\* Detach: admission is fenced first.
Detach ==
    /\ op = "none" /\ proxy # 0
    /\ op' = "detachSeal" /\ target' = IF routerClosed THEN target ELSE 0
    /\ UNCHANGED <<proxy, attempt, stopped, reserved, platformUp, closing, routerClosed,
                   ownerVars, relayVars, flowVars>>

\* sealAndClose: seal, cancel the TCP dials, then close what was registered.
Seal(next) ==
    /\ sealed' = sealed \cup {proxy}
    /\ tcpContext' = [tcpContext EXCEPT ![proxy] = IF @ = "live" THEN "canceled" ELSE @]
    /\ closing' = {f \in connections : gen[f] = proxy}
    /\ op' = next
    /\ UNCHANGED <<proxy, attempt, stopped, reserved, platformUp, routerVars, pending,
                   connections, relayVars, flowVars>>
CloseOne ==
    /\ op \in {"detachClose", "stopClose"}
    /\ \E f \in closing : closing' = closing \ {f} /\ Close(f)
    /\ UNCHANGED <<proxy, attempt, stopped, reserved, platformUp, op, routerVars, sealed,
                   tcpContext, pending, relayVars, pc, gen>>

OpTo(next) == op' = next
OpFrame == UNCHANGED <<attempt, closing, routerVars, ownerVars, queued, flowVars>>

DetachSeal == op = "detachSeal" /\ Seal("detachClose")
DetachClosed ==
    /\ op = "detachClose" /\ closing = {} /\ OpTo("detachWait") /\ relays' = relays \ {proxy}
    /\ UNCHANGED <<proxy, stopped, reserved, platformUp>> /\ OpFrame

\* flowOwner.wait: until no dial is pending; then nothing may be left.
SettledAlways == TRUE \* fault: pending dials are not waited for
Settled == {f \in pending : gen[f] = proxy} = {}
Residual == {f \in connections : gen[f] = proxy} # {}

DetachWait ==
    /\ op = "detachWait" /\ OpTo("none")
    /\ \/ Settled /\ ~Residual /\ proxy' = 0
       \/ Settled /\ Residual /\ UNCHANGED proxy
       \/ ~Settled /\ MayFail /\ UNCHANGED proxy  \* the deadline
    /\ UNCHANGED <<stopped, reserved, platformUp, relays>> /\ OpFrame

\* Stop: the router is closed for good.
Stop ==
    /\ op = "none" /\ ~stopped
    /\ target' = 0 /\ routerClosed' = TRUE
    /\ OpTo(IF proxy = 0 THEN "stopPlatform" ELSE "stopSeal")
    /\ UNCHANGED <<proxy, attempt, stopped, reserved, platformUp, closing, ownerVars, relayVars, flowVars>>
StopSeal == op = "stopSeal" /\ Seal("stopClose")
StopClosed ==
    /\ op = "stopClose" /\ closing = {} /\ OpTo("stopPlatform")
    /\ UNCHANGED <<proxy, stopped, reserved, platformUp, relays>> /\ OpFrame
StopPlatform ==
    /\ op = "stopPlatform" /\ OpTo("stopWait")
    /\ platformUp' \in IF MayFail THEN {platformUp, FALSE} ELSE {FALSE}
    /\ UNCHANGED <<proxy, stopped, reserved, relays>> /\ OpFrame
StopWait ==
    /\ op = "stopWait" /\ OpTo("none")
    /\ \/ /\ Settled /\ ~Residual /\ ~platformUp
          /\ stopped' = TRUE /\ reserved' = FALSE
       \/ /\ Settled \/ MayFail
          /\ ~Settled \/ Residual \/ platformUp
          /\ UNCHANGED <<stopped, reserved>>
    /\ UNCHANGED <<proxy, platformUp, relays>> /\ OpFrame

-----------------------------------------------------------------------------
Admission(f) == Route(f) \/ HandleUDP(f) \/ DispatchUDP(f)
DialStep(f) ==
    \/ BeginDial(f) \/ PendingTCPContext(f) \/ Track(f) \/ CloseLate(f)
    \/ HandUDPIn(f) \/ HandUDPRetired(f) \/ EndDial(f)
EngineStep ==
    \/ DetachSeal \/ DetachClosed \/ DetachWait
    \/ StopSeal \/ StopClosed \/ StopPlatform \/ StopWait \/ CloseOne

Next ==
    \/ Attach \/ Detach \/ Stop \/ EngineStep
    \/ \E f \in Flows : Admission(f) \/ DialStep(f) \/ DialContext(f) \/ FlowEnds(f)

Spec == Init /\ [][Next]_vars

\* Goroutines are scheduled.  A TCP dial need only return once its context is
\* canceled; the SOCKS association of a UDP dial returns by itself.
DialEnds(f) ==
    pc[f] = "dial" /\ (f \in TCP => tcpContext[gen[f]] = "canceled") /\ DialContext(f)
Fairness ==
    /\ WF_vars(EngineStep)
    /\ \A f \in Flows : WF_vars(DialStep(f)) /\ WF_vars(DialEnds(f))
FairSpec == Spec /\ Fairness

-----------------------------------------------------------------------------
(* Properties *)

\* Every variable has its type; in particular the dials of a sealed attempt have
\* no live context.
TypeOK ==
    /\ proxy \in 0..MaxAttempts /\ attempt \in 0..MaxAttempts /\ target \in 0..MaxAttempts
    /\ stopped \in BOOLEAN /\ reserved \in BOOLEAN /\ platformUp \in BOOLEAN /\ routerClosed \in BOOLEAN
    /\ op \in {"none", "detachSeal", "detachClose", "detachWait", "stopSeal", "stopClose",
               "stopPlatform", "stopWait"}
    /\ closing \subseteq Flows /\ sealed \subseteq Attempts
    /\ tcpContext \in [Attempts -> {"none", "live", "canceled"}]
    /\ \A g \in sealed : tcpContext[g] # "live"
    /\ relays \subseteq Attempts /\ queued \subseteq Attempts
    /\ pending \subseteq Flows /\ connections \subseteq Flows /\ open \subseteq Flows
    /\ pc \in [Flows -> {"none", "routed", "register", "dial", "track", "relay", "late", "end"}]
    /\ gen \in [Flows -> 0..MaxAttempts]

\* No socket outlives its attempt: when Detach or Stop has succeeded none is left,
\* and a dial that was under way cannot bring one back.
NoFlowOutlivesAttempt == \A f \in open : gen[f] = proxy /\ ~stopped

\* Every socket is in its owner's map, or the dial that got it still is pending.
Accounted == \A f \in open : f \in connections \cup pending

\* The map names no socket that is gone: such an entry could never be closed and
\* every later Detach would fail on it.
NoGhost == connections \subseteq open

\* Attempts never overlap: a new one is attached only when no flow and no dial of
\* an earlier one is left.
CleanAttach ==
    [][proxy' # proxy /\ proxy' # 0
         => \A f \in Flows : f \in pending \cup connections \cup open => gen[f] = proxy']_vars

\* Detach and Stop end in success if no socket fails to close: nothing that can race them
\* leaves them waiting for good.
FlowsEnd == (op = "detachSeal" ~> proxy = 0) /\ (op = "stopPlatform" ~> stopped)

-----------------------------------------------------------------------------
(* The inductive invariant *)

\* Everything a flow owns belongs to the attached attempt, the only one whose
\* owner may be unsealed.
FlowPlaces ==
    /\ \A f \in Flows :
         /\ f \in pending <=> pc[f] \in {"register", "dial", "track", "relay", "late", "end"}
         /\ pc[f] \in {"routed", "register", "dial"} => f \notin open \cup connections
         /\ pc[f] \in {"none", "relay", "end"} /\ f \in open => f \in connections
         /\ pc[f] # "none" => gen[f] \in 1..attempt
    /\ \A f \in pending \cup connections \cup open : gen[f] = proxy /\ proxy # 0

\* What Engine has fenced at each place of Detach and Stop.
EnginePlaces ==
    /\ attempt \in 0..MaxAttempts /\ proxy \in {0, attempt} /\ target \in {0, proxy}
    /\ \A g \in 1..attempt : g \notin sealed => g = proxy
    /\ sealed \subseteq 1..attempt /\ queued \subseteq 1..attempt
    /\ routerClosed \/ op # "none" => target = 0
    /\ op \in {"stopSeal", "stopClose", "stopPlatform", "stopWait"} \/ stopped => routerClosed
    /\ op \in {"detachSeal", "detachClose", "detachWait", "stopSeal", "stopClose"} => proxy # 0
    /\ op \in {"detachClose", "detachWait", "stopClose", "stopPlatform", "stopWait"} \/ stopped
         => proxy = 0 \/ proxy \in sealed
    /\ target # 0 => target \notin sealed
    /\ stopped => pending = {} /\ open = {}

FlowInv == TypeOK /\ FlowPlaces /\ EnginePlaces /\ Accounted /\ NoGhost
=============================================================================
