-------------------------- MODULE RuntimeLifecycle --------------------------
(***************************************************************************)
(* sessionapi/runtime: Start builds one protocol attempt on the acquired   *)
(* network (a socket scope, a protocol device, its attachment to the       *)
(* packet stack) and returns it as a lease with a health monitor; the      *)
(* lease's Stop takes it down and can be repeated.  runtime.mu is held     *)
(* over a whole PrepareNetwork or Start, and taken by the callback of a    *)
(* lease that was stopped.                                                 *)
(*                                                                         *)
(* The caller is the session manager, which uses leases one at a time: it  *)
(* starts an attempt on a network that is ready, cancels its context at    *)
(* any time, stops a lease that it was given, with an error or without,    *)
(* and the network after it.                                               *)
(*                                                                         *)
(* Abstractions: the network is one resource (NativeDesktop, NativeMobile  *)
(* and TunnelFlows have its inside); a call that is refused has no effect  *)
(* and is left out; an error is that there is one.                         *)
(***************************************************************************)
EXTENDS Naturals, Sequences, SequencesExt

CONSTANTS
    MaxAttempts, MaxNetworks, \* bounds: leases started, networks prepared
    ReadinessAttempts,        \* lifecycle.go: 6
    HealthFailureThreshold    \* lifecycle.go: 3

ASSUME LifecycleAssumption ==
    /\ MaxAttempts \in Nat /\ MaxNetworks \in Nat
    /\ ReadinessAttempts \in Nat \ {0} /\ HealthFailureThreshold \in Nat \ {0}

VARIABLES
    \* runtime
    mu,            \* who holds it: "free", "prepare", "start"
    active, network, \* network: r.network is set
    networks, netPhase, \* the network owner: "none", "owned", "stopping"
    netOk,         \* it was prepared without an error, and no Stop began
    attempt, startPc, checks, \* the Start in progress, or the last one
    \* every lease
    owned,         \* "none", "starting", "returned", "gone"
    ready,         \* returned without an error, and no Stop failed
    undo, onDone, stopPc,
    canceled,      \* attempts whose context has ended
    \* its health monitor
    monitor, failures, healthCanceled, reported,
    held           \* native resources that exist: <<attempt, kind>>

networkVars == <<network, networks, netPhase, netOk>>
leaseVars == <<owned, ready, undo, onDone, stopPc>>
monitorVars == <<monitor, failures, healthCanceled, reported>>
vars == <<mu, active, networkVars, attempt, startPc, checks, leaseVars, canceled,
          monitorVars, held>>

Attempts == 1..MaxAttempts
Kinds == {"scope", "device", "attachment"}

Init ==
    /\ mu = "free" /\ active = FALSE
    /\ network = FALSE /\ networks = 0 /\ netPhase = "none" /\ netOk = FALSE
    /\ attempt = 0 /\ startPc = "none" /\ checks = 0
    /\ owned = [g \in Attempts |-> "none"] /\ ready = [g \in Attempts |-> FALSE]
    /\ undo = [g \in Attempts |-> <<>>] /\ onDone = [g \in Attempts |-> FALSE]
    /\ stopPc = [g \in Attempts |-> "idle"] /\ canceled = {}
    /\ monitor = [g \in Attempts |-> "none"] /\ failures = [g \in Attempts |-> 0]
    /\ healthCanceled = {} /\ reported = {} /\ held = {}

-----------------------------------------------------------------------------
(* The network owner *)

NetworkFrame ==
    UNCHANGED <<active, attempt, startPc, checks, leaseVars, canceled, monitorVars, held>>

PrepareNetwork ==
    /\ mu = "free" /\ ~network /\ ~active /\ networks < MaxNetworks
    /\ mu' = "prepare" /\ network' = TRUE /\ networks' = networks + 1
    /\ UNCHANGED <<netPhase, netOk>> /\ NetworkFrame

\* The owner is returned also with an error.
OwnerReturned(ok) == "owned"
PrepareReturns ==
    /\ mu = "prepare" /\ mu' = "free"
    /\ netOk' \in BOOLEAN /\ netPhase' = OwnerReturned(netOk')
    /\ UNCHANGED <<network, networks>> /\ NetworkFrame

\* The manager stops it after its leases.
StopNetwork ==
    /\ netPhase = "owned" /\ \A g \in Attempts : owned[g] \in {"none", "gone"}
    /\ netPhase' = "stopping" /\ netOk' = FALSE
    /\ UNCHANGED <<mu, network, networks>> /\ NetworkFrame
\* Its callback takes mu; a failed Stop stays with the manager.
NetworkStopped ==
    /\ netPhase = "stopping"
    /\ \/ mu = "free" /\ netPhase' = "none" /\ network' = FALSE
       \/ netPhase' = "owned" /\ UNCHANGED network
    /\ UNCHANGED <<mu, networks, netOk>> /\ NetworkFrame

-----------------------------------------------------------------------------
(* Start *)

Push(kind) == undo' = [undo EXCEPT ![attempt] = Append(@, kind)]
Exists(kind) == held' = held \cup {<<attempt, kind>>}
StartTo(place) == startPc' = place
StartFrame == UNCHANGED <<networkVars, attempt, onDone, canceled, monitorVars>>
Canceled == attempt \in canceled

CallbackAtOnce == TRUE \* fault: releaseActive is set on the new lease
NewLeaseCallback == FALSE
StartBegin ==
    /\ mu = "free" /\ ~active /\ network /\ netOk /\ attempt < MaxAttempts
    /\ mu' = "start" /\ active' = TRUE /\ attempt' = attempt + 1
    /\ StartTo("inputs") /\ checks' = 0
    /\ owned' = [owned EXCEPT ![attempt + 1] = "starting"]
    /\ onDone' = [onDone EXCEPT ![attempt + 1] = NewLeaseCallback]
    /\ UNCHANGED <<networkVars, ready, undo, stopPc, canceled, monitorVars, held>>

\* startLocked: fail takes down what the lease has so far.
Fail == StartTo("rollback") /\ stopPc' = [stopPc EXCEPT ![attempt] = "begin"]

\* The bypass policy; then the socket scope of this attempt.
StartInputs ==
    /\ startPc = "inputs"
    /\ \/ Fail /\ UNCHANGED <<undo, held>>
       \/ StartTo("device") /\ Push("scope") /\ Exists("scope") /\ UNCHANGED stopPc
    /\ UNCHANGED <<mu, active, checks, owned, ready>> /\ StartFrame

\* A factory may return a device together with an error.
PushedOnSuccess(exists, ok) == ok \* fault
PushedDevice(exists, ok) == exists
StartDevice ==
    /\ startPc = "device"
    /\ \E exists, ok \in BOOLEAN :
         /\ ok => exists
         /\ IF exists THEN Exists("device") ELSE UNCHANGED held
         /\ IF PushedDevice(exists, ok) THEN Push("device") ELSE UNCHANGED undo
         /\ IF ok THEN StartTo("open") /\ UNCHANGED stopPc ELSE Fail
    /\ UNCHANGED <<mu, active, checks, owned, ready>> /\ StartFrame

StartOpen ==
    /\ startPc = "open"
    /\ \/ Fail
       \/ ~Canceled /\ StartTo("readiness") /\ UNCHANGED stopPc
    /\ UNCHANGED <<mu, active, checks, owned, ready, undo, held>> /\ StartFrame

\* waitForInitialReadiness: one attempt of it.
MoreAttempts == checks + 1 < ReadinessAttempts
WaitForInitialReadiness ==
    /\ startPc = "readiness"
    /\ \/ ~Canceled /\ StartTo("attach") /\ UNCHANGED <<stopPc, checks>>
       \/ /\ ~Canceled /\ MoreAttempts
          /\ checks' = checks + 1 /\ UNCHANGED <<startPc, stopPc>>
       \/ (Canceled \/ ~MoreAttempts) /\ Fail /\ UNCHANGED checks
    /\ UNCHANGED <<mu, active, owned, ready, undo, held>> /\ StartFrame

\* Attach, and what Start does with the lease before it returns it.
StartAttach ==
    /\ startPc = "attach"
    /\ \/ Fail /\ UNCHANGED <<mu, owned, ready, undo, onDone, monitor, held>>
       \/ /\ StartTo("none") /\ mu' = "free" /\ Push("attachment") /\ Exists("attachment")
          /\ onDone' = [onDone EXCEPT ![attempt] = TRUE]
          /\ owned' = [owned EXCEPT ![attempt] = "returned"]
          /\ ready' = [ready EXCEPT ![attempt] = TRUE]
          /\ monitor' = [monitor EXCEPT ![attempt] = "check"]
          /\ UNCHANGED stopPc
    /\ UNCHANGED <<active, checks, networkVars, attempt, canceled, failures, healthCanceled, reported>>

-----------------------------------------------------------------------------
(* lease.Stop: by Start itself, with mu, or by the manager.  It holds stopMu. *)

StopTo(g, place) == stopPc' = [stopPc EXCEPT ![g] = place]
LeaseFrame ==
    UNCHANGED <<networkVars, attempt, checks, canceled, monitor, failures, reported>>

Stop(g) ==
    /\ owned[g] = "returned" /\ stopPc[g] = "idle" /\ StopTo(g, "begin")
    /\ UNCHANGED <<mu, active, startPc, owned, ready, undo, onDone, healthCanceled, held>> /\ LeaseFrame

StopBegin(g) ==
    /\ stopPc[g] = "begin" /\ StopTo(g, "wait")
    /\ healthCanceled' = IF monitor[g] = "none" THEN healthCanceled ELSE healthCanceled \cup {g}
    /\ UNCHANGED <<mu, active, startPc, owned, ready, undo, onDone, held>> /\ LeaseFrame

NoWait(g) == TRUE \* fault: the monitor is only told to stop
MonitorDone(g) == monitor[g] \in {"none", "ended"}

StopWait(g) ==
    /\ stopPc[g] = "wait"
    /\ \/ MonitorDone(g) /\ StopTo(g, "undo")
       \/ monitor[g] # "none" /\ StopTo(g, "failed") \* the cleanup deadline
    /\ UNCHANGED <<mu, active, startPc, owned, ready, undo, onDone, healthCanceled, held>> /\ LeaseFrame

UndoLast(g) == undo' = [undo EXCEPT ![g] = Front(@)] /\ held' = held \ {<<g, Last(undo[g])>>}

StopUndo(g) ==
    /\ stopPc[g] = "undo" /\ undo[g] # <<>>
    /\ \/ UndoLast(g) /\ UNCHANGED stopPc
       \/ StopTo(g, "failed") /\ UNCHANGED <<undo, held>>
    /\ UNCHANGED <<mu, active, startPc, owned, ready, onDone, healthCanceled>> /\ LeaseFrame

\* What Start does after its own Stop, and the manager after one of its: a lease
\* that could not be taken down stays owned and active.
GivesUp == FALSE \* fault: active is dropped with the failed lease
ActiveAfterFailure == active
StopFailed(g) ==
    /\ stopPc[g] = "failed" /\ StopTo(g, "idle")
    /\ ready' = [ready EXCEPT ![g] = FALSE]
    /\ owned' = [owned EXCEPT ![g] = "returned"] /\ onDone' = [onDone EXCEPT ![g] = TRUE]
    /\ active' = ActiveAfterFailure
    /\ mu' = IF owned[g] = "starting" THEN "free" ELSE mu
    /\ startPc' = IF owned[g] = "starting" THEN "none" ELSE startPc
    /\ UNCHANGED <<undo, healthCanceled, held>> /\ LeaseFrame

\* onDone locks mu, which Start holds.
DoneRuns(g) == onDone[g] => mu = "free"

KeepsActive(g) == active \* fault: an early return of Start does not reset it
ActiveAfterRollback(g) == FALSE
Rollback(g) ==
    /\ stopPc[g] = "undo" /\ undo[g] = <<>> /\ owned[g] = "starting" /\ DoneRuns(g)
    /\ active' = ActiveAfterRollback(g) /\ mu' = "free" /\ startPc' = "none"
    /\ owned' = [owned EXCEPT ![g] = "gone"] /\ StopTo(g, "idle")
    /\ UNCHANGED <<ready, undo, onDone, healthCanceled, held>> /\ LeaseFrame
Stopped(g) ==
    /\ stopPc[g] = "undo" /\ undo[g] = <<>> /\ owned[g] = "returned" /\ DoneRuns(g)
    /\ active' = IF onDone[g] THEN FALSE ELSE active
    /\ owned' = [owned EXCEPT ![g] = "gone"] /\ StopTo(g, "idle")
    /\ UNCHANGED <<mu, startPc, ready, undo, onDone, healthCanceled, held>> /\ LeaseFrame

-----------------------------------------------------------------------------
(* The health monitor, and the manager's cancellation *)

MonitorFrame ==
    UNCHANGED <<mu, active, networkVars, attempt, startPc, checks, leaseVars, held>>
Ended(g) == g \in canceled \cup healthCanceled

\* One check.  The report is buffered, so it does not wait for the manager.
MonitorCheck(g) ==
    /\ monitor[g] = "check"
    /\ \/ /\ ~Ended(g) /\ failures' = [failures EXCEPT ![g] = 0]
          /\ monitor' = [monitor EXCEPT ![g] = "sleep"] /\ UNCHANGED reported
       \/ /\ failures' = [failures EXCEPT ![g] = @ + 1]
          /\ IF failures[g] + 1 < HealthFailureThreshold
             THEN monitor' = [monitor EXCEPT ![g] = "sleep"] /\ UNCHANGED reported
             ELSE /\ monitor' = [monitor EXCEPT ![g] = "ended"]
                  /\ reported' \in {reported \cup {g}} \cup IF Ended(g) THEN {reported} ELSE {}
    /\ UNCHANGED <<canceled, healthCanceled>> /\ MonitorFrame

MonitorSleep(g) ==
    /\ monitor[g] = "sleep"
    /\ \/ Ended(g) /\ monitor' = [monitor EXCEPT ![g] = "ended"]
       \/ monitor' = [monitor EXCEPT ![g] = "check"]
    /\ UNCHANGED <<canceled, failures, healthCanceled, reported>> /\ MonitorFrame

Cancel(g) ==
    /\ owned[g] \in {"starting", "returned"} /\ g \notin canceled /\ canceled' = canceled \cup {g}
    /\ UNCHANGED monitorVars /\ MonitorFrame

-----------------------------------------------------------------------------
StartStep ==
    StartInputs \/ StartDevice \/ StartOpen \/ WaitForInitialReadiness \/ StartAttach
StopStep(g) ==
    StopBegin(g) \/ StopWait(g) \/ StopUndo(g) \/ StopFailed(g) \/ Rollback(g) \/ Stopped(g)
NetworkStep == PrepareNetwork \/ PrepareReturns \/ StopNetwork \/ NetworkStopped

Next ==
    \/ NetworkStep \/ StartBegin \/ StartStep
    \/ \E g \in Attempts :
          Stop(g) \/ StopStep(g) \/ MonitorCheck(g) \/ MonitorSleep(g) \/ Cancel(g)

Spec == Init /\ [][Next]_vars

\* Goroutines are scheduled and native calls return.
Fairness ==
    /\ WF_vars(PrepareReturns) /\ WF_vars(NetworkStopped) /\ WF_vars(StartStep)
    /\ \A g \in Attempts : WF_vars(StopStep(g)) /\ WF_vars(MonitorCheck(g) \/ MonitorSleep(g))
FairSpec == Spec /\ Fairness

-----------------------------------------------------------------------------
(* Properties *)

\* Every variable has its type.
TypeOK ==
    /\ mu \in {"free", "prepare", "start"} /\ active \in BOOLEAN
    /\ network \in BOOLEAN /\ networks \in 0..MaxNetworks
    /\ netPhase \in {"none", "owned", "stopping"} /\ netOk \in BOOLEAN
    /\ attempt \in 0..MaxAttempts /\ checks \in 0..(ReadinessAttempts - 1)
    /\ startPc \in {"none", "inputs", "device", "open", "readiness", "attach", "rollback"}
    /\ owned \in [Attempts -> {"none", "starting", "returned", "gone"}]
    /\ ready \in [Attempts -> BOOLEAN] /\ onDone \in [Attempts -> BOOLEAN]
    /\ undo \in [Attempts -> Seq(Kinds)]
    /\ stopPc \in [Attempts -> {"idle", "begin", "wait", "undo", "failed"}]
    /\ monitor \in [Attempts -> {"none", "check", "sleep", "ended"}]
    /\ failures \in [Attempts -> 0..HealthFailureThreshold]
    /\ canceled \subseteq Attempts /\ healthCanceled \subseteq Attempts /\ reported \subseteq Attempts
    /\ held \subseteq Attempts \X Kinds

\* active is set exactly while a Start runs or the manager owns a lease, which it
\* can stop: it never blocks the runtime for good, and never lets a second in.
ActiveIsOwed == active <=> \E g \in Attempts : owned[g] \in {"starting", "returned"}

\* So is the network.
NetworkIsOwed == network <=> mu = "prepare" \/ netPhase # "none"

\* Whatever exists is on the undo list of a lease that somebody will stop, in the
\* order in which it was acquired: what depends on another goes first.
OnUndoList ==
    /\ \A p \in held : p[2] \in ToSet(undo[p[1]]) /\ owned[p[1]] \in {"starting", "returned"}
    /\ \A g \in Attempts : undo[g] \in {<<>>, <<"scope">>, <<"scope", "device">>,
                                         <<"scope", "device", "attachment">>}

\* Native tunnel resources are process-wide: attempts never overlap.
OneAttempt == \A p, q \in held : p[1] = q[1]

\* The invariant of the runtime (Start, PrepareNetwork, lease.Stop): types, flags and
\* books, and one attempt at a time.
LifecycleInv == TypeOK /\ ActiveIsOwed /\ NetworkIsOwed /\ OnUndoList /\ OneAttempt

\* The monitor does not run on a transport that is being released.
MonitorFirst ==
    [][\A p \in held \ held' : monitor[p[1]] \in {"none", "ended"}]_vars

\* Every lease keeps the promise of RuntimeOwner.
LeasePhase(g) ==
    IF owned[g] \in {"none", "starting"} THEN "acquiring"
    ELSE IF owned[g] = "gone" THEN "released"
    ELSE IF stopPc[g] # "idle" THEN "stopping"
    ELSE IF ready[g] THEN "ready" ELSE "failed"
LeaseHolds(g) ==
    LET kinds == {k \in Kinds : <<g, k>> \in held}
    IN  IF kinds = {} THEN "nothing" ELSE IF kinds = Kinds THEN "all" ELSE "part"
Owner(g) == INSTANCE RuntimeOwner WITH phase <- LeasePhase(g), holds <- LeaseHolds(g)
LeaseKeepsPromise ==
    /\ \A g \in Attempts : Owner(g)!Init
    /\ [][\A g \in Attempts : Owner(g)!Next \/ UNCHANGED <<LeasePhase(g), LeaseHolds(g)>>]_vars

\* Start and every Stop return: neither waits for the lock that it holds itself.
LeaseCallsReturn ==
    /\ mu = "start" ~> mu # "start"
    /\ \A g \in Attempts : stopPc[g] # "idle" ~> stopPc[g] = "idle"
=============================================================================
