---------------------------- MODULE NativeDesktop ----------------------------
(***************************************************************************)
(* One desktop network owner: the native runtime's Connect and Disconnect, *)
(* the run goroutine that acquires and holds the interface, the packet     *)
(* stack and the routing policy (internal.App), and the callers in         *)
(* sessionapi/runtime: PrepareNetwork, which gives up when the attempt is  *)
(* canceled, and the Stop of the owner it returned, which may be repeated. *)
(*                                                                         *)
(* An action is one critical section of nativeRuntime.mu or one native     *)
(* call.  An owner connects once, so generation is always 1.               *)
(*                                                                         *)
(* Abstractions:                                                           *)
(*  - a platform is the order its Run acquires in and its cleanup releases *)
(*    in; several routes, rules or addresses are one resource;             *)
(*  - a native call may fail for any reason, an expired cleanup deadline   *)
(*    included; an acquisition that fails may leave something behind;      *)
(*  - an error is TRUE; only whether there is one matters.                 *)
(***************************************************************************)
EXTENDS Sequences, SequencesExt

\* internal.App.Run of the three platforms.
Linux ==
    [acquire |-> <<"guard", "tun", "engine", "rules", "dns">>,
     plan |-> {"guard", "rules", "dns"}, cleanup |-> <<"engine", "plan", "tun">>]
MacOS ==
    [acquire |-> <<"physical", "engine", "routes", "dns">>,
     plan |-> {"physical", "routes", "dns"}, cleanup |-> <<"plan", "engine">>]
Windows ==
    [acquire |-> <<"engine", "routes">>,
     plan |-> {"routes"}, cleanup |-> <<"plan", "engine">>]

Resource == {"guard", "physical", "tun", "engine", "rules", "routes", "dns"}

VARIABLES
    platform,      \* which build this is
    \* nativeRuntime
    state, done,   \* done: is the done channel set (and cancel with it)?
    doneClosed,    \* the channel itself: closed after finishRun
    coreCanceled,  \* cancel() was called
    locked,        \* mu is held over a whole Close
    \* internal.App and its routing plan
    cleanup, cleanupErr,
    leases,        \* Plan.leases
    held,          \* native resources that exist
    \* the run goroutine
    runPc, acquired, runErr,
    initResult,    \* the channel: "empty", "ok", "error", "taken"
    \* Connect
    connectPc, connectErr,
    \* PrepareNetwork, and Stop of the owner
    canceled,      \* the attempt's context
    linked,        \* its cancellation still reaches the network context
    netCanceled,   \* the network context
    preparePc, prepared,
    stopping,
    disconnect     \* caller of Disconnect -> where it is

appVars == <<cleanup, cleanupErr, leases, held>>
coreVars == <<state, done, coreCanceled>>
runVars == <<runPc, acquired, runErr, doneClosed, initResult>>
connectVars == <<connectPc, connectErr>>
prepareVars == <<canceled, linked, netCanceled, preparePc, prepared, stopping>>
vars == <<platform, coreVars, locked, appVars, runVars, connectVars, prepareVars, disconnect>>

Callers == {"prepare", "stop"}
RunCanceled == netCanceled \/ coreCanceled

Init ==
    /\ platform \in {Linux, MacOS, Windows}
    /\ state = "IDLE" /\ done = FALSE /\ doneClosed = FALSE
    /\ coreCanceled = FALSE /\ locked = FALSE
    /\ cleanup = <<>> /\ cleanupErr = FALSE /\ leases = <<>> /\ held = {}
    /\ runPc = "none" /\ acquired = 0 /\ runErr = FALSE /\ initResult = "empty"
    /\ connectPc = "start" /\ connectErr = FALSE
    /\ canceled = FALSE /\ linked = TRUE /\ netCanceled = FALSE
    /\ preparePc = "wait" /\ prepared = "acquiring" /\ stopping = FALSE
    /\ disconnect = [c \in Callers |-> "idle"]

-----------------------------------------------------------------------------
(* internal.App *)

\* The first result stays in the channel.
SignalInit(result) ==
    initResult' = IF initResult = "empty" THEN result ELSE initResult

\* Close holds its lock over all entries; what failed stays first.  One step of
\* it: a routing lease, or a whole entry.
CloseFirst == held' = held \ {Head(leases)} /\ leases' = Tail(leases) \* fault
CloseLast == held' = held \ {Last(leases)} /\ leases' = Front(leases)

CloseLease ==
    /\ cleanup # <<>> /\ Head(cleanup) = "plan" /\ leases # <<>>
    /\ CloseLast /\ UNCHANGED <<cleanup, cleanupErr>>
CloseEntry ==
    /\ cleanup # <<>> /\ (Head(cleanup) = "plan" => leases = <<>>)
    /\ held' = held \ {Head(cleanup)} /\ cleanup' = Tail(cleanup)
    /\ UNCHANGED <<cleanupErr, leases>>
CloseFails ==
    /\ cleanup # <<>> /\ cleanupErr' = TRUE
    /\ UNCHANGED <<cleanup, leases, held>>
CloseDone ==
    /\ cleanup = <<>> /\ cleanupErr' = FALSE
    /\ UNCHANGED <<cleanup, leases, held>>

RunFrame == UNCHANGED <<platform, coreVars, locked, connectVars, prepareVars, disconnect, doneClosed>>

RunFail ==
    /\ SignalInit("error") /\ runErr' = TRUE /\ runPc' = "cleanup" /\ UNCHANGED acquired

\* Everything before setCleanup owns nothing: recovery of an older process's
\* rules, the physical interface and its resolver.
RunBegin ==
    /\ runPc = "begin"
    /\ \/ RunFail /\ UNCHANGED appVars
       \/ /\ cleanup' = platform.cleanup /\ runPc' = "acquire"
          /\ UNCHANGED <<cleanupErr, leases, held, acquired, runErr, initResult>>
    /\ RunFrame

\* Ownership is recorded before the native call, so a call that fails half-way
\* leaves nothing that cleanup does not know.
RecordedOnSuccess(r, exists, ok) == r \in platform.plan /\ ok \* fault
Recorded(r, exists, ok) == r \in platform.plan /\ exists

RunAcquire ==
    /\ runPc = "acquire" /\ acquired < Len(platform.acquire)
    /\ LET r == platform.acquire[acquired + 1]
       IN  \E exists, ok \in BOOLEAN :
             /\ ok => exists
             /\ held' = IF exists THEN held \cup {r} ELSE held
             /\ leases' = IF Recorded(r, exists, ok) THEN Append(leases, r) ELSE leases
             /\ IF ok THEN acquired' = acquired + 1 /\ UNCHANGED <<runPc, runErr, initResult>>
                      ELSE RunFail
             /\ UNCHANGED <<cleanup, cleanupErr>>
    /\ RunFrame

RunReady ==
    /\ runPc = "acquire" /\ acquired = Len(platform.acquire)
    /\ SignalInit("ok") /\ runPc' = "maintain"
    /\ UNCHANGED <<acquired, runErr, appVars>> /\ RunFrame

\* The maintenance loop ends only with the context, without an error.
RunCancel ==
    /\ runPc = "maintain" /\ RunCanceled
    /\ runPc' = "cleanup" /\ UNCHANGED <<acquired, runErr, initResult, appVars>> /\ RunFrame

\* finishCleanup, deferred: it runs when Run returns or panics.
RunCleanup ==
    /\ runPc = "cleanup"
    /\ \/ (CloseLease \/ CloseEntry) /\ UNCHANGED <<runPc, runErr>>
       \/ CloseFails /\ runPc' = "finish" /\ runErr' = TRUE
       \/ CloseDone /\ runPc' = "finish" /\ UNCHANGED runErr
    /\ UNCHANGED <<acquired, initResult>> /\ RunFrame

\* finishRun, and then close(done).
FinishRun ==
    /\ runPc = "finish" /\ ~locked
    /\ state' = IF state = "STOPPING" /\ ~runErr THEN "IDLE" ELSE "FAILED"
    /\ done' = FALSE /\ runPc' = "close"
    /\ UNCHANGED <<coreCanceled, platform, locked, appVars, acquired, runErr,
                   doneClosed, initResult, connectVars, prepareVars, disconnect>>
RunClose ==
    /\ runPc = "close" /\ doneClosed' = TRUE /\ runPc' = "ended"
    /\ UNCHANGED <<platform, coreVars, locked, appVars, acquired, runErr, initResult,
                   connectVars, prepareVars, disconnect>>

-----------------------------------------------------------------------------
(* Connect *)

ConnectFrame == UNCHANGED <<platform, locked, appVars, prepareVars, disconnect>>

ConnectBegin ==
    /\ connectPc = "start" /\ ~locked /\ state = "IDLE"
    /\ state' = "PREPARING" /\ done' = TRUE
    /\ runPc' = "begin" /\ connectPc' = "select"
    /\ UNCHANGED <<coreCanceled, acquired, runErr, doneClosed, initResult, connectErr>>
    /\ ConnectFrame

\* Whatever is ready may be taken: the result, the context, the 30 s timer.
ConnectSelect ==
    /\ connectPc = "select"
    /\ \/ /\ initResult \in {"ok", "error"}
          /\ connectPc' = IF initResult = "ok" THEN "publish" ELSE "stopFailed"
          /\ initResult' = "taken"
       \/ RunCanceled /\ connectPc' = "stopCanceled" /\ UNCHANGED initResult
       \/ connectPc' = "stopFailed" /\ UNCHANGED initResult
    /\ UNCHANGED <<coreVars, runPc, acquired, runErr, doneClosed, connectErr>>
    /\ ConnectFrame

ConnectPublish ==
    /\ connectPc = "publish" /\ ~locked
    /\ connectPc' = "returned"
    /\ IF state = "PREPARING" THEN state' = "CONNECTED" /\ connectErr' = FALSE
                              ELSE connectErr' = TRUE /\ UNCHANGED state
    /\ UNCHANGED <<done, coreCanceled, runVars>> /\ ConnectFrame

\* stopAndWait: a run that has ended left no channel to wait for.
StopAndWait ==
    /\ connectPc \in {"stopFailed", "stopCanceled"} /\ ~locked
    /\ state' = "STOPPING" /\ coreCanceled' = (coreCanceled \/ done)
    /\ connectPc' = IF connectPc = "stopFailed" THEN "waitFailed" ELSE "waitCanceled"
    /\ UNCHANGED <<done, runVars, connectErr>> /\ ConnectFrame

\* The wait ends with the channel, or with the cleanup deadline.  After an
\* initialization error or timeout the runtime then is FAILED; after a
\* cancellation Connect just returns.
ConnectReturns ==
    /\ connectPc \in {"waitFailed", "waitCanceled"}
    /\ IF connectPc = "waitFailed" THEN ~locked /\ state' = "FAILED" ELSE UNCHANGED state
    /\ connectPc' = "returned" /\ connectErr' = TRUE
    /\ UNCHANGED <<done, coreCanceled, runVars>> /\ ConnectFrame

-----------------------------------------------------------------------------
(* Disconnect *)

Return(c, result) == disconnect' = [disconnect EXCEPT ![c] = result]
DisconnectFrame == UNCHANGED <<platform, runVars, connectVars, prepareVars>>

StoppingIsDone == state \in {"IDLE", "STOPPING"} \* fault: a running stop is success
AlreadyIdle == state = "IDLE"

DisconnectBegin(c) ==
    /\ disconnect[c] = "begin" /\ ~locked
    /\ \/ AlreadyIdle /\ Return(c, "ok") /\ UNCHANGED <<coreVars, locked>>
       \/ ~AlreadyIdle /\ state = "STOPPING" /\ Return(c, "failed") /\ UNCHANGED <<coreVars, locked>>
       \/ /\ state = "FAILED" /\ ~done
          /\ Return(c, "close") /\ locked' = TRUE /\ UNCHANGED coreVars
       \/ /\ state \in {"PREPARING", "CONNECTED", "FAILED"} /\ done
          /\ state' = "STOPPING" /\ coreCanceled' = TRUE
          /\ Return(c, "wait") /\ UNCHANGED <<done, locked>>
    /\ UNCHANGED appVars /\ DisconnectFrame

KeptOnError(ok) == ~ok \* fault: an early return forgets to unlock
LockedAfter(ok) == FALSE

\* A retry releases the remaining entries itself, under mu.
DisconnectClose(c) ==
    /\ disconnect[c] = "close"
    /\ \/ (CloseLease \/ CloseEntry) /\ UNCHANGED <<state, locked, disconnect>>
       \/ CloseFails /\ locked' = LockedAfter(FALSE) /\ Return(c, "failed") /\ UNCHANGED state
       \/ CloseDone /\ locked' = LockedAfter(TRUE) /\ Return(c, "ok") /\ state' = "IDLE"
    /\ UNCHANGED <<done, coreCanceled>> /\ DisconnectFrame

CleanupError == cleanupErr

DisconnectWait(c) ==
    /\ disconnect[c] = "wait"
    /\ \/ doneClosed /\ Return(c, IF CleanupError THEN "failed" ELSE "idle?")
       \/ Return(c, "failed") \* the cleanup deadline
    /\ UNCHANGED <<coreVars, locked, appVars>> /\ DisconnectFrame
DisconnectIdle(c) ==
    /\ disconnect[c] = "idle?" /\ ~locked
    /\ state' = "IDLE" /\ Return(c, "ok")
    /\ UNCHANGED <<done, coreCanceled, locked, appVars>> /\ DisconnectFrame

-----------------------------------------------------------------------------
(* PrepareNetwork and Stop of the network owner *)

OwnerFrame == UNCHANGED <<platform, coreVars, locked, appVars, runVars, connectVars>>

\* The attempt is canceled while its network is prepared.
Cancel ==
    /\ prepared = "acquiring" /\ ~canceled /\ canceled' = TRUE
    /\ UNCHANGED <<linked, netCanceled, preparePc, prepared, stopping, disconnect>> /\ OwnerFrame
Propagate ==
    /\ canceled /\ linked /\ netCanceled' = TRUE /\ linked' = FALSE
    /\ UNCHANGED <<canceled, preparePc, prepared, stopping, disconnect>> /\ OwnerFrame

\* connectContext: a canceled start is disconnected, but never left before
\* Connect has returned.
ConnectContext ==
    /\ preparePc = "wait" /\ preparePc' \in {"settled", "canceled"}
    /\ IF preparePc' = "settled" THEN connectPc = "returned" /\ UNCHANGED disconnect
                                 ELSE netCanceled /\ Return("prepare", "begin")
    /\ UNCHANGED <<canceled, linked, netCanceled, prepared, stopping>> /\ OwnerFrame

ConnectAwaited == disconnect["prepare"] \in {"ok", "failed"} /\ connectPc = "returned"

ConnectResult ==
    /\ preparePc = "canceled" /\ ConnectAwaited
    /\ preparePc' = "settled" /\ Return("prepare", "done")
    /\ UNCHANGED <<canceled, linked, netCanceled, prepared, stopping>> /\ OwnerFrame

\* acquisitionDone, and the check of the attempt's context after it.
Unlink ==
    /\ preparePc = "settled" /\ preparePc' = "check"
    /\ linked' = (linked /\ canceled)
    /\ UNCHANGED <<canceled, netCanceled, prepared, stopping, disconnect>> /\ OwnerFrame

Acquired == ~connectErr /\ disconnect["prepare"] = "idle" /\ ~canceled

PrepareNetwork ==
    /\ preparePc = "check" /\ preparePc' = "returned"
    /\ prepared' = IF Acquired THEN "ready" ELSE "failed"
    /\ UNCHANGED <<canceled, linked, netCanceled, stopping, disconnect>> /\ OwnerFrame

\* lease.Stop: its entry disconnects and then cancels the network context; it is
\* dropped only when that succeeded.
Stop ==
    /\ prepared \in {"ready", "failed"} /\ ~stopping
    /\ stopping' = TRUE /\ Return("stop", "begin")
    /\ UNCHANGED <<canceled, linked, netCanceled, preparePc, prepared>> /\ OwnerFrame
StopReturns ==
    /\ stopping /\ disconnect["stop"] \in {"ok", "failed"}
    /\ netCanceled' = TRUE /\ stopping' = FALSE
    /\ prepared' = IF disconnect["stop"] = "ok" THEN "released" ELSE "failed"
    /\ Return("stop", "idle")
    /\ UNCHANGED <<canceled, linked, preparePc>> /\ OwnerFrame

-----------------------------------------------------------------------------
RunStep ==
    \/ RunBegin \/ RunAcquire \/ RunReady \/ RunCancel \/ RunCleanup \/ FinishRun \/ RunClose
ConnectStep == ConnectBegin \/ ConnectSelect \/ ConnectPublish \/ StopAndWait \/ ConnectReturns
DisconnectStep(c) ==
    DisconnectBegin(c) \/ DisconnectClose(c) \/ DisconnectWait(c) \/ DisconnectIdle(c)
PrepareStep == Propagate \/ ConnectContext \/ ConnectResult \/ Unlink \/ PrepareNetwork

Next ==
    \/ RunStep \/ ConnectStep \/ PrepareStep
    \/ \E c \in Callers : DisconnectStep(c)
    \/ Cancel \/ Stop \/ StopReturns

Spec == Init /\ [][Next]_vars

\* Every goroutine is scheduled and every native call returns.
Fairness ==
    /\ WF_vars(RunStep) /\ WF_vars(ConnectStep) /\ WF_vars(PrepareStep) /\ WF_vars(StopReturns)
    /\ \A c \in Callers : WF_vars(DisconnectStep(c))
FairSpec == Spec /\ Fairness

-----------------------------------------------------------------------------
(* Properties *)

\* Every variable has its type; in particular a cleanup error names an entry that
\* is still to be released.
TypeOK ==
    /\ platform \in {Linux, MacOS, Windows}
    /\ state \in {"IDLE", "PREPARING", "CONNECTED", "STOPPING", "FAILED"}
    /\ {done, doneClosed, coreCanceled, locked, cleanupErr, runErr, connectErr} \subseteq BOOLEAN
    /\ {canceled, linked, netCanceled, stopping} \subseteq BOOLEAN
    /\ cleanup \in Seq({"plan", "engine", "tun"}) /\ leases \in Seq(platform.plan)
    /\ held \subseteq ToSet(platform.acquire) 
    /\ cleanupErr /\ ~locked /\ runPc # "cleanup" => cleanup # <<>>
    /\ runPc \in {"none", "begin", "acquire", "maintain", "cleanup", "finish", "close", "ended"}
    /\ acquired \in 0..Len(platform.acquire)
    /\ initResult \in {"empty", "ok", "error", "taken"}
    /\ connectPc \in {"start", "select", "publish", "stopFailed", "stopCanceled",
                      "waitFailed", "waitCanceled", "returned"}
    /\ preparePc \in {"wait", "canceled", "settled", "check", "returned"}
    /\ prepared \in {"acquiring", "ready", "failed", "released"}
    /\ disconnect \in [Callers -> {"idle", "begin", "close", "wait", "idle?", "ok", "failed", "done"}]

\* The owner keeps the promise of RuntimeOwner, whatever races Connect, the run
\* goroutine, the cancellation and a repeated Stop come to: ready means that
\* everything is held, released that nothing is and nothing will be.
Owner == INSTANCE RuntimeOwner WITH
    phase <- IF stopping THEN "stopping" ELSE prepared,
    holds <- IF held = {} THEN "nothing"
             ELSE IF held = ToSet(platform.acquire) THEN "all" ELSE "part"
KeepsPromise == Owner!Spec

\* Cleanup knows of everything that exists, also of what a failed acquisition
\* left behind, and still does after any number of failed retries.
NothingForgotten ==
    \A r \in held :
        \/ r \in ToSet(cleanup)
        \/ r \in ToSet(leases) /\ "plan" \in ToSet(cleanup)

\* The invariant of the owner: types and books.
DesktopInv == TypeOK /\ NothingForgotten

\* No resource is released while another one uses it: the routing policy points
\* at the interface and is guarded, and the packet stack reads the interface.
UsersGoFirst ==
    /\ "rules" \in held => {"guard", "tun"} \subseteq held
    /\ "routes" \in held => "engine" \in held
    /\ "routes" \in held /\ platform = MacOS => "physical" \in held
    /\ "dns" \in held => held \cap {"rules", "routes"} # {}
    /\ "engine" \in held /\ platform = Linux => "tun" \in held

\* Nobody is inside Connect or Disconnect and the run goroutine is gone.
Quiet ==
    /\ runPc \in {"none", "ended"} /\ connectPc = "returned" /\ preparePc = "returned"
    /\ disconnect["stop"] = "idle"

\* lifecycle.go: "Failed entries stay in place so a later Stop can retry this
\* exact owner."  Once all is quiet, a Stop is not turned away as busy.
RetryReachesOwner == Quiet => state # "STOPPING"

\* PrepareNetwork returns, and so does every Stop, whatever they wait for.
CallsReturn == <>(prepared # "acquiring") /\ (stopping ~> ~stopping)
=============================================================================
