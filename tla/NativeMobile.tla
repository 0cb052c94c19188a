---------------------------- MODULE NativeMobile ----------------------------
(***************************************************************************)
(* The network owner on Android and iOS: PrepareNetwork acquires a tunnel  *)
(* from the platform's shell (mobilebinding), duplicates its descriptor    *)
(* into the packet engine and drops Go's copy (nativeRuntime); Stop takes  *)
(* the engine down and then gives the tunnel back.                         *)
(*                                                                         *)
(* Connect runs in a goroutine of its own and holds nativeRuntime.mu over  *)
(* native calls that cannot be interrupted.  A canceled PrepareNetwork     *)
(* therefore asks Connect to stop (CancelConnect), returns without it, and *)
(* leaves the cleanup to Stop.                                             *)
(*                                                                         *)
(* The caller is the session manager: one network at a time, stopped until *)
(* that succeeds.  The shell may be replaced at any time                   *)
(* (SetPlatformCallbacks).                                                 *)
(*                                                                         *)
(* Abstractions: texts, JSON and resolver answers are their outcomes; a    *)
(* Disconnect, which nothing can interrupt once it has the lock, is one    *)
(* step.                                                                   *)
(***************************************************************************)
EXTENDS Naturals, Sequences, SequencesExt, FiniteSets

CONSTANTS
    MaxNetworks,  \* bound: networks prepared
    MaxFailures,  \* bound: native cleanup calls that fail
    Shells, NoShell, \* PlatformCallbacks values, and nil
    Descriptors   \* numbers that the platform may return

ASSUME MobileAssumption ==
    /\ MaxNetworks \in Nat /\ MaxFailures \in Nat
    /\ NoShell \notin Shells

VARIABLES
    shell,          \* platformAdapter.callbacks
    tunnels,        \* tunnelFDs.open: <<number, network>>
    generation,     \* the last network prepared
    \* PrepareNetwork and the owner's lease
    preparePc, prepared, canceled, undo, stopPc, gone,
    \* its tunnelLease
    leaseShell, fd, closed, closeErr, released,
    \* its nativeRuntime
    state, engine, tunOwned, connectCanceled, connectPc, connectOk,
    held,           \* what exists natively: <<network, kind>>
    abandoned,      \* activeEngine is a handle that nobody has
    failures

leaseVars == <<leaseShell, fd, closed, closeErr, released>>
runtimeVars == <<state, engine, tunOwned, connectCanceled, connectPc, connectOk>>
ownerVars == <<preparePc, prepared, canceled, undo, stopPc, gone>>
vars == <<shell, tunnels, generation, abandoned, ownerVars, leaseVars, runtimeVars, held, failures>>

Networks == 1..MaxNetworks
Kinds == {"tunnel", "file", "engine"}

Init ==
    /\ shell \in Shells \cup {NoShell} /\ tunnels = {} /\ generation = 0
    /\ preparePc = [g \in Networks |-> "none"] /\ prepared = {} /\ canceled = {}
    /\ undo = [g \in Networks |-> <<>>] /\ stopPc = [g \in Networks |-> "idle"] /\ gone = {}
    /\ leaseShell = [g \in Networks |-> NoShell] /\ fd = [g \in Networks |-> NoShell]
    /\ closed = {} /\ closeErr = {} /\ released = {}
    /\ state = [g \in Networks |-> "IDLE"] /\ engine = {} /\ tunOwned = {}
    /\ connectCanceled = {} /\ connectPc = [g \in Networks |-> "none"] /\ connectOk = {}
    /\ held = {} /\ abandoned = FALSE /\ failures = 0

Push(g, entry) == undo' = [undo EXCEPT ![g] = Append(@, entry)]
MayFail == failures < MaxFailures
Failure == failures' = failures + 1

-----------------------------------------------------------------------------
(* PrepareNetwork *)

PrepareNetwork ==
    /\ generation < MaxNetworks /\ (generation > 0 => generation \in gone)
    /\ generation' = generation + 1
    /\ preparePc' = [preparePc EXCEPT ![generation + 1] = "acquire"]
    /\ UNCHANGED <<shell, tunnels, abandoned, prepared, canceled, undo, stopPc, gone, leaseVars,
                   runtimeVars, held, failures>>

Return(g) == preparePc' = [preparePc EXCEPT ![g] = "returned"]
AcquireFrame ==
    UNCHANGED <<shell, generation, abandoned, prepared, canceled, stopPc, gone, closed, closeErr, released,
                runtimeVars, failures>>

\* No shell, or it reports that it owns nothing: there is no lease.
AcquireNothing(g) ==
    /\ preparePc[g] = "acquire" /\ Return(g)
    /\ UNCHANGED <<tunnels, undo, leaseShell, fd, held>> /\ AcquireFrame

\* The shell could not finish and still owns something, or it may.
LeaseIfDone(g) == UNCHANGED <<undo, leaseShell>> \* fault: no lease with an error
LeaseWithError(g) == Push(g, "tunnel") /\ leaseShell' = [leaseShell EXCEPT ![g] = shell]
AcquirePending(g) ==
    /\ preparePc[g] = "acquire" /\ shell # NoShell /\ Return(g) /\ LeaseWithError(g)
    /\ held' \in {held, held \cup {<<g, "tunnel">>}}
    /\ UNCHANGED <<tunnels, fd>> /\ AcquireFrame

\* A descriptor whose number is not open in the process.  A number that is still
\* reserved is refused, and there is no lease.
OpenNumbers == {fd[p[1]] : p \in {q \in held : q[2] = "file"}}
Reserved(number) == \E entry \in tunnels : entry[1] = number
AcquireTunnel(g) ==
    /\ preparePc[g] = "acquire" /\ shell # NoShell
    /\ held' = held \cup {<<g, "tunnel">>, <<g, "file">>}
    /\ \E number \in Descriptors \ OpenNumbers :
         /\ fd' = [fd EXCEPT ![g] = number]
         /\ IF Reserved(number)
            THEN Return(g) /\ UNCHANGED <<tunnels, undo, leaseShell>>
            ELSE /\ tunnels' = tunnels \cup {<<number, g>>}
                 /\ Push(g, "tunnel") /\ leaseShell' = [leaseShell EXCEPT ![g] = shell]
                 /\ preparePc' = [preparePc EXCEPT ![g] = "resolver"]
    /\ AcquireFrame

\* ConfigureResolver; then the core, its cleanup entry and its Connect.
ConfigureResolver(g) ==
    /\ preparePc[g] = "resolver"
    /\ \/ Return(g) /\ UNCHANGED <<undo, connectPc>>
       \/ /\ g \notin canceled /\ Push(g, "core")
          /\ preparePc' = [preparePc EXCEPT ![g] = "await"]
          /\ connectPc' = [connectPc EXCEPT ![g] = "lock"]
    /\ UNCHANGED <<shell, tunnels, generation, abandoned, prepared, canceled, stopPc, gone, leaseVars, state,
                   engine, tunOwned, connectCanceled, connectOk, held, failures>>

\* connectContext: the result of Connect, or the cancellation, which does not wait.
WaitForConnect(g) == g \in canceled /\ connectPc[g] = "ended" \* fault: as on desktop
LeaveConnect(g) == g \in canceled
CancelConnect(g) == connectCanceled' = connectCanceled \cup {g}
ConnectContext(g) ==
    /\ preparePc[g] = "await" /\ Return(g)
    /\ \/ /\ connectPc[g] = "ended" /\ UNCHANGED connectCanceled
          /\ prepared' = IF g \in connectOk \ canceled THEN prepared \cup {g} ELSE prepared
       \/ LeaveConnect(g) /\ CancelConnect(g) /\ UNCHANGED prepared
    /\ UNCHANGED <<shell, tunnels, generation, abandoned, canceled, undo, stopPc, gone, leaseVars, state, engine,
                   tunOwned, connectPc, connectOk, held, failures>>

-----------------------------------------------------------------------------
(* nativeRuntime *)

\* tunnelLease.Close: once, and its error is remembered.
CloseFile(g, ok) ==
    /\ closed' = closed \cup {g}
    /\ closeErr' = IF g \in closed \/ ok THEN closeErr ELSE closeErr \cup {g}
CloseError(g, ok) == IF g \in closed THEN g \in closeErr ELSE ~ok
CloseOutcomes == IF MayFail THEN BOOLEAN ELSE {TRUE}
Counted(error) == failures' = IF error THEN failures + 1 ELSE failures

\* cleanupResourcesLocked, with the error that it returns.
CleanupResources(g, error) ==
    \/ /\ g \in engine /\ MayFail /\ Failure /\ error
       /\ UNCHANGED <<engine, tunOwned, closed, closeErr, held>>
    \/ /\ engine' = engine \ {g}
       /\ IF g \in tunOwned
          THEN \E ok \in CloseOutcomes :
                 /\ CloseFile(g, ok) /\ Counted(~ok /\ g \notin closed)
                 /\ tunOwned' = IF CloseError(g, ok) THEN tunOwned ELSE tunOwned \ {g}
                 /\ held' = held \ {<<g, "engine">>, <<g, "file">>}
                 /\ error = CloseError(g, ok)
          ELSE /\ held' = held \ {<<g, "engine">>} /\ ~error
               /\ UNCHANGED <<tunOwned, closed, closeErr, failures>>

ConnectTo(g, place) == connectPc' = [connectPc EXCEPT ![g] = place]
StateTo(g, s) == state' = [state EXCEPT ![g] = s]
ConnectFrame ==
    UNCHANGED <<shell, tunnels, generation, ownerVars, leaseShell, fd, released, connectCanceled>>

\* connectLocked, until its first native call.
NeverCanceled(g) == FALSE \* fault: only the later check is made
ConnectWasCanceled(g) == g \in connectCanceled
ConnectLock(g) ==
    /\ connectPc[g] = "lock" /\ state[g] = "IDLE"
    /\ IF ConnectWasCanceled(g)
       THEN StateTo(g, "FAILED") /\ ConnectTo(g, "ended") /\ UNCHANGED tunOwned
       ELSE StateTo(g, "PREPARING") /\ ConnectTo(g, "engine") /\ tunOwned' = tunOwned \cup {g}
    /\ UNCHANGED <<engine, connectOk, closed, closeErr, held, abandoned, failures>> /\ ConnectFrame

\* StartOwnedFDEngine may return an engine together with an error; it refuses a
\* second engine and a descriptor that is closed.  It may also panic: the handle it
\* has put in activeEngine by then, with the descriptor it duplicated, stays there,
\* the runtime has no engine to stop, and every later start is refused.
EngineBusy == abandoned \/ \E p \in held : p[2] = "engine"
Booked(g, exists, ok) == exists
ConnectEngine(g) ==
    /\ connectPc[g] = "engine"
    /\ \E exists, ok \in BOOLEAN :
         /\ ok => exists
         /\ exists => <<g, "file">> \in held /\ ~EngineBusy
         /\ held' = IF exists THEN held \cup {<<g, "engine">>} ELSE held
         /\ engine' = IF Booked(g, exists, ok) THEN engine \cup {g} ELSE engine
         /\ \/ ConnectTo(g, IF ok THEN "close" ELSE "fail") /\ UNCHANGED abandoned
            \/ ~exists /\ ConnectTo(g, "panic") /\ abandoned' \in {abandoned, ~EngineBusy \/ abandoned}
    /\ UNCHANGED <<state, tunOwned, connectOk, closed, closeErr, failures>> /\ ConnectFrame

\* The engine has its own descriptor: Go's is closed.
ConnectClose(g) ==
    /\ connectPc[g] = "close"
    /\ IF g \in connectCanceled
       THEN /\ ConnectTo(g, "fail")
            /\ UNCHANGED <<state, tunOwned, connectOk, closed, closeErr, held, failures>>
       ELSE \E ok \in CloseOutcomes :
              /\ CloseFile(g, ok) /\ Counted(~ok) /\ held' = held \ {<<g, "file">>}
              /\ IF ok THEN /\ tunOwned' = tunOwned \ {g} /\ StateTo(g, "CONNECTED")
                            /\ connectOk' = connectOk \cup {g} /\ ConnectTo(g, "ended")
                       ELSE ConnectTo(g, "fail") /\ UNCHANGED <<state, tunOwned, connectOk>>
    /\ UNCHANGED <<engine, abandoned>> /\ ConnectFrame

\* fail, or the recovery from a panic.
ConnectRollback(g) ==
    /\ connectPc[g] \in {"fail", "panic"} /\ ConnectTo(g, "ended")
    /\ \E error \in BOOLEAN :
         /\ CleanupResources(g, error)
         /\ StateTo(g, IF error \/ connectPc[g] = "fail" THEN "FAILED" ELSE "IDLE")
    /\ UNCHANGED <<connectOk, abandoned>> /\ ConnectFrame

-----------------------------------------------------------------------------
(* The owner's Stop *)

Stop(g) ==
    /\ preparePc[g] = "returned" /\ stopPc[g] = "idle" /\ g \notin gone
    /\ stopPc' = [stopPc EXCEPT ![g] = "undo"]
    /\ UNCHANGED <<shell, tunnels, generation, abandoned, preparePc, prepared, canceled, undo, gone, leaseVars,
                   runtimeVars, held, failures>>

UndoneFirst(g) == Head(undo[g]) \* fault
NextEntry(g) == Last(undo[g])
Undoing(g, entry) == stopPc[g] = "undo" /\ undo[g] # <<>> /\ NextEntry(g) = entry
Done(g) == undo' = [undo EXCEPT ![g] = Front(@)]
StopTo(g, place) == stopPc' = [stopPc EXCEPT ![g] = place]
StopFails(g) == StopTo(g, "idle") /\ prepared' = prepared \ {g} /\ UNCHANGED undo
StopFrame == UNCHANGED <<shell, generation, abandoned, preparePc, canceled>>

\* Disconnect waits for the lock; a Connect that has not begun is nothing to undo.
LockFree(g) == connectPc[g] \notin {"engine", "close", "fail", "panic"}
StopCore(g) ==
    /\ Undoing(g, "core") /\ LockFree(g)
    /\ IF state[g] = "IDLE"
       THEN /\ Done(g) /\ UNCHANGED <<stopPc, prepared, state, engine, tunOwned>>
            /\ UNCHANGED <<closed, closeErr, held, failures>>
       ELSE \E error \in BOOLEAN :
              /\ CleanupResources(g, error)
              /\ IF error THEN StateTo(g, "FAILED") /\ StopFails(g)
                 ELSE StateTo(g, "IDLE") /\ Done(g) /\ UNCHANGED <<stopPc, prepared>>
    /\ UNCHANGED <<gone, tunnels, leaseShell, fd, released, connectCanceled, connectPc, connectOk>>
    /\ StopFrame

\* tunnelLease.Release: the descriptor, then the tunnel.
StopTunnel(g) ==
    /\ Undoing(g, "tunnel")
    /\ IF g \in released
       THEN /\ IF g \in closeErr THEN StopFails(g)
               ELSE Done(g) /\ UNCHANGED <<stopPc, prepared>>
            /\ UNCHANGED <<closed, closeErr, held, failures>>
       ELSE \E ok \in IF g \in closed \/ fd[g] = NoShell THEN {TRUE} ELSE CloseOutcomes :
              /\ CloseFile(g, ok) /\ Counted(~ok) /\ held' = held \ {<<g, "file">>}
              /\ StopTo(g, "release") /\ UNCHANGED <<undo, prepared>>
    /\ UNCHANGED <<gone, tunnels, leaseShell, fd, released, runtimeVars>> /\ StopFrame

CurrentShell(g) == shell \* fault: whoever is registered now
ReleaseShell(g) == leaseShell[g]
Unreserved(g) == tunnels \ {<<fd[g], g>>}
\* The tunnel belongs to the shell that made it.
StopRelease(g) ==
    /\ stopPc[g] = "release"
    /\ \/ /\ MayFail /\ Failure /\ StopFails(g) /\ UNCHANGED <<tunnels, released, held>>
       \/ /\ ReleaseShell(g) # NoShell /\ UNCHANGED failures
          /\ held' = IF ReleaseShell(g) = leaseShell[g] THEN held \ {<<g, "tunnel">>} ELSE held
          /\ tunnels' = Unreserved(g) /\ released' = released \cup {g}
          /\ IF g \in closeErr THEN StopFails(g)
             ELSE Done(g) /\ StopTo(g, "undo") /\ UNCHANGED prepared
    /\ UNCHANGED <<gone, leaseShell, fd, closed, closeErr, runtimeVars>> /\ StopFrame

Stopped(g) ==
    /\ stopPc[g] = "undo" /\ undo[g] = <<>> /\ StopTo(g, "idle") /\ gone' = gone \cup {g}
    /\ UNCHANGED <<tunnels, prepared, undo, leaseVars, runtimeVars, held, failures>> /\ StopFrame

-----------------------------------------------------------------------------
(* The environment *)

EnvironmentFrame ==
    UNCHANGED <<tunnels, generation, abandoned, preparePc, prepared, undo, stopPc, gone, leaseVars, runtimeVars,
                held, failures>>
SetPlatformCallbacks(s) == shell' = s /\ UNCHANGED canceled /\ EnvironmentFrame
Cancel(g) ==
    /\ g = generation /\ g \notin canceled \cup gone /\ canceled' = canceled \cup {g}
    /\ UNCHANGED shell /\ EnvironmentFrame

PrepareStep(g) ==
    \/ AcquireNothing(g) \/ AcquirePending(g) \/ AcquireTunnel(g)
    \/ ConfigureResolver(g) \/ ConnectContext(g)
ConnectStep(g) == ConnectLock(g) \/ ConnectClose(g) \/ ConnectRollback(g)
StopStep(g) == StopCore(g) \/ StopTunnel(g) \/ StopRelease(g) \/ Stopped(g)

Next ==
    \/ PrepareNetwork
    \/ \E s \in Shells \cup {NoShell} : SetPlatformCallbacks(s)
    \/ \E g \in Networks :
          PrepareStep(g) \/ ConnectStep(g) \/ ConnectEngine(g) \/ Stop(g) \/ StopStep(g) \/ Cancel(g)

Spec == Init /\ [][Next]_vars

\* Goroutines are scheduled and callbacks return.  The start of the engine is a
\* native call without a deadline: nothing is assumed of it here.
Fairness ==
    \A g \in Networks : WF_vars(PrepareStep(g)) /\ WF_vars(ConnectStep(g)) /\ WF_vars(StopStep(g))
FairSpec == Spec /\ Fairness

-----------------------------------------------------------------------------
(* Properties *)

\* Every variable has its type.
TypeOK ==
    /\ shell \in Shells \cup {NoShell} /\ tunnels \subseteq Descriptors \X Networks
    /\ generation \in 0..MaxNetworks /\ failures \in 0..MaxFailures /\ abandoned \in BOOLEAN
    /\ preparePc \in [Networks -> {"none", "acquire", "resolver", "await", "returned"}]
    /\ stopPc \in [Networks -> {"idle", "undo", "release"}]
    /\ undo \in [Networks -> {<<>>, <<"tunnel">>, <<"tunnel", "core">>}]
    /\ leaseShell \in [Networks -> Shells \cup {NoShell}]
    /\ fd \in [Networks -> Descriptors \cup {NoShell}]
    /\ state \in [Networks -> {"IDLE", "PREPARING", "CONNECTED", "FAILED"}]
    /\ connectPc \in [Networks -> {"none", "lock", "engine", "close", "fail", "panic", "ended"}]
    /\ \A s \in {prepared, canceled, gone, closed, closeErr, released, engine, tunOwned,
                 connectCanceled, connectOk} : s \subseteq Networks
    /\ held \subseteq Networks \X Kinds

\* Whatever exists is in the books of an owner that will be stopped: an engine in
\* its runtime, a tunnel and a descriptor on the undo list.  Also a tunnel that
\* the shell returned with an error; and no number is ever refused.  Not meant is
\* what a panic inside the native start leaves (abandoned): nobody can stop it.
NothingUnowned ==
    \A p \in held :
        /\ p[1] \notin gone
        /\ IF p[2] = "engine" THEN p[1] \in engine /\ Last(undo[p[1]]) = "core"
           ELSE "tunnel" \in ToSet(undo[p[1]])

\* The invariant of the owner: types and books.
MobileInv == TypeOK /\ NothingUnowned

\* The tunnel is given back only after the engine and the descriptor are gone
\* (binding.go: "Go closes that descriptor before ReleaseTunnel").
TunnelLast ==
    [][\A p \in held \ held' : p[2] = "tunnel" => \A q \in held : q[1] = p[1] => q = p]_vars

\* The owner keeps the promise of RuntimeOwner, also when its Connect comes late.
OwnerPhase(g) ==
    IF g \in gone THEN "released"
    ELSE IF stopPc[g] # "idle" THEN "stopping"
    ELSE IF preparePc[g] # "returned" THEN "acquiring"
    ELSE IF g \in prepared THEN "ready" ELSE "failed"
OwnerHolds(g) ==
    LET kinds == {k \in Kinds : <<g, k>> \in held}
    IN  IF kinds = {} THEN "nothing" ELSE IF kinds = {"tunnel", "engine"} THEN "all" ELSE "part"
Owner(g) == INSTANCE RuntimeOwner WITH phase <- OwnerPhase(g), holds <- OwnerHolds(g)
MobileKeepsPromise ==
    /\ \A g \in Networks : Owner(g)!Init
    /\ [][\A g \in Networks : Owner(g)!Next \/ UNCHANGED <<OwnerPhase(g), OwnerHolds(g)>>]_vars

\* A canceled PrepareNetwork returns although the native start of the engine may
\* never do.
CancelReturns == \A g \in Networks :
    g \in canceled /\ preparePc[g] # "none" ~> preparePc[g] = "returned"

\* If native starts return and the manager repeats its Stop, every network is
\* released once its cleanup calls no longer fail, unless the close of a
\* descriptor reported an error.
NativeStartsReturn == \A g \in Networks : WF_vars(ConnectEngine(g))
ManagerRetries == \A g \in Networks : WF_vars(Stop(g))
RetriesRelease ==
    NativeStartsReturn /\ ManagerRetries
        => \A g \in Networks : preparePc[g] = "returned" ~> g \in gone \cup closeErr

\* lifecycle.go: "Failed entries stay in place so a later Stop can retry this
\* exact owner."  No exception is made for a descriptor.
RetriesSucceed ==
    NativeStartsReturn /\ ManagerRetries
        => \A g \in Networks : preparePc[g] = "returned" ~> g \in gone
=============================================================================
