------------------------------- MODULE Session -------------------------------
(***************************************************************************)
(* The session manager of core/sessionapi: the one owner of the VPN        *)
(* session.  Clients configure it, start, replace and stop connections; an *)
(* attempt worker (a goroutine) acquires the native resources, watches the *)
(* connection's health and releases what it acquired; the operating system *)
(* shuts it down, resumes it and restores the last selection.              *)
(*                                                                         *)
(* Every action is one critical section of session.mu, or one call that a  *)
(* worker makes outside it (a platform, runtime or closer call).           *)
(*                                                                         *)
(* Abstractions:                                                           *)
(*  - an inventory of profiles is its digest; ProfileCount gives its size; *)
(*  - a start target is 0 for AUTO_SELECT and i for profile index i - 1;   *)
(*  - the event sequence number is only ever compared for equality with    *)
(*    the last one a caller saw, so `current' is the set of callers whose  *)
(*    expected sequence still is the session's: every appendLocked empties *)
(*    it.  A client that presents an old sequence is refused without       *)
(*    effect, so plain requests are modelled with the current one;         *)
(*  - configureRequest, compared in the same way, is the last caller that  *)
(*    incremented it;                                                      *)
(*  - a request that is refused, canceled, or that fails before it changed *)
(*    anything is a stuttering step, and Abort when it ends a long call;   *)
(*  - a nil ledger, selection or digest is None; an error is its code.     *)
(***************************************************************************)
EXTENDS Naturals, Sequences

CONSTANTS
    None,               \* absence: nil
    Slots,              \* goroutines that can be alive at once
    Callers,            \* clients with a long request (a load) in flight
    Digests,            \* profile inventories a configuration source can yield
    ProfileCount,       \* digest -> number of profiles
    SourceKinds,        \* kinds of source clients submit: "URL", "RAW"
    AutoRecoveryLimit,  \* api.go autoRecoveryLimit (3)
    MaxGeneration,      \* bound: no attempt that could exceed it is begun
    Requests            \* which requests the environment makes

ASSUME SlotsAssumption == Slots # {} /\ None \notin Slots
ASSUME ProfileAssumption == ProfileCount \in [Digests -> Nat \ {0}]
ASSUME KindsAssumption == SourceKinds \subseteq {"URL", "RAW"}
ASSUME BoundsAssumption == AutoRecoveryLimit \in Nat /\ MaxGeneration \in Nat

\* The session struct.
VARIABLES
    state, generation,      \* published state and attempt number
    stopRequested, closing, \* a Stop, a shutdown fences new work
    cleanupDone,            \* nothing native is owned
    cleanupFailed,          \* a closer failed; only Stop may go on
    cancel,                 \* the worker whose context s.cancel ends, or None
    ledger,                 \* closers of the attempt, or None
    networkGeneration, networkLedger, vpnActive, \* the protection: tunnel and network
    startOrigin, switchOrigin, recoveryOrigin,   \* older generations Stop accepts
    recovering, recoveryCount, restartAfterCleanup, failureAfterCleanup,
    digest, sourceKind, configureRequest,        \* the loaded inventory
    activeDigest, activeTarget, active,          \* the selection in force
    pending,                \* the selection that replaces it, or None
    lastFailure

\* Goroutines running runStart or finish: their place and their locals.
VARIABLES pc, wgen, wtarget, windex, cause, canceled

\* Requests in flight, the store, and what the model adds.
VARIABLES
    phase,         \* caller -> where its Configure, Start or Restore is
    saved,         \* caller -> the activation its Restore has read, or None
    configured,    \* caller -> the digest its own Configure returned, or None
    current,       \* callers whose expected sequence is still the session's
    activation,    \* the persisted selection (ActivationStore), or None
    storedSource,  \* is an accepted configuration URL persisted (SourceStore)?
    held,          \* native resources that exist (the truth, not the books)
    known          \* the generation clients last learnt from a Start result or
                   \* a CONNECTED snapshot

netVars == <<networkGeneration, networkLedger, vpnActive>>
originVars == <<startOrigin, switchOrigin, recoveryOrigin>>
recoveryVars == <<recovering, recoveryCount, restartAfterCleanup, failureAfterCleanup>>
configVars == <<digest, sourceKind, configureRequest>>
selectionVars == <<activeDigest, activeTarget, active, pending>>
cleanupVars == <<cleanupDone, cleanupFailed>>
fenceVars == <<stopRequested, closing>>
workerVars == <<pc, wgen, wtarget, windex, cause, canceled>>
callVars == <<phase, saved, configured>>
storeVars == <<activation, storedSource>>

sessionVars == <<state, generation, cancel, ledger, lastFailure, fenceVars,
                 cleanupVars, netVars, originVars, recoveryVars, configVars,
                 selectionVars>>
vars == <<sessionVars, workerVars, callVars, current, storeVars, held, known>>

-----------------------------------------------------------------------------
(* Types *)

State == {"IDLE", "CONFIGURED", "PROBING", "PREPARING", "CONNECTED",
          "STOPPING", "FAILED"}

\* Failure codes the lifecycle tells apart; "" is a nil error.
Code == {"", "RUNTIME_FAILED", "PLATFORM_FAILED", "PROBE_FAILED", "CANCELED",
         "CLEANUP_FAILED", "INTERNAL"}

\* A native resource and the generation it was acquired for.
Resource == [kind : {"tunnel", "network", "lease"}, gen : Nat]
Ledger == Seq(Resource) \cup {None}
ASSUME NoneAssumption == None \notin Callers \cup Digests \cup Seq(Resource)

AutoSelect == 0
Targets == UNION {0..ProfileCount[d] : d \in Digests}
Selection == [target : Nat, digest : Digests]
Activation == [enabled : BOOLEAN, target : Nat, digest : Digests]
ASSUME SelectionAssumption == None \notin Selection \cup Activation

\* Where a goroutine is: in runStart, in finish, or not running.  The two
\* commit places differ in finish's local releaseNetwork.
AcquirePc == {"prepare", "network", "activate", "activated", "candidate",
              "advance", "start", "connect", "wait", "rollback"}
FinishPc == {"finish", "retireAttempt", "decide", "retireNetwork",
             "commitKept", "commitReleased"}
Pc == {"none"} \cup AcquirePc \cup FinishPc

Phase == {"idle", "load", "sourceLoad", "sourceStart", "restoreRead",
          "serviceRead", "restoreConfigure", "restoreLoad", "restoreStart"}

-----------------------------------------------------------------------------
(* Predicates of api.go *)

AttemptActive == state \in {"PROBING", "PREPARING", "CONNECTED", "STOPPING"}

ConfigurationBlocked ==
    \/ closing \/ pending # None \/ recovering \/ AttemptActive
    \/ ~cleanupDone \/ cleanupFailed

CanSwitch ==
    /\ ~closing /\ state = "CONNECTED" /\ ~recovering
    /\ pending = None /\ ~cleanupFailed

CanRetryDirty == \* fault: a failed cleanup may be retried by Start
    ~closing /\ state = "FAILED" /\ vpnActive /\ ledger = None
CanRetry ==
    /\ ~closing /\ state = "FAILED" /\ vpnActive
    /\ ~cleanupFailed /\ ledger = None

RetryableCleanup ==
    state = "FAILED" /\ cleanupFailed /\ (ledger # None \/ networkLedger # None)

AcceptsStopExact(g) == g # 0 /\ g = generation \* fault: no older generation
AcceptsStop(g) ==
    /\ g # 0
    /\ \/ g = generation
       \/ recovering /\ g = recoveryOrigin
       \/ g = switchOrigin
       \/ g = startOrigin

ValidateStartTarget(target) == target <= ProfileCount[digest]

\* The check Configure makes before and again after loading.
ConfigureAllowed == ~cleanupFailed /\ (closing => cleanupDone)

\* What the user interface offers as its main button.
PrimaryAction ==
    IF CanRetry THEN "RETRY"
    ELSE IF \/ state = "FAILED" /\ cleanupFailed
            \/ pending # None
            \/ state \in {"PROBING", "PREPARING", "CONNECTED"}
            \/ recovering THEN "STOP"
    ELSE IF state # "STOPPING" /\ cleanupDone /\ ~cleanupFailed THEN "START"
    ELSE "NONE"

-----------------------------------------------------------------------------
(* Helpers *)

\* Closers run last in, first out.
Closers(l) == IF l = None THEN <<>> ELSE l
Top(l) == l[Len(l)]
Pop(l) == SubSeq(l, 1, Len(l) - 1)
Owned(l) == {Closers(l)[i] : i \in 1..Len(Closers(l))}

\* appendLocked publishes a new sequence number.
AppendLocked == current' = {}

\* s.cancel(): the context of the goroutine it was made for is done.
CancelForgotten == UNCHANGED canceled \* fault
Cancel == canceled' = canceled \cup ({cancel} \ {None})

\* `go': a goroutine in slot w, with its context.
Spawn(w, place, g, target, error) ==
    /\ pc' = [pc EXCEPT ![w] = place]
    /\ wgen' = [wgen EXCEPT ![w] = g]
    /\ wtarget' = [wtarget EXCEPT ![w] = target]
    /\ windex' = [windex EXCEPT ![w] = 0]
    /\ cause' = [cause EXCEPT ![w] = error]
    /\ canceled' = canceled \ {w}

Exit(w) == Spawn(w, "none", 0, 0, "")
Running(w) == pc[w] # "none"
FreeSlot == CHOOSE w \in Slots : ~Running(w)

\* Worker w goes on at a place of runStart or finish, or calls finish.
Goto(w, place) ==
    pc' = [pc EXCEPT ![w] = place] /\ UNCHANGED <<wgen, wtarget, windex, cause, canceled>>
Finish(w, error) ==
    /\ pc' = [pc EXCEPT ![w] = "finish"]
    /\ cause' = [cause EXCEPT ![w] = error]
    /\ UNCHANGED <<wgen, wtarget, windex, canceled>>

\* No attempt is begun that could need more than MaxGeneration generations.
Room(d) == generation + ProfileCount[d] <= MaxGeneration

-----------------------------------------------------------------------------
(* Initial state: NewManager.  The store holds what an earlier process saved; *)
(* only Restore looks at it.                                                  *)

SavedActivations == {a \in [enabled : BOOLEAN, target : Targets, digest : Digests] :
                        a.target <= ProfileCount[a.digest]}

Init ==
    /\ storedSource \in BOOLEAN
    /\ activation \in {None} \cup SavedActivations
    /\ Requests \cap {"restore", "serviceRestore"} = {}
          => ~storedSource /\ activation = None
    /\ state = "IDLE" /\ generation = 0
    /\ stopRequested = FALSE /\ closing = FALSE
    /\ cleanupDone = TRUE /\ cleanupFailed = FALSE
    /\ cancel = None /\ ledger = None
    /\ networkGeneration = 0 /\ networkLedger = None /\ vpnActive = FALSE
    /\ startOrigin = 0 /\ switchOrigin = 0 /\ recoveryOrigin = 0
    /\ recovering = FALSE /\ recoveryCount = 0
    /\ restartAfterCleanup = FALSE /\ failureAfterCleanup = ""
    /\ digest = None /\ sourceKind = (IF storedSource THEN "URL" ELSE "")
    /\ configureRequest = None
    /\ activeDigest = None /\ activeTarget = 0 /\ active = 0 /\ pending = None
    /\ lastFailure = ""
    /\ pc = [w \in Slots |-> "none"]
    /\ wgen = [w \in Slots |-> 0] /\ wtarget = [w \in Slots |-> 0]
    /\ windex = [w \in Slots |-> 0] /\ cause = [w \in Slots |-> ""]
    /\ canceled = {}
    /\ phase = [c \in Callers |-> "idle"] /\ saved = [c \in Callers |-> None]
    /\ configured = [c \in Callers |-> None]
    /\ current = {} /\ held = {} /\ known = 0

-----------------------------------------------------------------------------
(* Configure: validate, load outside the lock, accept *)

CallGoes(c, place) == phase' = [phase EXCEPT ![c] = place]
CallEnds(c) ==
    /\ CallGoes(c, "idle")
    /\ saved' = [saved EXCEPT ![c] = None]
    /\ configured' = [configured EXCEPT ![c] = None]

\* A client (or its Start with a source) passes the first validation.
ConfigureBegin(c, request, place) ==
    /\ request \in Requests
    /\ phase[c] = "idle"
    /\ ConfigureAllowed
    /\ configureRequest' = c
    /\ CallGoes(c, place)
    /\ UNCHANGED <<state, generation, cancel, ledger, lastFailure, fenceVars,
                   cleanupVars, netVars, originVars, recoveryVars, digest,
                   sourceKind, selectionVars, workerVars, saved, configured, current,
                   storeVars, held, known>>

\* Restore gives up a manual selection whose inventory changed.
RestoreByIndex(c, d) == saved[c].target \in 0..ProfileCount[d] \* fault
RestoreMatches(c, d) == saved[c].target = AutoSelect \/ d = saved[c].digest

\* Only a session that owns nothing forgets its last selection and failure.
ForgetSelection ==
    IF cleanupDone /\ ~cleanupFailed /\ ~recovering /\ pending = None
    THEN /\ state' = "CONFIGURED" /\ active' = 0 /\ lastFailure' = ""
         /\ activeDigest' = None /\ activeTarget' = 0
         /\ recoveryOrigin' = 0 /\ recoveryCount' = 0
    ELSE UNCHANGED <<state, active, lastFailure, activeDigest, activeTarget,
                     recoveryOrigin, recoveryCount>>

\* The loaded configuration is accepted unless a later request superseded it.
\* The store is written first; a Save or Clear that fails changes nothing.
\* Start with a source and Restore go on with the new sequence. 
ConfigureAccept(c) ==
    /\ phase[c] \in {"load", "sourceLoad", "restoreLoad"}
    /\ configureRequest = c
    /\ ConfigureAllowed
    /\ \E d \in Digests, kind \in SourceKinds \cup {"URL"} :
         LET restores == phase[c] = "restoreLoad" /\ RestoreMatches(c, d)
         IN  /\ phase[c] = "restoreLoad" => kind = "URL"
             /\ phase[c] # "restoreLoad" => kind \in SourceKinds
             /\ digest' = d /\ sourceKind' = kind
             /\ storedSource' = (kind = "URL")
             /\ IF phase[c] = "sourceLoad" \/ restores
                THEN /\ CallGoes(c, IF restores THEN "restoreStart" ELSE "sourceStart")
                     /\ configured' = [configured EXCEPT ![c] = d]
                     /\ UNCHANGED saved
                ELSE CallEnds(c)
             /\ current' = IF phase[c] = "sourceLoad" \/ restores THEN {c} ELSE {}
    /\ ForgetSelection
    /\ UNCHANGED <<generation, cancel, ledger, fenceVars, cleanupVars, netVars,
                   startOrigin, switchOrigin, recovering, restartAfterCleanup,
                   failureAfterCleanup, configureRequest, pending, workerVars,
                   activation, held, known>>

\* A request in flight fails: canceled, superseded, malformed, refused, stale.
Abort(c) ==
    /\ phase[c] # "idle"
    /\ CallEnds(c)
    /\ current' = current \ {c}
    /\ UNCHANGED <<sessionVars, workerVars, storeVars, held, known>>

-----------------------------------------------------------------------------
(* Start: retry, replace or begin *)

\* saveActivationLocked: only a selection from a URL is persisted.
SaveActivation(target) ==
    activation' = IF sourceKind = "URL"
                  THEN [enabled |-> TRUE, target |-> target, digest |-> digest]
                  ELSE activation

\* beginAttemptLocked and the runStart goroutine it is for, in slot w.
BeginAttempt(w, target) ==
    /\ generation' = generation + 1
    /\ cancel' = w /\ ledger' = <<>>
    /\ cleanupDone' = FALSE /\ cleanupFailed' = FALSE /\ stopRequested' = FALSE
    /\ active' = 0 /\ activeTarget' = target
    /\ restartAfterCleanup' = FALSE /\ failureAfterCleanup' = ""
    /\ state' = "PROBING"
    /\ Spawn(w, "prepare", generation + 1, target, "")
    /\ AppendLocked

\* retryLocked: the dormant selection is attempted again under the protection
\* that is still up.
Retry(target) ==
    /\ CanRetry
    /\ target = activeTarget
    /\ Room(activeDigest)
    /\ BeginAttempt(FreeSlot, target)
    /\ startOrigin' = generation + 1
    /\ recoveryCount' = 0 /\ recoveryOrigin' = 0
    /\ known' = generation + 1
    /\ UNCHANGED <<lastFailure, closing, netVars, switchOrigin, recovering,
                   configVars, activeDigest, pending, storeVars, held>>

\* replaceLocked: a connected session is asked to switch its target.
Replace(target) ==
    /\ ~CanRetry /\ ConfigurationBlocked
    /\ ValidateStartTarget(target)
    /\ CanSwitch
    /\ Room(digest)
    /\ SaveActivation(target)
    /\ pending' = [target |-> target, digest |-> digest]
    /\ switchOrigin' = generation
    /\ state' = "STOPPING"
    /\ Cancel
    /\ AppendLocked
    /\ known' = generation
    /\ UNCHANGED <<generation, cancel, ledger, lastFailure, fenceVars,
                   cleanupVars, netVars, startOrigin, recoveryOrigin,
                   recoveryVars, configVars, activeDigest, activeTarget, active,
                   pc, wgen, wtarget, windex, cause, storedSource, held>>

\* The direct path of Start: a new network and a new attempt.
Begin(target) ==
    /\ ~CanRetry /\ ~ConfigurationBlocked
    /\ ValidateStartTarget(target)
    /\ Room(digest)
    /\ SaveActivation(target)
    /\ BeginAttempt(FreeSlot, target)
    /\ activeDigest' = digest
    /\ networkGeneration' = networkGeneration + 1
    /\ networkLedger' = <<>> /\ vpnActive' = FALSE
    /\ startOrigin' = generation + 1 /\ switchOrigin' = 0 /\ recoveryOrigin' = 0
    /\ recovering' = FALSE /\ recoveryCount' = 0
    /\ lastFailure' = ""
    /\ known' = generation + 1
    /\ UNCHANGED <<closing, configVars, pending, storedSource, held>>

\* Start without a source, with the current sequence.
Start(target) ==
    /\ digest # None
    /\ \/ "retry" \in Requests /\ Retry(target)
       \/ "replace" \in Requests /\ Replace(target)
       \/ "start" \in Requests /\ Begin(target)
    /\ UNCHANGED callVars

\* Is the session's sequence still the one Configure returned to c?
SequenceIgnored(c) == TRUE \* fault
SequenceMatches(c) == c \in current

\* The rest of Start with a source: its Configure was accepted and nothing
\* changed the session since.  It never retries a dormant selection.
StartSource(c) ==
    /\ phase[c] = "sourceStart"
    /\ SequenceMatches(c) /\ digest # None
    /\ Replace(AutoSelect) \/ Begin(AutoSelect)
    /\ CallEnds(c)

-----------------------------------------------------------------------------
(* Restore: the operating system starts the last selection *)

\* First critical section.  A running session is returned as it is; one that
\* owns something, or has no source URL, is refused.  A service restart
\* (onlyPreviouslyEnabled) is told from an explicit activation.
RestoreBegin(c, request, place) ==
    /\ request \in Requests
    /\ phase[c] = "idle"
    /\ ~closing /\ cleanupDone /\ sourceKind = "URL"
    /\ CallGoes(c, place)
    /\ current' = current \cup {c}
    /\ UNCHANGED <<sessionVars, workerVars, saved, configured, storeVars, held, known>>

\* LoadActivation, outside the lock.
RestoreRead(c) ==
    /\ phase[c] \in {"restoreRead", "serviceRead"}
    /\ activation # None
    /\ phase[c] = "serviceRead" => activation.enabled
    /\ saved' = [saved EXCEPT ![c] = activation]
    /\ CallGoes(c, "restoreConfigure")
    /\ UNCHANGED <<sessionVars, workerVars, configured, current, storeVars, held, known>>

\* Configure with the sequence the first critical section saw.
RestoreConfigure(c) ==
    /\ phase[c] = "restoreConfigure"
    /\ SequenceMatches(c)
    /\ ConfigureAllowed
    /\ configureRequest' = c
    /\ CallGoes(c, "restoreLoad")
    /\ UNCHANGED <<state, generation, cancel, ledger, lastFailure, fenceVars,
                   cleanupVars, netVars, originVars, recoveryVars, digest,
                   sourceKind, selectionVars, workerVars, saved, configured, current,
                   storeVars, held, known>>

\* Start with the sequence and the digest Configure returned.  There is nothing
\* to retry: the session owned nothing when Restore began.
RestoreStart(c) ==
    /\ phase[c] = "restoreStart"
    /\ SequenceMatches(c) /\ digest = configured[c] /\ digest # None
    /\ Begin(saved[c].target)
    /\ CallEnds(c)

-----------------------------------------------------------------------------
(* Stop, StopAndWait, Resume *)

\* stopActivationLocked; a store failure does not hold up the Stop.
StopActivation ==
    \/ UNCHANGED activation
    \/ activation # None /\ activation' = [activation EXCEPT !.enabled = FALSE]

KeepRecovering == \* fault: the published flag stays
    restartAfterCleanup' = FALSE /\ recoveryOrigin' = 0 /\ UNCHANGED recovering
DropRecovery ==
    recovering' = FALSE /\ restartAfterCleanup' = FALSE /\ recoveryOrigin' = 0

\* What every accepted Stop does first.
StopAccepted(g) ==
    /\ "stop" \in Requests
    /\ AcceptsStop(g)
    /\ StopActivation
    /\ stopRequested' = TRUE /\ switchOrigin' = 0 /\ pending' = None
    /\ UNCHANGED <<generation, closing, cleanupDone, cancel, ledger, netVars,
                   startOrigin, recoveryCount, failureAfterCleanup, configVars,
                   activeDigest, activeTarget, active, lastFailure, callVars,
                   storedSource, held, known>>

\* A failed cleanup is retried, or a dormant protected session taken down, by
\* a finish goroutine of its own.
StopCleansUp(g) ==
    /\ StopAccepted(g)
    /\ \/ RetryableCleanup
       \/ state = "FAILED" /\ vpnActive /\ ~cleanupFailed
    /\ state' = "STOPPING" /\ cleanupFailed' = FALSE
    /\ Spawn(FreeSlot, "finish", generation, 0, "")
    /\ AppendLocked
    /\ UNCHANGED <<recovering, restartAfterCleanup, recoveryOrigin>>

\* acknowledgeStoppedLocked: nothing is running.  The state is refused as stale
\* when CONFIGURED; the requested stop and the store keep their new value.
StopAcknowledged(g) ==
    /\ StopAccepted(g)
    /\ ~AttemptActive /\ ~RetryableCleanup
    /\ ~(state = "FAILED" /\ vpnActive /\ ~cleanupFailed)
    /\ LET drops == /\ cleanupDone /\ ~cleanupFailed /\ state # "CONFIGURED"
                    /\ recovering \/ recoveryOrigin # 0
       IN  /\ IF drops THEN DropRecovery
              ELSE UNCHANGED <<recovering, restartAfterCleanup, recoveryOrigin>>
           /\ current' = IF drops \/ pending # None THEN {} ELSE current
    /\ UNCHANGED <<state, cleanupFailed, workerVars>>

\* The worker is told to end the attempt; it owns the cleanup.
StopAttempt(g) ==
    /\ StopAccepted(g)
    /\ AttemptActive
    /\ IF recovering \/ recoveryOrigin # 0 THEN DropRecovery
       ELSE UNCHANGED <<recovering, restartAfterCleanup, recoveryOrigin>>
    /\ state' = "STOPPING"
    /\ IF state = "STOPPING"
       THEN /\ current' = IF pending # None THEN {} ELSE current
            /\ UNCHANGED canceled
       ELSE AppendLocked /\ Cancel
    /\ UNCHANGED <<cleanupFailed, pc, wgen, wtarget, windex, cause>>

Stop(g) == StopCleansUp(g) \/ StopAcknowledged(g) \/ StopAttempt(g)

\* Has StopAndWait to run finish itself?  The worker of an attempt does it
\* otherwise, and so does the second finish of CommitAgain.
NeverDormant == FALSE \* fault
NoCancel == cancel = None \* fault: the state is not looked at
WasDormant == cancel = None /\ state = "FAILED"

\* StopAndWait fences new work and has the session taken down by its worker,
\* or by a finish goroutine when it is dormant.  Its waiting loop only reads
\* cleanupDone and cleanupFailed.
StopAndWait ==
    /\ "shutdown" \in Requests
    /\ closing' = TRUE /\ stopRequested' = TRUE /\ pending' = None
    /\ DropRecovery
    /\ IF cleanupDone \/ cleanupFailed
       THEN UNCHANGED <<state, workerVars>>
       ELSE /\ state' = "STOPPING"
            /\ IF WasDormant
               THEN Spawn(FreeSlot, "finish", generation, 0, "")
               ELSE Cancel /\ UNCHANGED <<pc, wgen, wtarget, windex, cause>>
    /\ AppendLocked
    /\ UNCHANGED <<generation, cancel, ledger, lastFailure, cleanupVars, netVars,
                   startOrigin, switchOrigin, recoveryCount, failureAfterCleanup,
                   configVars, activeDigest, activeTarget, active, callVars,
                   storeVars, held, known>>

\* Resume: a new service attaches after confirmed cleanup.
Resume ==
    /\ "shutdown" \in Requests
    /\ closing /\ cleanupDone /\ ~cleanupFailed
    /\ closing' = FALSE
    /\ AppendLocked
    /\ UNCHANGED <<state, generation, cancel, ledger, lastFailure, stopRequested,
                   cleanupVars, netVars, originVars, recoveryVars, configVars,
                   selectionVars, workerVars, callVars, storeVars, held, known>>

-----------------------------------------------------------------------------
(* The attempt worker: runStart *)

\* What no step of a worker touches.
WorkerFrame == UNCHANGED <<callVars, storeVars, configVars, closing, switchOrigin,
                           networkGeneration>>

FirstIndexAuto(target) == 1 \* fault
FirstIndex(target) == IF target = AutoSelect THEN 1 ELSE target

\* On to the first candidate of the target.
FirstCandidate(w) ==
    /\ pc' = [pc EXCEPT ![w] = "advance"]
    /\ windex' = [windex EXCEPT ![w] = FirstIndex(wtarget[w])]
    /\ UNCHANGED <<wgen, wtarget, cause, canceled>>

\* prepareNetwork when the protection is already up.
PrepareSkip(w) ==
    /\ pc[w] = "prepare"
    /\ vpnActive
    /\ FirstCandidate(w)
    /\ UNCHANGED <<sessionVars, callVars, current, storeVars, held, known>>

\* A resource that came with an error is owned all the same.
PushedOnSuccess(got, error) == got /\ error = "" \* fault
Pushed(got, error) == got

\* The platform or the runtime returns a network resource of this kind, an
\* error, both (a partial acquisition), or neither.
AcquireNetwork(w, kind, next) ==
    /\ \E got \in BOOLEAN, error \in {"", "PLATFORM_FAILED", "CLEANUP_FAILED"} :
         LET r == [kind |-> kind, gen |-> networkGeneration]
         IN  /\ held' = IF got THEN held \cup {r} ELSE held
             /\ networkLedger' = IF Pushed(got, error) THEN Append(networkLedger, r)
                                 ELSE networkLedger
             /\ IF got /\ error = ""
                THEN Goto(w, next)
                ELSE Finish(w, IF error = "" THEN "PLATFORM_FAILED" ELSE error)
    /\ UNCHANGED <<state, generation, cancel, ledger, lastFailure, stopRequested,
                   cleanupVars, vpnActive, startOrigin, recoveryOrigin,
                   recoveryVars, selectionVars, current, known>>
    /\ WorkerFrame

PrepareTunnel(w) ==
    /\ pc[w] = "prepare"
    /\ ~vpnActive
    /\ AcquireNetwork(w, "tunnel", "network")

PrepareNetwork(w) ==
    /\ pc[w] = "network"
    /\ AcquireNetwork(w, "network", "activate")

\* The protection is complete; prepareNetwork then returns ctx.Err().
Activate(w) ==
    /\ pc[w] = "activate"
    /\ vpnActive' = TRUE
    /\ AppendLocked
    /\ Goto(w, "activated")
    /\ UNCHANGED <<state, generation, cancel, ledger, lastFailure, stopRequested,
                   cleanupVars, networkLedger, startOrigin, recoveryOrigin,
                   recoveryVars, selectionVars, held, known>>
    /\ WorkerFrame

Activated(w) ==
    /\ pc[w] = "activated"
    /\ IF w \in canceled THEN Finish(w, "INTERNAL") ELSE FirstCandidate(w)
    /\ UNCHANGED <<sessionVars, callVars, current, storeVars, held, known>>

\* Has the attempt been stopped between two candidates?
NeverStopped(w) == FALSE \* fault
AttemptStopped(w) == stopRequested \/ w \in canceled

\* prepareCandidate: a later candidate is a generation of its own.
PrepareCandidate(w) ==
    /\ pc[w] = "candidate"
    /\ IF AttemptStopped(w)
       THEN Finish(w, "CANCELED") /\ UNCHANGED generation
       ELSE /\ generation' = generation + 1
            /\ wgen' = [wgen EXCEPT ![w] = generation + 1]
            /\ pc' = [pc EXCEPT ![w] = "advance"]
            /\ UNCHANGED <<wtarget, windex, cause, canceled>>
    /\ UNCHANGED <<state, cancel, ledger, lastFailure, stopRequested, cleanupVars,
                   networkLedger, vpnActive, startOrigin, recoveryOrigin,
                   recoveryVars, selectionVars, current, held, known>>
    /\ WorkerFrame

\* advance refuses a stale generation and a session that is stopping.
MayAdvance(w) == generation = wgen[w] /\ state # "STOPPING"

AdvanceCandidate(w) ==
    /\ pc[w] = "advance"
    /\ IF MayAdvance(w)
       THEN /\ state' = IF wtarget[w] = AutoSelect THEN "PROBING" ELSE "PREPARING"
            /\ active' = windex[w]
            /\ AppendLocked
            /\ Goto(w, "start")
       ELSE Finish(w, "CANCELED") /\ UNCHANGED <<state, active, current>>
    /\ UNCHANGED <<generation, cancel, ledger, lastFailure, stopRequested,
                   cleanupVars, networkLedger, vpnActive, startOrigin,
                   recoveryOrigin, recoveryVars, activeDigest, activeTarget,
                   pending, held, known>>
    /\ WorkerFrame

\* runtime.Start returns, however late.  A lease is pushed whatever the error;
\* neither a lease nor an error is an invalid lease, which ends the attempt.
RuntimeStart(w) ==
    /\ pc[w] = "start"
    /\ \E got \in BOOLEAN, error \in {"", "RUNTIME_FAILED", "CLEANUP_FAILED"} :
         LET r == [kind |-> "lease", gen |-> wgen[w]]
             ok == got /\ error = "" /\ w \notin canceled
         IN  /\ held' = IF got THEN held \cup {r} ELSE held
             /\ ledger' = IF Pushed(got, error) THEN Append(ledger, r) ELSE ledger
             /\ IF error = "CLEANUP_FAILED"
                THEN Finish(w, error)
                ELSE /\ pc' = [pc EXCEPT ![w] = IF ok THEN "connect" ELSE "rollback"]
                     /\ cause' = [cause EXCEPT ![w] =
                                    IF ~got /\ error = "" THEN "RUNTIME_FAILED" ELSE ""]
                     /\ UNCHANGED <<wgen, wtarget, windex, canceled>>
    /\ UNCHANGED <<state, generation, cancel, lastFailure, stopRequested,
                   cleanupVars, networkLedger, vpnActive, startOrigin,
                   recoveryOrigin, recoveryVars, selectionVars, current, known>>
    /\ WorkerFrame

\* advance to CONNECTED.
Connect(w) ==
    /\ pc[w] = "connect"
    /\ IF MayAdvance(w)
       THEN /\ state' = "CONNECTED" /\ active' = windex[w]
            /\ startOrigin' = 0 /\ recoveryOrigin' = 0
            /\ recovering' = FALSE /\ lastFailure' = ""
            /\ known' = generation
            /\ AppendLocked
            /\ Goto(w, "wait")
       ELSE /\ Finish(w, "")
            /\ UNCHANGED <<state, active, startOrigin, recoveryOrigin, recovering,
                           lastFailure, known, current>>
    /\ UNCHANGED <<generation, cancel, ledger, stopRequested, cleanupVars,
                   networkLedger, vpnActive, recoveryCount, restartAfterCleanup,
                   failureAfterCleanup, activeDigest, activeTarget, pending, held>>
    /\ WorkerFrame

\* waitForAttemptEnd: the attempt was canceled.
AttemptCanceled(w) ==
    /\ pc[w] = "wait"
    /\ w \in canceled
    /\ Finish(w, "")
    /\ UNCHANGED <<sessionVars, callVars, current, storeVars, held, known>>

RecoveryOffByOne(count) == count <= AutoRecoveryLimit \* fault
RecoveryAllowed(count) == count < AutoRecoveryLimit

\* prepareHealthRecoveryLocked.  A connection that was stable for
\* autoRecoveryStable earns a fresh recovery budget.
PrepareHealthRecovery(g, stable) ==
    LET count == IF stable THEN 0 ELSE recoveryCount
        origin == IF stable THEN 0 ELSE recoveryOrigin
    IN  /\ lastFailure' = "RUNTIME_FAILED"
        /\ IF RecoveryAllowed(count)
           THEN /\ recoveryCount' = count + 1
                /\ restartAfterCleanup' = TRUE /\ recovering' = TRUE
                /\ recoveryOrigin' = IF origin = 0 THEN g ELSE origin
                /\ UNCHANGED failureAfterCleanup
           ELSE /\ recoveryCount' = count
                /\ failureAfterCleanup' = "RUNTIME_FAILED"
                /\ recovering' = FALSE /\ recoveryOrigin' = 0
                /\ UNCHANGED restartAfterCleanup

\* waitForAttemptEnd: the health monitor reports; reportHealthFailure acts
\* only while this generation is CONNECTED.
HealthFailure(w) ==
    /\ pc[w] = "wait"
    /\ Room(activeDigest)
    /\ pc' = [pc EXCEPT ![w] = "finish"]
    /\ IF wgen[w] = generation /\ state = "CONNECTED"
       THEN /\ \E stable \in BOOLEAN : PrepareHealthRecovery(wgen[w], stable)
            /\ state' = "STOPPING"
            /\ AppendLocked /\ Cancel
       ELSE UNCHANGED <<state, lastFailure, recoveryVars, recoveryOrigin, current,
                        canceled>>
    /\ UNCHANGED <<generation, cancel, ledger, stopRequested, cleanupVars,
                   networkLedger, vpnActive, startOrigin, selectionVars, wgen,
                   wtarget, windex, cause, held, known>>
    /\ WorkerFrame

\* Releasing a ledger runs its last closer: the resource is gone, or the error
\* ends the release and keeps the closer.
CloseFirst(l) == held' = held \ {l[1]} /\ l' = Tail(l) \* fault
CloseLast(l) == held' = held \ {Top(l)} /\ l' = Pop(l)

\* A failed candidate's lease is released before the next candidate.
Rollback(w) ==
    /\ pc[w] = "rollback"
    /\ ledger # <<>>
    /\ \/ CloseLast(ledger) /\ UNCHANGED workerVars
       \/ Finish(w, "CLEANUP_FAILED") /\ UNCHANGED <<ledger, held>>
    /\ UNCHANGED <<state, generation, cancel, lastFailure, stopRequested,
                   cleanupVars, networkLedger, vpnActive, startOrigin,
                   recoveryOrigin, recoveryVars, selectionVars, current, known>>
    /\ WorkerFrame

NextCandidate(w) ==
    /\ pc' = [pc EXCEPT ![w] = "candidate"]
    /\ windex' = [windex EXCEPT ![w] = @ + 1]
    /\ UNCHANGED <<wgen, wtarget, cause, canceled>>

RolledBackAnyway == TRUE \* fault: the next candidate does not wait
RolledBack == ledger = <<>>

RollbackDone(w) ==
    /\ pc[w] = "rollback"
    /\ RolledBack
    /\ IF w \in canceled THEN Finish(w, "CANCELED")
       ELSE IF cause[w] # "" \/ wtarget[w] # AutoSelect THEN Finish(w, "RUNTIME_FAILED")
       ELSE IF windex[w] < ProfileCount[activeDigest] THEN NextCandidate(w)
       ELSE Finish(w, "PROBE_FAILED")
    /\ UNCHANGED <<sessionVars, callVars, current, storeVars, held, known>>

-----------------------------------------------------------------------------
(* The attempt worker: finish *)

\* finish acts only for the current generation of an active session.
FinishBegin(w) ==
    /\ pc[w] = "finish"
    /\ IF wgen[w] = generation /\ AttemptActive
       THEN Goto(w, IF cause[w] # "CLEANUP_FAILED" /\ Closers(ledger) # <<>>
                    THEN "retireAttempt" ELSE "decide")
       ELSE Exit(w)
    /\ UNCHANGED <<sessionVars, callVars, current, storeVars, held, known>>

\* What releasing a ledger leaves alone.
RetireFrame ==
    /\ UNCHANGED <<state, generation, cancel, lastFailure, stopRequested,
                   cleanupVars, vpnActive, startOrigin, recoveryOrigin,
                   recoveryVars, selectionVars, current, known>>
    /\ WorkerFrame

\* A closer that fails makes the cause of finish a cleanup failure.
RetireFails(w, place) ==
    /\ pc' = [pc EXCEPT ![w] = place]
    /\ cause' = [cause EXCEPT ![w] = "CLEANUP_FAILED"]
    /\ UNCHANGED <<wgen, wtarget, windex, canceled, ledger, networkLedger, held>>

RetireAttempt(w) ==
    /\ pc[w] = "retireAttempt"
    /\ \/ /\ CloseLast(ledger)
          /\ IF Len(ledger) = 1 THEN Goto(w, "decide") ELSE UNCHANGED workerVars
          /\ UNCHANGED networkLedger
       \/ RetireFails(w, "decide")
    /\ RetireFrame

\* retireFinishedResources: is the protection to go down too?
ReleaseAlways == TRUE \* fault
ReleaseOnStop == stopRequested \/ closing \* fault: a partial activation stays
ReleaseNetwork == stopRequested \/ closing \/ ~vpnActive

RetireDecide(w) ==
    /\ pc[w] = "decide"
    /\ Goto(w, IF ReleaseNetwork
               THEN IF cause[w] # "CLEANUP_FAILED" /\ Closers(networkLedger) # <<>>
                    THEN "retireNetwork" ELSE "commitReleased"
               ELSE "commitKept")
    /\ UNCHANGED <<sessionVars, callVars, current, storeVars, held, known>>

RetireNetwork(w) ==
    /\ pc[w] = "retireNetwork"
    /\ \/ /\ CloseLast(networkLedger)
          /\ IF Len(networkLedger) = 1 THEN Goto(w, "commitReleased")
             ELSE UNCHANGED workerVars
          /\ UNCHANGED ledger
       \/ RetireFails(w, "commitReleased")
    /\ RetireFrame

\* A failed cleanup keeps both ledgers and drops every plan to go on.
CommitCleanupFailure(w) ==
    /\ cause[w] = "CLEANUP_FAILED"
    /\ cleanupFailed' = TRUE /\ cleanupDone' = FALSE
    /\ pending' = None /\ restartAfterCleanup' = FALSE /\ recovering' = FALSE
    /\ failureAfterCleanup' = ""
    /\ state' = "FAILED" /\ active' = 0 /\ lastFailure' = "CLEANUP_FAILED"
    /\ cancel' = None
    /\ Exit(w) /\ AppendLocked
    /\ UNCHANGED <<generation, stopRequested, ledger, networkLedger, vpnActive,
                   startOrigin, recoveryOrigin, recoveryCount, activeDigest,
                   activeTarget, known>>

\* The books after a cleanup that worked: the attempt's ledger is gone, and the
\* protection when it was released.
Released(w) ==
    /\ cause[w] # "CLEANUP_FAILED"
    /\ IF pc[w] = "commitReleased"
       THEN networkLedger' = None /\ vpnActive' = FALSE
       ELSE UNCHANGED <<networkLedger, vpnActive>>

\* A Stop that arrived during attempt cleanup still owns network release.
CommitAgain(w) ==
    /\ Released(w)
    /\ pc[w] = "commitKept" /\ (stopRequested \/ closing)
    /\ cancel' = None /\ cleanupFailed' = FALSE /\ ledger' = None
    /\ state' = "STOPPING"
    /\ Spawn(w, "finish", wgen[w], 0, "")
    /\ UNCHANGED <<generation, stopRequested, cleanupDone, lastFailure, startOrigin,
                   recoveryOrigin, recoveryVars, selectionVars, current, known>>

CommitStopped(w) ==
    /\ Released(w)
    /\ pc[w] = "commitReleased" /\ (stopRequested \/ closing)
    /\ cancel' = None /\ cleanupFailed' = FALSE /\ ledger' = None
    /\ cleanupDone' = ~vpnActive'
    /\ state' = "IDLE" /\ active' = 0 /\ pending' = None
    /\ DropRecovery /\ startOrigin' = 0
    /\ Exit(w) /\ AppendLocked
    /\ UNCHANGED <<generation, stopRequested, lastFailure, recoveryCount,
                   failureAfterCleanup, activeDigest, activeTarget, known>>

\* Does the session go on with a recovery or a replacement?
GoesOn(w) == pc[w] = "commitKept" /\ vpnActive /\ (restartAfterCleanup \/ pending # None)

CommitNext(w) ==
    /\ Released(w)
    /\ ~(stopRequested \/ closing) /\ GoesOn(w)
    /\ IF pending # None
       THEN /\ BeginAttempt(w, pending.target)
            /\ activeDigest' = pending.digest /\ pending' = None
            /\ recoveryCount' = 0
       ELSE /\ BeginAttempt(w, activeTarget)
            /\ UNCHANGED <<activeDigest, pending, recoveryCount>>
    /\ UNCHANGED <<lastFailure, startOrigin, recoveryOrigin, recovering, known>>

\* The failure to publish.  The code of a nil cause is INTERNAL.
CodeOf(error) == IF error = "" THEN "INTERNAL" ELSE error
FailureToReport(w) ==
    IF failureAfterCleanup # "" THEN failureAfterCleanup ELSE CodeOf(cause[w])

\* finishProtectedFailureLocked: dormant when the protection stays, otherwise
\* clean.
CommitFailed(w) ==
    /\ Released(w)
    /\ ~(stopRequested \/ closing) /\ ~GoesOn(w)
    /\ cancel' = None /\ cleanupFailed' = FALSE /\ ledger' = None
    /\ cleanupDone' = ~vpnActive'
    /\ state' = "FAILED" /\ active' = 0
    /\ lastFailure' = FailureToReport(w)
    /\ recovering' = FALSE /\ recoveryOrigin' = 0 /\ failureAfterCleanup' = ""
    /\ Exit(w) /\ AppendLocked
    /\ UNCHANGED <<generation, stopRequested, startOrigin, recoveryCount,
                   restartAfterCleanup, activeDigest, activeTarget, pending, known>>

\* The last critical section of finish.
FinishCommit(w) ==
    /\ pc[w] \in {"commitKept", "commitReleased"}
    /\ IF wgen[w] = generation
       THEN /\ \/ CommitCleanupFailure(w) \/ CommitAgain(w) \/ CommitStopped(w)
               \/ CommitNext(w) \/ CommitFailed(w)
            /\ UNCHANGED held
            /\ WorkerFrame
       ELSE Exit(w) /\ UNCHANGED <<sessionVars, callVars, current, storeVars, held, known>>

-----------------------------------------------------------------------------
WorkerStep(w) ==
    \/ PrepareSkip(w) \/ PrepareTunnel(w) \/ PrepareNetwork(w) \/ Activate(w)
    \/ Activated(w) \/ PrepareCandidate(w) \/ AdvanceCandidate(w)
    \/ RuntimeStart(w) \/ Connect(w) \/ AttemptCanceled(w)
    \/ Rollback(w) \/ RollbackDone(w)
    \/ FinishBegin(w) \/ RetireAttempt(w) \/ RetireDecide(w)
    \/ RetireNetwork(w) \/ FinishCommit(w)

CallStep(c) ==
    \/ ConfigureBegin(c, "configure", "load")
    \/ ConfigureBegin(c, "startSource", "sourceLoad")
    \/ ConfigureAccept(c) \/ Abort(c) \/ StartSource(c)
    \/ RestoreBegin(c, "restore", "restoreRead")
    \/ RestoreBegin(c, "serviceRestore", "serviceRead")
    \/ RestoreRead(c) \/ RestoreConfigure(c) \/ RestoreStart(c)

Next ==
    \/ \E c \in Callers : CallStep(c)
    \/ \E target \in Targets : Start(target)
    \/ \E g \in 1..generation : Stop(g)
    \/ StopAndWait
    \/ Resume
    \/ \E w \in Slots : WorkerStep(w) \/ HealthFailure(w)

Spec == Init /\ [][Next]_vars

\* Every native call of a worker returns and its goroutine is scheduled; no
\* client request and no health failure has to happen.
Fairness == \A w \in Slots : WF_vars(WorkerStep(w))
FairSpec == Spec /\ Fairness

-----------------------------------------------------------------------------
(* Properties *)

TypeNumbers ==
    /\ generation \in Nat /\ networkGeneration \in Nat
    /\ startOrigin \in Nat /\ switchOrigin \in Nat /\ recoveryOrigin \in Nat
    /\ recoveryCount \in 0..AutoRecoveryLimit
    /\ activeTarget \in Nat /\ active \in Nat /\ known \in Nat

TypeFlags ==
    /\ stopRequested \in BOOLEAN /\ closing \in BOOLEAN
    /\ cleanupDone \in BOOLEAN /\ cleanupFailed \in BOOLEAN
    /\ vpnActive \in BOOLEAN /\ recovering \in BOOLEAN
    /\ restartAfterCleanup \in BOOLEAN /\ storedSource \in BOOLEAN

TypeCodes ==
    /\ state \in State /\ lastFailure \in Code /\ failureAfterCleanup \in Code
    /\ sourceKind \in {"", "URL", "RAW"}

TypeOwners ==
    /\ cancel \in Slots \cup {None} /\ configureRequest \in Callers \cup {None}
    /\ ledger \in Ledger /\ networkLedger \in Ledger /\ held \subseteq Resource

TypeSelections ==
    /\ digest \in Digests \cup {None} /\ activeDigest \in Digests \cup {None}
    /\ pending \in Selection \cup {None}
    /\ activation \in Activation \cup {None}

TypeWorkers ==
    /\ pc \in [Slots -> Pc] /\ cause \in [Slots -> Code] /\ canceled \subseteq Slots
    /\ wgen \in [Slots -> Nat] /\ wtarget \in [Slots -> Nat] /\ windex \in [Slots -> Nat]

TypeCalls ==
    /\ phase \in [Callers -> Phase] /\ saved \in [Callers -> Activation \cup {None}]
    /\ configured \in [Callers -> Digests \cup {None}]
    /\ current \subseteq Callers
    /\ \A c \in Callers : phase[c] \in {"restoreConfigure", "restoreLoad", "restoreStart"}
                            => saved[c] # None

\* Every variable has its type; in particular the automatic recoveries since the
\* last stable connection never exceed autoRecoveryLimit.
TypeOK ==
    /\ TypeNumbers /\ TypeFlags /\ TypeCodes /\ TypeOwners
    /\ TypeSelections /\ TypeWorkers /\ TypeCalls

\* At most one goroutine owns the attempt, its generation is the session's,
\* and one runs exactly while the published state is an active one: a session
\* is never left STOPPING or PROBING with nobody to move it on.
SingleOwner ==
    /\ \A v, w \in Slots : Running(v) /\ Running(w) => v = w
    /\ \A w \in Slots : Running(w) => wgen[w] = generation
    /\ (\E w \in Slots : Running(w)) <=> AttemptActive

\* Every native resource that exists is in one of the two ledgers, and the
\* ledgers name nothing that was released: starting, switching, recovering and
\* failing never drop a ledger that still owns something.
NothingLeaks == held = Owned(ledger) \cup Owned(networkLedger)

\* A session that reports complete cleanup owns nothing native and protects
\* nothing.
CleanupIsComplete == cleanupDone => held = {} /\ ~vpnActive

\* A CONNECTED session has its tunnel, its network and the lease of exactly the
\* published generation, and nothing left of an earlier attempt.
ConnectedIsBacked ==
    state = "CONNECTED" =>
        held = { [kind |-> "tunnel", gen |-> networkGeneration],
                 [kind |-> "network", gen |-> networkGeneration],
                 [kind |-> "lease", gen |-> generation] }

\* The published connection is one the selection in force allows.
ConnectedTarget ==
    state = "CONNECTED" =>
        /\ active \in 1..ProfileCount[activeDigest]
        /\ activeTarget # AutoSelect => active = activeTarget

\* While the session is busy and nobody has stopped it, the generation a client
\* learnt last from a Start result or from CONNECTED is one that Stop accepts,
\* however many candidates, recoveries and switches came in between.
StopReachesAttempt == AttemptActive /\ ~stopRequested => AcceptsStop(known)

\* The main button does what it says: START is accepted unless the service is
\* detached, STOP is accepted for the published generation and has something to
\* stop, RETRY has a selection and no owner in its way, and there is no button only while a
\* goroutine is at work.
PrimaryActionWorks ==
    /\ PrimaryAction = "START" => ~ConfigurationBlocked \/ closing
    /\ PrimaryAction = "RETRY" => activeDigest # None /\ \A w \in Slots : ~Running(w)
    /\ PrimaryAction = "STOP" => AcceptsStop(generation) /\ (AttemptActive \/ cleanupFailed)
    /\ PrimaryAction = "NONE" => \E w \in Slots : Running(w)

\* The protection (tunnel and network) of an active VPN is taken down only for
\* a Stop or a shutdown: never to switch, to recover, or because every profile
\* failed.
ProtectionStays ==
    [][\A r \in held \ held' :
         r.kind # "lease" => stopRequested \/ closing \/ ~vpnActive]_vars

\* After an accepted Stop or a shutdown no attempt begins until cleanup has
\* completed: neither a queued switch, a recovery, nor the next candidate.
StopIsFinal ==
    [][stopRequested /\ generation' # generation => cleanupDone /\ ~closing]_vars

\* A failed cleanup blocks replacement: nothing is acquired or released and no
\* generation begins, until a Stop retries it.
FailedCleanupBlocks ==
    [][cleanupFailed => /\ held' = held /\ generation' = generation
                        /\ ~cleanupFailed' => state' = "STOPPING" /\ stopRequested']_vars

\* Resources are released in the reverse order of their acquisition: no lease
\* outlives its network, no network its tunnel.
ReleaseOrder ==
    [][\A r \in held \ held', q \in held' :
         /\ r.kind = "tunnel" => q.kind \notin {"network", "lease"}
         /\ r.kind = "network" => q.kind # "lease"]_vars

\* Restore of a manual selection starts exactly the saved inventory and index.
RestoreExact ==
    [][\A c \in Callers :
         /\ phase[c] = "restoreStart" /\ phase'[c] = "idle"
         /\ generation' # generation
         /\ saved[c].target # AutoSelect
         => activeDigest' = saved[c].digest /\ activeTarget' = saved[c].target]_vars

\* A Start with a source, and Restore, start the inventory that their own
\* Configure accepted, never one that another client loaded in between.
StartsWhatItLoaded ==
    [][\A c \in Callers :
         /\ phase[c] \in {"sourceStart", "restoreStart"} /\ phase'[c] = "idle"
         /\ generation' # generation \/ pending' # pending
         => configured[c] = IF pending' # None THEN pending'.digest ELSE activeDigest']_vars

\* restore.go: "A service restart honors the previous explicit Stop".  Where
\* every Restore is a service restart, it begins an attempt only while the
\* persisted selection still is enabled.
RestartHonorsStop ==
    [][\A c \in Callers :
         /\ phase[c] = "restoreStart" /\ phase'[c] = "idle"
         /\ generation' # generation
         => activation.enabled]_vars

\* Stop and the attempt worker: an accepted Stop is carried out, so that the session gets
\* to rest, and no attempt stays half-way.
StopCompletes == stopRequested /\ AttemptActive ~> ~AttemptActive
AttemptSettles == (state \in {"PROBING", "PREPARING", "STOPPING"})
                     ~> (state \in {"CONNECTED", "FAILED", "IDLE", "CONFIGURED"})
AttemptsEnd == StopCompletes /\ AttemptSettles
=============================================================================
