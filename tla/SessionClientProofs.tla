------------------------ MODULE SessionClientProofs ------------------------
(***************************************************************************)
(* Proofs about what the clients of Session see: that CONNECTED is backed  *)
(* by its resources and is of the selection in force, that Stop accepts    *)
(* the generation a client knows, that the main button works, that a Start *)
(* or a Restore begins what it has loaded, and the order of releases.      *)
(*                                                                         *)
(* They rest on Inv of SessionInv and on a second invariant, ClientInv,    *)
(* which relates the worker to the selection, to the plans that are        *)
(* carried out after a cleanup, and to the generations Stop accepts.       *)
(***************************************************************************)
EXTENDS SessionProofs

-----------------------------------------------------------------------------
(* The invariant *)

\* The worker of a connected session waits for its end; a worker whose context has ended is
\* one of a session that stops; and when a session stops without a Stop (a switch, a health
\* failure) its worker acquires nothing any more.
Place(w) ==
    pc[w] # "none" =>
        /\ state = "CONNECTED" => pc[w] = "wait"
        /\ w \in canceled => state = "STOPPING"
        /\ state = "STOPPING" /\ ~stopRequested => pc[w] \in {"wait"} \cup FinishPc

\* A session that is not clean has a selection, whose target is one of its inventory.
SelectionInForce ==
    ~cleanupDone => activeDigest \in Digests /\ activeTarget <= ProfileCount[activeDigest]

\* A worker attempts the target in force: one of its inventory's profiles, in order for
\* AUTO_SELECT, and what it has connected is published.
Choice(w) ==
    /\ pc[w] \in AcquirePc => wtarget[w] = activeTarget
    /\ pc[w] \in {"candidate", "advance", "start", "connect", "wait", "rollback"}
          => /\ windex[w] \in 1..ProfileCount[activeDigest]
             /\ activeTarget # AutoSelect => windex[w] = activeTarget
    /\ state = "CONNECTED" /\ pc[w] = "wait" => active = windex[w]

\* Plans for the time after a cleanup: a replacement waits in a session that stops for it
\* alone; a recovery is announced only while the session is busy; and a busy session that
\* is to stop or to begin again says so.
Plans ==
    /\ pending # None =>
          /\ state = "STOPPING" /\ vpnActive /\ ~stopRequested /\ ~closing
          /\ pending.digest \in Digests /\ pending.target <= ProfileCount[pending.digest]
    /\ recovering => AttemptActive
    /\ (stopRequested \/ restartAfterCleanup) /\ AttemptActive => state = "STOPPING"

\* The generation that clients know is one that stays accepted when the next one begins.
Reached ==
    known \in {startOrigin, switchOrigin} \/ (recovering /\ known = recoveryOrigin)
KnownReaches ==
    /\ state \notin {"IDLE", "CONFIGURED"} => generation # 0
    /\ AttemptActive /\ ~stopRequested => known # 0
    /\ state \in {"PROBING", "PREPARING"} /\ ~stopRequested => Reached
    /\ state = "CONNECTED" => known = generation /\ recoveryOrigin = 0
    /\ state = "STOPPING" /\ ~stopRequested =>
          /\ Reached \/ known = generation
          /\ pending # None \/ restartAfterCleanup => Reached

\* What a Start with a source and a Restore know between Configure and Start.
CallsKnow ==
    \A c \in Callers :
        /\ phase[c] = "sourceStart" /\ c \in current => configured[c] = digest
        /\ phase[c] = "restoreStart" => saved[c].target = AutoSelect \/ configured[c] = saved[c].digest

\* The second invariant.
ClientInv ==
    /\ \A w \in Slots : Place(w) /\ Choice(w)
    /\ SelectionInForce /\ Plans /\ KnownReaches /\ CallsKnow

-----------------------------------------------------------------------------
(* What a step leaves alone *)

USE DEF fenceVars, cleanupVars, netVars, originVars, recoveryVars, configVars,
        selectionVars, workerVars, callVars, storeVars, sessionVars,
        WorkerFrame, RetireFrame, Goto, Finish

\* The selection stays valid while it is not replaced.
LEMMA SelectionStays ==
  ASSUME SelectionInForce, UNCHANGED <<cleanupDone, activeDigest, activeTarget>>
  PROVE  SelectionInForce'
  BY DEF SelectionInForce

\* Plans stay while the state, the fences and the protection do.
LEMMA PlansStay ==
  ASSUME Plans, UNCHANGED <<pending, state, vpnActive, stopRequested, closing, recovering,
                            restartAfterCleanup>>
  PROVE  Plans'
  BY DEF Plans, AttemptActive

\* Stop still accepts what it accepted while generations, origins and plans stay.
LEMMA KnownStays ==
  ASSUME KnownReaches, UNCHANGED <<state, generation, stopRequested, known, startOrigin,
                                   switchOrigin, recovering, recoveryOrigin, pending,
                                   restartAfterCleanup>>
  PROVE  KnownReaches'
  BY DEF KnownReaches, Reached, AttemptActive

\* An event can only make a caller's sequence stale.
LEMMA CallsStay ==
  ASSUME CallsKnow, UNCHANGED <<phase, saved, configured, digest>>, current' \subseteq current
  PROVE  CallsKnow'
  BY DEF CallsKnow

\* What a step has to show that leaves at most goroutine w running.
LEMMA OneClient ==
  ASSUME NEW w \in Slots, \A v \in Slots : v # w => pc'[v] = "none",
         Place(w)', Choice(w)', SelectionInForce', Plans', KnownReaches', CallsKnow'
  PROVE  ClientInv'
  BY DEF ClientInv, Place, Choice, AcquirePc

\* A step of worker w that leaves the session's plans and its generations alone.
LEMMA WorkerMoves ==
  ASSUME Inv, ClientInv, NEW w \in Slots, pc[w] # "none",
         \A v \in Slots : v # w => pc'[v] = pc[v],
         UNCHANGED <<state, generation, stopRequested, closing, cleanupDone, vpnActive, known,
                     startOrigin, switchOrigin, recoveryOrigin, recovering, restartAfterCleanup,
                     pending, activeDigest, activeTarget, phase, saved, configured, digest, current>>,
         Place(w)', Choice(w)'
  PROVE  ClientInv'
  <1>1. \A v \in Slots : v # w => pc'[v] = "none" BY Worker
  <1>2. SelectionInForce' BY SelectionStays DEF ClientInv
  <1>3. Plans' BY PlansStay DEF ClientInv
  <1>4. KnownReaches' BY KnownStays DEF ClientInv
  <1>5. CallsKnow' BY CallsStay DEF ClientInv
  <1> QED BY <1>1, <1>2, <1>3, <1>4, <1>5, OneClient

\* A step of worker w to another place, which changes nothing else that it attempts or
\* that is published: it goes on in runStart to a place of the same candidate, or in finish.
LEMMA SameCandidate ==
  ASSUME Inv, ClientInv, NEW w \in Slots, pc[w] # "none", state # "CONNECTED",
         \A v \in Slots : v # w => pc'[v] = pc[v],
         UNCHANGED <<state, generation, stopRequested, closing, cleanupDone, vpnActive, known,
                     startOrigin, switchOrigin, recoveryOrigin, recovering, restartAfterCleanup,
                     pending, activeDigest, activeTarget, phase, saved, configured, digest, current>>,
         canceled' = canceled, wtarget'[w] = wtarget[w], windex'[w] = windex[w],
         \/ pc'[w] \in FinishPc
         \/ /\ pc[w] \in AcquirePc \ {"wait"} /\ pc'[w] \in {"prepare", "network", "activate", "activated"}
         \/ /\ pc[w] \in {"advance", "start", "connect", "rollback"}
            /\ pc'[w] \in {"start", "connect", "rollback"}
  PROVE  ClientInv'
  <1>1. Place(w) /\ Choice(w) BY DEF ClientInv
  <1>2. Place(w)' BY <1>1 DEF Place, AcquirePc, FinishPc
  <1>3. Choice(w)' BY <1>1 DEF Choice, AcquirePc, FinishPc
  <1> QED BY <1>2, <1>3, WorkerMoves

-----------------------------------------------------------------------------
(* The worker keeps the second invariant *)

\* A worker that does not wait is one of a session that is not connected.
LEMMA NotConnected ==
  ASSUME ClientInv, NEW w \in Slots, pc[w] \notin {"none", "wait"}
  PROVE  state # "CONNECTED"
  BY DEF ClientInv, Place

\* The first candidate is the target's, or the first of the inventory.
LEMMA FirstCandidateClient ==
  ASSUME Inv, ClientInv, NEW w \in Slots, pc[w] \in {"prepare", "activated"},
         FirstCandidate(w), UNCHANGED <<sessionVars, callVars, current, storeVars, held, known>>
  PROVE  ClientInv'
  <1> USE DEF FirstCandidate
  <1>1. TypeOK /\ Place(w) /\ Choice(w) /\ ~cleanupDone BY Worker DEF Inv, ClientInv
  <1>2. activeDigest \in Digests /\ activeTarget <= ProfileCount[activeDigest] /\ activeTarget \in Nat
    BY <1>1 DEF ClientInv, SelectionInForce, TypeOK, TypeNumbers
  <1>3. ProfileCount[activeDigest] \in Nat \ {0} BY <1>2, ProfileAssumption
  <1>4. /\ pc'[w] = "advance" /\ wtarget'[w] = activeTarget /\ windex'[w] = FirstIndex(activeTarget)
        /\ \A v \in Slots : v # w => pc'[v] = pc[v]
    BY <1>1 DEF TypeOK, TypeWorkers, Choice, AcquirePc
  <1>5. FirstIndex(activeTarget) \in 1..ProfileCount[activeDigest]
    BY <1>2, <1>3 DEF FirstIndex, AutoSelect
  <1>6. Choice(w)'
    BY <1>1, <1>4, <1>5, NotConnected DEF Choice, FirstIndex, AutoSelect
  <1>7. Place(w)' BY <1>1, <1>4, NotConnected DEF Place, FinishPc
  <1> QED BY <1>4, <1>6, <1>7, WorkerMoves

\* prepareNetwork, with the protection up, acquired or failed: no candidate is chosen yet.
LEMMA PrepareClient ==
  ASSUME Inv, ClientInv, NEW w \in Slots,
         PrepareSkip(w) \/ PrepareTunnel(w) \/ PrepareNetwork(w) \/ Activated(w)
  PROVE  ClientInv'
  <1>1. TypeOK /\ pc[w] \in {"prepare", "network", "activated"} /\ state # "CONNECTED"
    BY NotConnected DEF Inv, PrepareSkip, PrepareTunnel, PrepareNetwork, Activated
  <1>2. CASE PrepareSkip(w) \/ (Activated(w) /\ w \notin canceled)
    BY <1>1, <1>2, FirstCandidateClient DEF PrepareSkip, Activated
  <1>3. CASE Activated(w) /\ w \in canceled
    BY <1>1, <1>3, SameCandidate DEF Activated, FinishPc, TypeOK, TypeWorkers
  <1>4. CASE PrepareTunnel(w) \/ PrepareNetwork(w)
    <2>1. /\ pc'[w] \in {"network", "activate", "finish"} /\ \A v \in Slots : v # w => pc'[v] = pc[v]
          /\ UNCHANGED <<wtarget, windex, canceled>>
      BY <1>1, <1>4 DEF PrepareTunnel, PrepareNetwork, AcquireNetwork, TypeOK, TypeWorkers
    <2>2. UNCHANGED <<state, generation, stopRequested, closing, cleanupDone, vpnActive, known,
                      startOrigin, switchOrigin, recoveryOrigin, recovering, restartAfterCleanup,
                      pending, activeDigest, activeTarget, phase, saved, configured, digest, current>>
      BY <1>4 DEF PrepareTunnel, PrepareNetwork, AcquireNetwork
    <2> QED BY <1>1, <2>1, <2>2, SameCandidate DEF FinishPc, AcquirePc
  <1> QED BY <1>2, <1>3, <1>4

\* The protection is complete: what the plans need of it still holds.
LEMMA ActivateClient ==
  ASSUME Inv, ClientInv, NEW w \in Slots, Activate(w)
  PROVE  ClientInv'
  <1> USE DEF Activate, AppendLocked
  <1>1. TypeOK /\ pc[w] = "activate" /\ state # "CONNECTED" /\ Place(w) /\ Choice(w)
    BY NotConnected DEF Inv, ClientInv
  <1>2. pc'[w] = "activated" /\ \A v \in Slots : v # w => pc'[v] = "none"
    BY <1>1, Worker DEF TypeOK, TypeWorkers
  <1>3. Place(w)' BY <1>1, <1>2 DEF Place, FinishPc
  <1>4. Choice(w)' BY <1>1, <1>2 DEF Choice, AcquirePc
  <1>5. SelectionInForce' BY SelectionStays DEF ClientInv
  <1>6. Plans' BY DEF ClientInv, Plans, AttemptActive
  <1>7. KnownReaches' BY KnownStays DEF ClientInv
  <1>8. CallsKnow' BY CallsStay DEF ClientInv
  <1> QED BY <1>2, <1>3, <1>4, <1>5, <1>6, <1>7, <1>8, OneClient

\* prepareCandidate: the generation that clients know stays accepted, as the session
\* is not stopped and does not stop.
LEMMA PrepareCandidateClient ==
  ASSUME Inv, ClientInv, NEW w \in Slots, PrepareCandidate(w)
  PROVE  ClientInv'
  <1> USE DEF PrepareCandidate
  <1>1. TypeOK /\ pc[w] = "candidate" /\ state # "CONNECTED" /\ Place(w) /\ Choice(w) /\ AttemptActive
    BY NotConnected, Worker DEF Inv, ClientInv
  <1>2. CASE AttemptStopped(w)
    BY <1>1, <1>2, SameCandidate DEF FinishPc, TypeOK, TypeWorkers
  <1>3. CASE ~AttemptStopped(w)
    <2>1. /\ pc'[w] = "advance" /\ \A v \in Slots : v # w => pc'[v] = "none"
          /\ generation' = generation + 1 /\ generation \in Nat
      BY <1>1, <1>3, Worker DEF TypeOK, TypeWorkers, TypeNumbers
    <2>2. state \in {"PROBING", "PREPARING"} /\ ~stopRequested
      BY <1>1, <1>3 DEF AttemptActive, AttemptStopped, Place, FinishPc
    <2>3. Place(w)' BY <1>1, <1>3, <2>1, <2>2 DEF Place
    <2>4. Choice(w)' BY <1>1, <1>3, <2>1, <2>2 DEF Choice, AcquirePc
    <2>5. SelectionInForce' BY SelectionStays DEF ClientInv
    <2>6. Plans' BY PlansStay DEF ClientInv
    <2>7. KnownReaches' BY <2>1, <2>2 DEF ClientInv, KnownReaches, Reached, AttemptActive
    <2>8. CallsKnow' BY CallsStay DEF ClientInv
    <2> QED BY <2>1, <2>3, <2>4, <2>5, <2>6, <2>7, <2>8, OneClient
  <1> QED BY <1>2, <1>3

\* advance: a session that stops refuses the candidate, and one that does not is
\* probing or preparing before and after it.
LEMMA AdvanceCandidateClient ==
  ASSUME Inv, ClientInv, NEW w \in Slots, AdvanceCandidate(w)
  PROVE  ClientInv'
  <1> USE DEF AdvanceCandidate, AppendLocked
  <1>1. TypeOK /\ pc[w] = "advance" /\ state # "CONNECTED" /\ Place(w) /\ Choice(w) /\ AttemptActive
    BY NotConnected, Worker DEF Inv, ClientInv
  <1>2. CASE ~MayAdvance(w)
    BY <1>1, <1>2, SameCandidate DEF FinishPc, TypeOK, TypeWorkers
  <1>3. CASE MayAdvance(w)
    <2>1. pc'[w] = "start" /\ \A v \in Slots : v # w => pc'[v] = "none"
      BY <1>1, <1>3, Worker DEF TypeOK, TypeWorkers
    <2>2. state \in {"PROBING", "PREPARING"} /\ state' \in {"PROBING", "PREPARING"}
      BY <1>1, <1>3 DEF AttemptActive, MayAdvance
    <2>3. Place(w)' BY <1>1, <1>3, <2>1, <2>2 DEF Place
    <2>4. Choice(w)' BY <1>1, <1>3, <2>1, <2>2 DEF Choice, AcquirePc
    <2>5. SelectionInForce' BY SelectionStays DEF ClientInv
    <2>6. Plans' BY <2>2 DEF ClientInv, Plans, AttemptActive
    <2>7. KnownReaches' BY <2>2 DEF ClientInv, KnownReaches, Reached, AttemptActive
    <2>8. CallsKnow' BY CallsStay DEF ClientInv
    <2> QED BY <2>1, <2>3, <2>4, <2>5, <2>6, <2>7, <2>8, OneClient
  <1> QED BY <1>2, <1>3

\* runtime.Start, and the release of a candidate that failed.
LEMMA RuntimeStartClient ==
  ASSUME Inv, ClientInv, NEW w \in Slots, RuntimeStart(w) \/ Rollback(w)
  PROVE  ClientInv'
  <1>1. TypeOK /\ pc[w] \in {"start", "rollback"} /\ state # "CONNECTED"
    BY NotConnected DEF Inv, RuntimeStart, Rollback
  <1>2. /\ pc'[w] \in {"connect", "rollback", "finish"} /\ \A v \in Slots : v # w => pc'[v] = pc[v]
        /\ UNCHANGED <<wtarget, windex, canceled>>
    BY <1>1 DEF RuntimeStart, Rollback, TypeOK, TypeWorkers
  <1>3. UNCHANGED <<state, generation, stopRequested, closing, cleanupDone, vpnActive, known,
                    startOrigin, switchOrigin, recoveryOrigin, recovering, restartAfterCleanup,
                    pending, activeDigest, activeTarget, phase, saved, configured, digest, current>>
    BY DEF RuntimeStart, Rollback
  <1> QED BY <1>1, <1>2, <1>3, SameCandidate DEF FinishPc

\* advance to CONNECTED: clients learn the generation, and what it connected is published.
LEMMA ConnectClient ==
  ASSUME Inv, ClientInv, NEW w \in Slots, Connect(w)
  PROVE  ClientInv'
  <1> USE DEF Connect, AppendLocked
  <1>1. TypeOK /\ pc[w] = "connect" /\ state # "CONNECTED" /\ Place(w) /\ Choice(w) /\ AttemptActive
    BY NotConnected, Worker DEF Inv, ClientInv
  <1>2. CASE ~MayAdvance(w)
    BY <1>1, <1>2, SameCandidate DEF FinishPc, TypeOK, TypeWorkers
  <1>3. CASE MayAdvance(w)
    <2>1. pc'[w] = "wait" /\ \A v \in Slots : v # w => pc'[v] = "none"
      BY <1>1, <1>3, Worker DEF TypeOK, TypeWorkers
    <2>2. state \in {"PROBING", "PREPARING"} /\ state' = "CONNECTED"
      BY <1>1, <1>3 DEF AttemptActive, MayAdvance
    <2>3. Place(w)' BY <1>1, <1>3, <2>1, <2>2 DEF Place
    <2>4. Choice(w)' BY <1>1, <1>3, <2>1, <2>2 DEF Choice, AcquirePc
    <2>5. SelectionInForce' BY SelectionStays DEF ClientInv
    <2>6. Plans' BY <1>3, <2>2 DEF ClientInv, Plans, AttemptActive
    <2>7. KnownReaches' BY <1>3, <2>2 DEF ClientInv, KnownReaches, Reached, AttemptActive
    <2>8. CallsKnow' BY <1>3, CallsStay DEF ClientInv
    <2> QED BY <2>1, <2>3, <2>4, <2>5, <2>6, <2>7, <2>8, OneClient
  <1> QED BY <1>2, <1>3

\* A canceled worker is one of a session that stops, so that no CONNECTED state is left
\* without a worker that watches it.
LEMMA AttemptCanceledClient ==
  ASSUME Inv, ClientInv, NEW w \in Slots, AttemptCanceled(w)
  PROVE  ClientInv'
  <1>1. TypeOK /\ pc[w] = "wait" /\ state # "CONNECTED"
    BY DEF Inv, ClientInv, AttemptCanceled, Place
  <1> QED BY <1>1, SameCandidate DEF AttemptCanceled, FinishPc, TypeOK, TypeWorkers

\* The index after one that is not the last.
LEMMA NextIndex ==
  ASSUME NEW n \in Nat, NEW i \in 1..n, i < n
  PROVE  i + 1 \in 1..n
  OBVIOUS

\* RollbackDone: the next candidate of the inventory, while there is one.
LEMMA RollbackDoneClient ==
  ASSUME Inv, ClientInv, NEW w \in Slots, RollbackDone(w)
  PROVE  ClientInv'
  <1> USE DEF RollbackDone
  <1>1. /\ TypeOK /\ pc[w] = "rollback" /\ state # "CONNECTED" /\ Place(w) /\ Choice(w)
        /\ ~cleanupDone
    BY NotConnected, Worker DEF Inv, ClientInv
  <1>2. CASE NextCandidate(w) /\ wtarget[w] = AutoSelect /\ windex[w] < ProfileCount[activeDigest]
    <2>1. /\ pc'[w] = "candidate" /\ windex'[w] = windex[w] + 1 /\ UNCHANGED <<wtarget, canceled>>
          /\ \A v \in Slots : v # w => pc'[v] = pc[v]
      BY <1>1, <1>2 DEF NextCandidate, TypeOK, TypeWorkers
    <2>2. ProfileCount[activeDigest] \in Nat
      BY <1>1, ProfileAssumption DEF ClientInv, SelectionInForce
    <2>3. windex'[w] \in 1..ProfileCount[activeDigest]
      <3>1. windex[w] \in 1..ProfileCount[activeDigest] BY <1>1 DEF Choice
      <3>2. windex[w] + 1 \in 1..ProfileCount[activeDigest] BY <1>2, <2>2, <3>1, NextIndex
      <3> QED BY <2>1, <3>2
    <2>4. Choice(w)' BY <1>1, <1>2, <2>1, <2>3 DEF Choice, AcquirePc
    <2>5. Place(w)' BY <1>1, <2>1 DEF Place, FinishPc
    <2> QED BY <1>1, <2>1, <2>4, <2>5, WorkerMoves
  <1>3. CASE \E error : Finish(w, error)
    BY <1>1, <1>3, SameCandidate DEF FinishPc, TypeOK, TypeWorkers
  <1> QED BY <1>2, <1>3

\* finish acts for the session's generation, and goes on in finish.
LEMMA FinishClient ==
  ASSUME Inv, ClientInv, NEW w \in Slots,
         FinishBegin(w) \/ RetireAttempt(w) \/ RetireDecide(w) \/ RetireNetwork(w)
  PROVE  ClientInv'
  <1>1. TypeOK /\ pc[w] \in {"finish", "retireAttempt", "decide", "retireNetwork"} /\ state # "CONNECTED"
    BY NotConnected DEF Inv, FinishBegin, RetireAttempt, RetireDecide, RetireNetwork
  <1>2. wgen[w] = generation /\ AttemptActive BY <1>1, Worker
  <1>3. /\ pc'[w] \in FinishPc /\ \A v \in Slots : v # w => pc'[v] = pc[v]
        /\ UNCHANGED <<wtarget, windex, canceled>>
    BY <1>1, <1>2 DEF FinishBegin, RetireAttempt, RetireDecide, RetireNetwork, RetireFails,
                      TypeOK, TypeWorkers, FinishPc
  <1>4. UNCHANGED <<state, generation, stopRequested, closing, cleanupDone, vpnActive, known,
                    startOrigin, switchOrigin, recoveryOrigin, recovering, restartAfterCleanup,
                    pending, activeDigest, activeTarget, phase, saved, configured, digest, current>>
    BY <1>2 DEF FinishBegin, RetireAttempt, RetireDecide, RetireNetwork, RetireFails
  <1> QED BY <1>1, <1>3, <1>4, SameCandidate

\* reportHealthFailure: a recovery remembers the generation that clients know; without one
\* no other generation follows.
LEMMA HealthFailureClient ==
  ASSUME Inv, ClientInv, NEW w \in Slots, HealthFailure(w)
  PROVE  ClientInv'
  <1> USE DEF HealthFailure, AppendLocked
  <1>1. /\ TypeOK /\ pc[w] = "wait" /\ Place(w) /\ Choice(w) /\ ~cleanupDone
        /\ wgen[w] = generation /\ AttemptActive
    BY Worker DEF Inv, ClientInv
  <1>2. CASE state # "CONNECTED"
    BY <1>1, <1>2, SameCandidate DEF FinishPc, TypeOK, TypeWorkers
  <1>3. CASE state = "CONNECTED"
    <2>1. /\ pc'[w] = "finish" /\ \A v \in Slots : v # w => pc'[v] = "none"
          /\ state' = "STOPPING" /\ current' = {}
      BY <1>1, <1>3, Worker DEF TypeOK, TypeWorkers
    <2>2. PICK stable \in BOOLEAN : PrepareHealthRecovery(wgen[w], stable)
      BY <1>1, <1>3
    <2>3. \/ recovering' /\ recoveryOrigin' = generation
          \/ ~recovering' /\ UNCHANGED restartAfterCleanup
      BY <1>1, <1>3, <2>2 DEF PrepareHealthRecovery, ClientInv, KnownReaches
    <2>4. Place(w)' /\ Choice(w)' BY <2>1 DEF Place, Choice, FinishPc, AcquirePc
    <2>5. SelectionInForce' BY SelectionStays DEF ClientInv
    <2>6. Plans' BY <1>3, <2>1 DEF ClientInv, Plans, AttemptActive
    <2>7. KnownReaches'
      BY <1>3, <2>1, <2>3 DEF ClientInv, KnownReaches, Plans, Reached, AttemptActive
    <2>8. CallsKnow' BY <2>1, CallsStay DEF ClientInv
    <2> QED BY <2>1, <2>4, <2>5, <2>6, <2>7, <2>8, OneClient
  <1> QED BY <1>2, <1>3

-----------------------------------------------------------------------------
(* The end of finish *)

\* The session comes to rest: no plan is left and nobody waits.
LEMMA RestsClient ==
  ASSUME Inv, ClientInv, NEW w \in Slots, pc[w] \in {"commitKept", "commitReleased"},
         Exit(w), WorkerFrame, state' \in {"IDLE", "FAILED"}, pending' = None, recovering' = FALSE,
         UNCHANGED <<generation, activeDigest, activeTarget>>, current' = {}
  PROVE  ClientInv'
  <1>1. TypeOK /\ ~cleanupDone /\ AttemptActive BY Worker DEF Inv
  <1>2. \A v \in Slots : pc'[v] = "none"
    BY <1>1, Worker DEF Exit, Spawn, TypeOK, TypeWorkers
  <1>3. Place(w)' /\ Choice(w)' BY <1>2 DEF Place, Choice, AcquirePc
  <1>4. SelectionInForce' BY <1>1 DEF ClientInv, SelectionInForce
  <1>5. Plans' BY DEF Plans, AttemptActive
  <1>6. KnownReaches' BY <1>1 DEF ClientInv, KnownReaches, AttemptActive
  <1>7. CallsKnow' BY CallsStay DEF ClientInv
  <1> QED BY <1>2, <1>3, <1>4, <1>5, <1>6, <1>7, OneClient

\* A replacement is kept for a session whose protection stays, so that finish carries
\* it out: it is never left over when the session comes to rest.
LEMMA PendingGoesOn ==
  ASSUME Inv, ClientInv, NEW w \in Slots, pc[w] \in {"commitKept", "commitReleased"}, pending # None
  PROVE  GoesOn(w) /\ ~stopRequested /\ ~closing
  <1>1. vpnActive /\ ~stopRequested /\ ~closing BY DEF ClientInv, Plans
  <1>2. FinishPlaces(w) BY Worker
  <1> QED BY <1>1, <1>2 DEF FinishPlaces, ReleaseNetwork, GoesOn

\* beginAttemptLocked for a valid selection, in a session whose generation stays accepted.
LEMMA BeginsClient ==
  ASSUME Inv, ClientInv, NEW w \in Slots, NEW target \in Nat, BeginAttempt(w, target),
         \A v \in Slots : v # w => pc[v] = "none",
         activeDigest' \in Digests, target <= ProfileCount[activeDigest'],
         pending' = None, CallsKnow', known' # 0, Reached'
  PROVE  ClientInv'
  <1>1. TypeOK BY DEF Inv
  <1>2. /\ pc'[w] = "prepare" /\ \A v \in Slots : v # w => pc'[v] = "none"
        /\ activeTarget' = target /\ state' = "PROBING" /\ ~stopRequested' /\ ~restartAfterCleanup'
        /\ generation' = generation + 1
    BY <1>1, BeginAttemptStarts DEF BeginAttempt
  <1>3. wtarget'[w] = target /\ w \notin canceled'
    BY <1>1 DEF BeginAttempt, Spawn, TypeOK, TypeWorkers
  <1>4. Place(w)' BY <1>2, <1>3 DEF Place
  <1>5. Choice(w)' BY <1>2, <1>3 DEF Choice
  <1>6. SelectionInForce' BY <1>2 DEF SelectionInForce
  <1>7. Plans' BY <1>2 DEF Plans, AttemptActive
  <1>8. generation' # 0 BY <1>1, <1>2 DEF TypeOK, TypeNumbers
  <1>9. KnownReaches' BY <1>2, <1>8 DEF KnownReaches, AttemptActive
  <1> QED BY <1>2, <1>4, <1>5, <1>6, <1>7, <1>9, OneClient

\* The last critical section of finish.
LEMMA FinishCommitClient ==
  ASSUME Inv, ClientInv, NEW w \in Slots, FinishCommit(w)
  PROVE  ClientInv'
  <1>1. /\ TypeOK /\ pc[w] \in {"commitKept", "commitReleased"} /\ state # "CONNECTED"
        /\ wgen[w] = generation /\ ~cleanupDone /\ AttemptActive
        /\ \A v \in Slots : v # w => pc[v] = "none"
    BY NotConnected, Worker DEF Inv, FinishCommit
  <1>2. WorkerFrame BY <1>1 DEF FinishCommit
  <1>3. CASE CommitCleanupFailure(w)
    BY <1>1, <1>2, <1>3, RestsClient DEF CommitCleanupFailure, AppendLocked
  <1>4. CASE CommitStopped(w)
    BY <1>1, <1>2, <1>4, RestsClient DEF CommitStopped, AppendLocked, DropRecovery
  <1>5. CASE CommitFailed(w)
    <2>1. pending = None BY <1>1, <1>5, PendingGoesOn DEF CommitFailed
    <2> QED BY <1>1, <1>2, <1>5, <2>1, RestsClient DEF CommitFailed, AppendLocked
  <1>6. CASE CommitAgain(w)
    <2>1. pending = None BY <1>1, <1>6, PendingGoesOn DEF CommitAgain
    <2>2. /\ pc'[w] = "finish" /\ \A v \in Slots : v # w => pc'[v] = "none"
          /\ w \notin canceled' /\ state' = "STOPPING"
      BY <1>1, <1>6 DEF CommitAgain, Spawn, TypeOK, TypeWorkers
    <2>3. Place(w)' /\ Choice(w)' BY <2>2 DEF Place, Choice, FinishPc, AcquirePc
    <2>4. SelectionInForce' BY <1>6, SelectionStays DEF ClientInv, CommitAgain
    <2>5. Plans' BY <1>6, <2>1, <2>2 DEF Plans, AttemptActive, CommitAgain
    <2>6. KnownReaches'
      BY <1>1, <1>2, <1>6, <2>1, <2>2
      DEF ClientInv, KnownReaches, Reached, Plans, AttemptActive, CommitAgain
    <2>7. CallsKnow' BY <1>2, <1>6, CallsStay DEF ClientInv, CommitAgain
    <2> QED BY <2>2, <2>3, <2>4, <2>5, <2>6, <2>7, OneClient
  <1>7. CASE CommitNext(w)
    <2>1. ~stopRequested /\ ~closing /\ (restartAfterCleanup \/ pending # None)
      BY <1>7 DEF CommitNext, GoesOn
    <2>2. UNCHANGED <<startOrigin, switchOrigin, recovering, recoveryOrigin, known>>
      BY <1>2, <1>7 DEF CommitNext
    <2>3. known # 0 /\ Reached
      BY <1>1, <2>1 DEF ClientInv, Plans, KnownReaches, AttemptActive
    <2>4. known' # 0 /\ Reached' BY <2>2, <2>3 DEF Reached
    <2>5. CallsKnow'
      BY <1>2, <1>7, CallsStay DEF ClientInv, CommitNext, BeginAttempt, AppendLocked
    <2>6. CASE pending # None
      <3>1. /\ BeginAttempt(w, pending.target) /\ activeDigest' = pending.digest /\ pending' = None
            /\ pending.target \in Nat
        BY <1>1, <1>7, <2>6 DEF CommitNext, TypeOK, TypeSelections, Selection
      <3>2. pending.digest \in Digests /\ pending.target <= ProfileCount[pending.digest]
        BY <2>6 DEF ClientInv, Plans
      <3> QED BY <1>1, <2>4, <2>5, <3>1, <3>2, BeginsClient
    <2>7. CASE pending = None
      <3>1. BeginAttempt(w, activeTarget) /\ UNCHANGED <<activeDigest, pending>> /\ activeTarget \in Nat
        BY <1>1, <1>7, <2>7 DEF CommitNext, TypeOK, TypeNumbers
      <3>2. activeDigest \in Digests /\ activeTarget <= ProfileCount[activeDigest]
        BY <1>1 DEF ClientInv, SelectionInForce
      <3> QED BY <1>1, <2>4, <2>5, <2>7, <3>1, <3>2, BeginsClient
    <2> QED BY <2>6, <2>7
  <1> QED BY <1>1, <1>3, <1>4, <1>5, <1>6, <1>7 DEF FinishCommit

\* Every step of a worker keeps the second invariant.
LEMMA WorkerClient ==
  ASSUME Inv, ClientInv, NEW w \in Slots, WorkerStep(w) \/ HealthFailure(w)
  PROVE  ClientInv'
  BY PrepareClient, ActivateClient, PrepareCandidateClient, AdvanceCandidateClient,
     RuntimeStartClient, ConnectClient, AttemptCanceledClient, RollbackDoneClient,
     FinishClient, FinishCommitClient, HealthFailureClient DEF WorkerStep

-----------------------------------------------------------------------------
(* Requests keep the second invariant *)

\* A request that leaves the session and its worker alone, and what the calls know.
LEMMA OnlyCallsClient ==
  ASSUME ClientInv, CallsKnow',
         UNCHANGED <<state, generation, stopRequested, closing, cleanupDone, vpnActive, known,
                     startOrigin, switchOrigin, recoveryOrigin, recovering, restartAfterCleanup,
                     pending, activeDigest, activeTarget, active, pc, wtarget, windex, canceled>>
  PROVE  ClientInv'
  <1>1. \A w \in Slots : Place(w)' /\ Choice(w)' BY DEF ClientInv, Place, Choice
  <1>2. SelectionInForce' /\ Plans' /\ KnownReaches'
    BY SelectionStays, PlansStay, KnownStays DEF ClientInv
  <1> QED BY <1>1, <1>2 DEF ClientInv

\* Configure, Restore and a request that ends: a caller learns what it loaded together with
\* the sequence, and whoever loads something else makes that sequence stale.
LEMMA CallClient ==
  ASSUME Inv, ClientInv, NEW c \in Callers,
         \/ ConfigureBegin(c, "configure", "load") \/ ConfigureBegin(c, "startSource", "sourceLoad")
         \/ Abort(c) \/ RestoreRead(c) \/ RestoreConfigure(c)
         \/ RestoreBegin(c, "restore", "restoreRead") \/ RestoreBegin(c, "serviceRestore", "serviceRead")
  PROVE  ClientInv'
  <1>1. TypeOK BY DEF Inv
  <1>2. /\ phase'[c] \notin {"sourceStart", "restoreStart"} /\ digest' = digest
        /\ current' \subseteq current \cup {c}
        /\ \A b \in Callers : b # c => /\ phase'[b] = phase[b] /\ saved'[b] = saved[b]
                                      /\ configured'[b] = configured[b]
    BY <1>1 DEF ConfigureBegin, Abort, RestoreRead, RestoreConfigure, RestoreBegin, CallGoes,
                CallEnds, TypeOK, TypeCalls
  <1>3. CallsKnow' BY <1>2 DEF ClientInv, CallsKnow
  <1>4. UNCHANGED <<state, generation, stopRequested, closing, cleanupDone, vpnActive, known,
                    startOrigin, switchOrigin, recoveryOrigin, recovering, restartAfterCleanup,
                    pending, activeDigest, activeTarget, active, pc, wtarget, windex, canceled>>
    BY DEF ConfigureBegin, Abort, RestoreRead, RestoreConfigure, RestoreBegin
  <1> QED BY <1>3, <1>4, OnlyCallsClient

\* Configure is accepted: only a session that owns nothing forgets its selection.
LEMMA ConfigureAcceptClient ==
  ASSUME Inv, ClientInv, NEW c \in Callers, ConfigureAccept(c)
  PROVE  ClientInv'
  <1>1. TypeOK BY DEF Inv
  <1>2. CallsKnow'
    <2>1. PICK d \in Digests :
             LET restores == phase[c] = "restoreLoad" /\ RestoreMatches(c, d)
             IN  /\ digest' = d
                 /\ IF phase[c] = "sourceLoad" \/ restores
                    THEN /\ CallGoes(c, IF restores THEN "restoreStart" ELSE "sourceStart")
                         /\ configured' = [configured EXCEPT ![c] = d]
                         /\ UNCHANGED saved
                    ELSE CallEnds(c)
                 /\ current' \subseteq {c}
      BY DEF ConfigureAccept
    <2>2. \A b \in Callers : b # c => /\ phase'[b] = phase[b] /\ saved'[b] = saved[b]
                                     /\ configured'[b] = configured[b] /\ b \notin current'
      BY <1>1, <2>1 DEF CallGoes, CallEnds, TypeOK, TypeCalls
    <2>3. /\ phase'[c] \in {"sourceStart", "restoreStart"} => configured'[c] = digest'
          /\ phase'[c] = "restoreStart" => saved'[c].target = AutoSelect \/ digest' = saved'[c].digest
      BY <1>1, <2>1 DEF CallGoes, CallEnds, TypeOK, TypeCalls, RestoreMatches
    <2> QED BY <2>2, <2>3 DEF ClientInv, CallsKnow
  <1>3. CASE UNCHANGED <<state, active, activeDigest, activeTarget, recoveryOrigin>>
    BY <1>2, <1>3, OnlyCallsClient DEF ConfigureAccept
  <1>4. CASE cleanupDone /\ ~recovering /\ pending = None /\ state' = "CONFIGURED"
    <2>1. \A v \in Slots : pc[v] = "none" BY <1>4, SlotIsFree DEF Inv, Ownership, AtRest
    <2>2. \A v \in Slots : Place(v)' /\ Choice(v)'
      BY <2>1 DEF ConfigureAccept, Place, Choice, AcquirePc
    <2>3. SelectionInForce' /\ Plans' /\ KnownReaches'
      BY <1>4 DEF ConfigureAccept, SelectionInForce, Plans, KnownReaches, AttemptActive
    <2> QED BY <1>2, <2>2, <2>3 DEF ClientInv
  <1> QED BY <1>3, <1>4 DEF ConfigureAccept, ForgetSelection

\* replaceLocked: the replacement is a valid selection, and clients know the generation
\* that it replaces, which Stop goes on accepting.
LEMMA ReplaceClient ==
  ASSUME Inv, ClientInv, NEW target \in Nat, digest # None, Replace(target), CallsKnow'
  PROVE  ClientInv'
  <1> USE DEF Replace
  <1>1. TypeOK /\ state = "CONNECTED" /\ ~closing BY DEF Inv, CanSwitch
  <1>2. PICK w \in Slots : pc[w] # "none"
    BY <1>1 DEF Inv, SingleOwner, Running, AttemptActive
  <1>3. pc[w] = "wait" /\ \A v \in Slots : v # w => pc[v] = "none"
    BY <1>1, <1>2, Worker DEF ClientInv, Place
  <1>4. Place(w)' BY <1>3 DEF Place
  <1>5. Choice(w)' BY DEF ClientInv, Choice
  <1>6. SelectionInForce' BY SelectionStays DEF ClientInv
  <1>7. digest \in Digests /\ vpnActive /\ generation # 0
    BY <1>1, <1>3, Worker DEF TypeOK, TypeSelections, AcquirePlaces, ClientInv, KnownReaches
  <1>8. ~stopRequested BY <1>1 DEF ClientInv, Plans, AttemptActive
  <1>9. Plans'
    <2>1. /\ pending'.digest = digest /\ pending'.target = target /\ state' = "STOPPING"
      OBVIOUS
    <2>2. target <= ProfileCount[digest] BY DEF ValidateStartTarget
    <2> QED BY <1>1, <1>7, <1>8, <2>1, <2>2 DEF Plans, AttemptActive
  <1>10. KnownReaches' BY <1>7 DEF KnownReaches, Reached, AttemptActive
  <1> QED BY <1>3, <1>4, <1>5, <1>6, <1>9, <1>10, OneClient

\* retryLocked begins an attempt of the dormant selection, which clients know of.
LEMMA RetryClient ==
  ASSUME Inv, ClientInv, NEW target \in Nat, Retry(target), CallsKnow'
  PROVE  ClientInv'
  <1>1. TypeOK /\ ~AttemptActive /\ vpnActive BY DEF Inv, Retry, CanRetry, AttemptActive
  <1>2. FreeSlot \in Slots /\ \A v \in Slots : pc[v] = "none" BY <1>1, SlotIsFree DEF Inv
  <1>3. PICK w \in Slots : w = FreeSlot BY <1>2
  <1>4. BeginAttempt(w, target) BY <1>3 DEF Retry
  <1>5. activeDigest \in Digests /\ target <= ProfileCount[activeDigest] /\ pending = None
    BY <1>1 DEF ClientInv, SelectionInForce, Plans, Inv, Ownership, AtRest, Retry, AttemptActive
  <1>6. UNCHANGED <<activeDigest, pending>> /\ startOrigin' = generation + 1 /\ known' = generation + 1
    BY DEF Retry
  <1>7. generation + 1 # 0 BY <1>1 DEF TypeOK, TypeNumbers
  <1>8. known' # 0 /\ Reached' BY <1>6, <1>7 DEF Reached
  <1> QED BY <1>2, <1>4, <1>5, <1>6, <1>8, BeginsClient

\* So does the direct path of Start, for the inventory that is loaded.
LEMMA BeginClient ==
  ASSUME Inv, ClientInv, NEW target \in Nat, digest # None, Begin(target), CallsKnow'
  PROVE  ClientInv'
  <1>1. TypeOK /\ ~AttemptActive /\ pending = None BY DEF Inv, Begin, ConfigurationBlocked
  <1>2. FreeSlot \in Slots /\ \A v \in Slots : pc[v] = "none" BY <1>1, SlotIsFree DEF Inv
  <1>3. PICK w \in Slots : w = FreeSlot BY <1>2
  <1>4. BeginAttempt(w, target) BY <1>3 DEF Begin
  <1>5. digest \in Digests /\ target <= ProfileCount[digest]
    BY <1>1 DEF TypeOK, TypeSelections, Begin, ValidateStartTarget
  <1>6. /\ activeDigest' = digest /\ UNCHANGED pending
        /\ startOrigin' = generation + 1 /\ known' = generation + 1
    BY DEF Begin
  <1>7. generation + 1 # 0 BY <1>1 DEF TypeOK, TypeNumbers
  <1>8. known' # 0 /\ Reached' BY <1>6, <1>7 DEF Reached
  <1> QED BY <1>1, <1>2, <1>4, <1>5, <1>6, <1>8, BeginsClient

\* Every Start, by itself, with a source or by Restore.
LEMMA StartClient ==
  ASSUME Inv, ClientInv,
         \/ \E target \in Targets : Start(target)
         \/ \E c \in Callers : StartSource(c) \/ RestoreStart(c)
  PROVE  ClientInv'
  <1>1. TypeOK BY DEF Inv
  <1>2. CASE \E target \in Targets : Start(target)
    <2>1. PICK target \in Targets : Start(target) BY <1>2
    <2>2. target \in Nat BY ProfileAssumption DEF Targets
    <2>3. current' = {} /\ UNCHANGED <<callVars, digest>>
      BY <2>1 DEF Start, Retry, Replace, Begin, BeginAttempt, AppendLocked
    <2>4. CallsKnow' BY <2>3, CallsStay DEF ClientInv
    <2> QED BY <2>1, <2>2, <2>4, RetryClient, ReplaceClient, BeginClient DEF Start
  <1>3. ASSUME NEW c \in Callers, StartSource(c) \/ RestoreStart(c) PROVE ClientInv'
    <2>1. current' = {} /\ CallEnds(c) /\ UNCHANGED digest
      BY <1>3 DEF StartSource, RestoreStart, Replace, Begin, BeginAttempt, AppendLocked
    <2>2. /\ phase'[c] = "idle"
          /\ \A b \in Callers : b # c => /\ phase'[b] = phase[b] /\ saved'[b] = saved[b]
                                        /\ configured'[b] = configured[b]
      BY <1>1, <2>1 DEF CallEnds, CallGoes, TypeOK, TypeCalls
    <2>3. CallsKnow' BY <2>1, <2>2 DEF ClientInv, CallsKnow
    <2>4. saved[c].target \in Nat \/ ~RestoreStart(c)
      BY <1>1 DEF TypeOK, TypeCalls, Activation, RestoreStart
    <2>5. AutoSelect \in Nat BY DEF AutoSelect
    <2> QED BY <1>3, <2>3, <2>4, <2>5, ReplaceClient, BeginClient DEF StartSource, RestoreStart
  <1> QED BY <1>2, <1>3

\* An accepted Stop drops every plan; the worker, or a new one, takes the session down.
LEMMA StopClient ==
  ASSUME Inv, ClientInv, NEW g \in Nat, Stop(g)
  PROVE  ClientInv'
  <1>1. TypeOK BY DEF Inv
  <1>2. StopAccepted(g) BY DEF Stop, StopCleansUp, StopAcknowledged, StopAttempt
  <1>3. /\ UNCHANGED <<generation, cleanupDone, closing, vpnActive, activeDigest, activeTarget, active, known,
                       startOrigin, phase, saved, configured, digest>>
        /\ stopRequested' /\ pending' = None
    BY <1>2 DEF StopAccepted
  <1>4. current' \subseteq current
    BY DEF Stop, StopCleansUp, StopAcknowledged, StopAttempt, AppendLocked
  <1>5. CallsKnow' BY <1>3, <1>4, CallsStay DEF ClientInv
  <1>6. SelectionInForce' BY <1>3, SelectionStays DEF ClientInv
  <1>7. CASE StopCleansUp(g)
    <2>1. ~AttemptActive /\ state = "FAILED" /\ state' = "STOPPING"
      BY <1>7 DEF StopCleansUp, RetryableCleanup, AttemptActive
    <2>2. FreeSlot \in Slots /\ \A v \in Slots : pc[v] = "none" BY <2>1, SlotIsFree DEF Inv
    <2>3. PICK w \in Slots : w = FreeSlot BY <2>2
    <2>4. /\ pc'[w] = "finish" /\ w \notin canceled' /\ \A v \in Slots : v # w => pc'[v] = "none"
      BY <1>1, <1>7, <2>2, <2>3 DEF StopCleansUp, Spawn, TypeOK, TypeWorkers
    <2>5. Place(w)' /\ Choice(w)' BY <1>3, <2>1, <2>4 DEF Place, Choice, AcquirePc
    <2>6. Plans' BY <1>3, <1>7, <2>1 DEF Plans, AttemptActive
    <2>7. KnownReaches' BY <1>3, <2>1 DEF ClientInv, KnownReaches, AttemptActive
    <2> QED BY <1>5, <1>6, <2>4, <2>5, <2>6, <2>7, OneClient
  <1>8. CASE StopAcknowledged(g)
    <2>1. /\ ~AttemptActive /\ UNCHANGED <<state, workerVars>>
          /\ recovering' => recovering
      BY <1>8 DEF StopAcknowledged, DropRecovery
    <2>2. \A v \in Slots : pc[v] = "none" BY <2>1, SlotIsFree DEF Inv
    <2>3. \A v \in Slots : Place(v)' /\ Choice(v)' BY <2>1, <2>2 DEF Place, Choice, AcquirePc
    <2>4. Plans' BY <1>3, <2>1 DEF ClientInv, Plans, AttemptActive
    <2>5. KnownReaches' BY <1>3, <2>1 DEF ClientInv, KnownReaches, AttemptActive
    <2> QED BY <1>5, <1>6, <2>3, <2>4, <2>5 DEF ClientInv
  <1>9. CASE StopAttempt(g)
    <2>1. AttemptActive /\ state' = "STOPPING" /\ UNCHANGED <<pc, wtarget, windex>>
      BY <1>9 DEF StopAttempt
    <2>2. PICK w \in Slots : pc[w] # "none" BY <2>1 DEF Inv, SingleOwner, Running
    <2>3. \A v \in Slots : v # w => pc[v] = "none" BY <2>2, Worker
    <2>4. Place(w)' /\ Choice(w)' BY <1>3, <2>1 DEF ClientInv, Place, Choice
    <2>5. Plans' BY <1>3, <2>1 DEF Plans, AttemptActive
    <2>6. KnownReaches'
      BY <1>3, <2>1 DEF ClientInv, KnownReaches, AttemptActive
    <2> QED BY <1>5, <1>6, <2>1, <2>3, <2>4, <2>5, <2>6, OneClient
  <1> QED BY <1>7, <1>8, <1>9 DEF Stop

\* So does StopAndWait, at any time.
LEMMA StopAndWaitClient ==
  ASSUME Inv, ClientInv, StopAndWait
  PROVE  ClientInv'
  <1> USE DEF StopAndWait, AppendLocked, DropRecovery
  <1>1. TypeOK BY DEF Inv
  <1>2. CallsKnow' /\ SelectionInForce' BY CallsStay, SelectionStays DEF ClientInv
  <1>3. CASE cleanupDone \/ cleanupFailed
    <2>1. ~AttemptActive BY <1>3 DEF Inv, Ownership, AtRest
    <2>2. \A v \in Slots : pc[v] = "none" BY <2>1, SlotIsFree DEF Inv
    <2>3. \A v \in Slots : Place(v)' /\ Choice(v)' BY <1>3, <2>2 DEF Place, Choice, AcquirePc
    <2>4. Plans' BY <1>3, <2>1 DEF Plans, AttemptActive
    <2>5. KnownReaches' BY <1>3, <2>1 DEF ClientInv, KnownReaches, AttemptActive
    <2> QED BY <1>2, <2>3, <2>4, <2>5 DEF ClientInv
  <1>4. CASE ~cleanupDone /\ ~cleanupFailed
    <2>1. state' = "STOPPING" /\ stopRequested' /\ pending' = None /\ ~recovering'
      BY <1>4
    <2>2. state \notin {"IDLE", "CONFIGURED"} BY <1>4 DEF Inv, Ownership, AtRest
    <2>3. Plans' BY <2>1 DEF Plans, AttemptActive
    <2>4. KnownReaches' BY <2>1, <2>2 DEF ClientInv, KnownReaches, AttemptActive
    <2>5. CASE WasDormant
      <3>1. ~AttemptActive BY <2>5 DEF WasDormant, AttemptActive
      <3>2. FreeSlot \in Slots /\ \A v \in Slots : pc[v] = "none" BY <3>1, SlotIsFree DEF Inv
      <3>3. PICK w \in Slots : w = FreeSlot BY <3>2
      <3>4. /\ pc'[w] = "finish" /\ w \notin canceled' /\ \A v \in Slots : v # w => pc'[v] = "none"
        BY <1>1, <1>4, <2>5, <3>2, <3>3 DEF Spawn, TypeOK, TypeWorkers
      <3>5. Place(w)' /\ Choice(w)' BY <2>1, <3>4 DEF Place, Choice, AcquirePc
      <3> QED BY <1>2, <2>3, <2>4, <3>4, <3>5, OneClient
    <2>6. CASE ~WasDormant
      <3>1. UNCHANGED <<pc, wtarget, windex, activeDigest, activeTarget, active>> BY <1>4, <2>6
      <3>2. \A w \in Slots : Place(w)' /\ Choice(w)'
        BY <2>1, <3>1 DEF ClientInv, Place, Choice
      <3> QED BY <1>2, <2>3, <2>4, <3>2 DEF ClientInv
    <2> QED BY <2>5, <2>6
  <1> QED BY <1>3, <1>4

\* Resume lifts the fence of a session that is clean.
LEMMA ResumeClient ==
  ASSUME Inv, ClientInv, Resume
  PROVE  ClientInv'
  <1> USE DEF Resume, AppendLocked
  <1>1. CallsKnow' /\ SelectionInForce' BY CallsStay, SelectionStays DEF ClientInv
  <1>2. \A w \in Slots : Place(w)' /\ Choice(w)' BY DEF ClientInv, Place, Choice
  <1>3. Plans' BY DEF ClientInv, Plans, AttemptActive
  <1>4. KnownReaches' BY KnownStays DEF ClientInv
  <1> QED BY <1>1, <1>2, <1>3, <1>4 DEF ClientInv

-----------------------------------------------------------------------------
(* Theorems *)

\* A new Manager satisfies the second invariant.
LEMMA InitClient == Init => ClientInv
  <1> SUFFICES ASSUME Init PROVE ClientInv OBVIOUS
  <1> USE DEF Init
  <1>1. \A w \in Slots : Place(w) /\ Choice(w) BY DEF Place, Choice, AcquirePc
  <1>2. SelectionInForce /\ Plans /\ KnownReaches
    BY DEF SelectionInForce, Plans, KnownReaches, AttemptActive
  <1>3. CallsKnow BY DEF CallsKnow
  <1> QED BY <1>1, <1>2, <1>3 DEF ClientInv

\* Every step keeps it.
LEMMA NextClient == Inv /\ ClientInv /\ [Next]_vars => ClientInv'
  <1> SUFFICES ASSUME Inv, ClientInv, [Next]_vars PROVE ClientInv' OBVIOUS
  <1>1. CASE \E c \in Callers : CallStep(c)
    BY <1>1, CallClient, ConfigureAcceptClient, StartClient DEF CallStep
  <1>2. CASE \E target \in Targets : Start(target) BY <1>2, StartClient
  <1>3. CASE \E g \in 1..generation : Stop(g)
    <2>1. PICK g \in 1..generation : Stop(g) BY <1>3
    <2>2. g \in Nat BY DEF Inv, TypeOK, TypeNumbers
    <2> QED BY <2>1, <2>2, StopClient
  <1>4. CASE StopAndWait BY <1>4, StopAndWaitClient
  <1>5. CASE Resume BY <1>5, ResumeClient
  <1>6. CASE \E w \in Slots : WorkerStep(w) \/ HealthFailure(w) BY <1>6, WorkerClient
  <1>7. CASE UNCHANGED vars
    <2>1. CallsKnow' BY <1>7, CallsStay DEF ClientInv, vars
    <2> QED BY <1>7, <2>1, OnlyCallsClient DEF vars
  <1> QED BY <1>1, <1>2, <1>3, <1>4, <1>5, <1>6, <1>7 DEF Next

\* Both invariants hold at any time.
LEMMA BothHold == Spec => [](Inv /\ ClientInv)
  BY InitInv, NextInv, InitClient, NextClient, PTL DEF Spec

\* A CONNECTED session (advance, runStart) has a worker that waits for its end.
LEMMA ConnectedWaits ==
  ASSUME Inv, ClientInv, state = "CONNECTED"
  PROVE  \E w \in Slots : pc[w] = "wait" /\ AcquirePlaces(w) /\ Choice(w)
  <1>1. PICK w \in Slots : pc[w] # "none" BY DEF Inv, SingleOwner, Running, AttemptActive
  <1> QED BY <1>1, Worker DEF ClientInv, Place

\* runStart and finish: whatever raced the attempt, a published CONNECTED state has its
\* tunnel, its network and the lease of exactly its generation, and nothing older.
THEOREM ConnectedHasItsResources == Spec => []ConnectedIsBacked
  <1>1. Inv /\ ClientInv => ConnectedIsBacked
    <2> SUFFICES ASSUME Inv, ClientInv, state = "CONNECTED"
                 PROVE  held = {Tunnel, Network, Lease}
      BY DEF ConnectedIsBacked, Tunnel, Network, Lease
    <2>1. PICK w \in Slots : pc[w] = "wait" /\ AcquirePlaces(w) BY ConnectedWaits
    <2>2. ledger = <<Lease>> /\ networkLedger = <<Tunnel, Network>>
      BY <2>1 DEF AcquirePlaces, NetworkComplete
    <2>3. TypeOK /\ held = Owned(ledger) \cup Owned(networkLedger)
      BY DEF Inv, Ownership, NothingLeaks
    <2>4. Owned(<<Lease>>) = {Lease} /\ Owned(<<Tunnel, Network>>) = {Tunnel, Network}
      BY <2>3, Books
    <2> QED BY <2>2, <2>3, <2>4
  <1> QED BY <1>1, BothHold, PTL

\* prepareCandidate and advance: the connection that is published is of the target in force,
\* or, for AUTO_SELECT, of a profile of its inventory.
THEOREM ConnectedIsSelected == Spec => []ConnectedTarget
  <1>1. Inv /\ ClientInv => ConnectedTarget
    BY ConnectedWaits DEF ConnectedTarget, Choice
  <1> QED BY <1>1, BothHold, PTL

\* acceptsStopLocked: for any number of candidates, recoveries and switches since a client
\* learnt its generation, a Stop for it is accepted.
THEOREM StopReaches == Spec => []StopReachesAttempt
  <1>1. Inv /\ ClientInv => StopReachesAttempt
    BY DEF StopReachesAttempt, AcceptsStop, ClientInv, KnownReaches, Reached, AttemptActive
  <1> QED BY <1>1, BothHold, PTL

\* primaryAction: the main button is one that works, in every state the session can reach.
THEOREM MainButtonWorks == Spec => []PrimaryActionWorks
  <1>1. Inv /\ ClientInv => PrimaryActionWorks
    <2> SUFFICES ASSUME Inv, ClientInv PROVE PrimaryActionWorks OBVIOUS
    <2>1. ASSUME PrimaryAction = "START" PROVE ~ConfigurationBlocked \/ closing
      BY <2>1 DEF PrimaryAction, ConfigurationBlocked, AttemptActive
    <2>2. ASSUME PrimaryAction = "RETRY" PROVE activeDigest # None /\ \A w \in Slots : ~Running(w)
      <3>1. CanRetry BY <2>2 DEF PrimaryAction
      <3>2. state = "FAILED" /\ ~AttemptActive /\ ~cleanupDone
        BY <3>1 DEF CanRetry, AttemptActive, Inv, Ownership, AtRest
      <3>3. activeDigest # None
        BY <3>2, NoneAssumption DEF ClientInv, SelectionInForce
      <3> QED BY <3>2, <3>3 DEF Inv, SingleOwner
    <2>3. ASSUME PrimaryAction = "STOP" PROVE AcceptsStop(generation) /\ (AttemptActive \/ cleanupFailed)
      <3>1. AttemptActive \/ (state = "FAILED" /\ cleanupFailed)
        BY <2>3 DEF PrimaryAction, ClientInv, Plans, AttemptActive
      <3> QED BY <3>1 DEF AcceptsStop, ClientInv, KnownReaches, AttemptActive
    <2>4. ASSUME PrimaryAction = "NONE" PROVE \E w \in Slots : Running(w)
      <3>1. /\ ~CanRetry /\ ~(state = "FAILED" /\ cleanupFailed)
            /\ state \notin {"PROBING", "PREPARING", "CONNECTED"}
            /\ state = "STOPPING" \/ ~cleanupDone \/ cleanupFailed
        BY <2>4 DEF PrimaryAction
      <3>2. state = "STOPPING"
        BY <3>1 DEF CanRetry, Inv, TypeOK, TypeCodes, State, Ownership, AtRest, AttemptActive
      <3> QED BY <3>2 DEF Inv, SingleOwner, AttemptActive
    <2> QED BY <2>1, <2>2, <2>3, <2>4 DEF PrimaryActionWorks
  <1> QED BY <1>1, BothHold, PTL

\* finish and rollback: no lease outlives its network, no network its tunnel.
THEOREM ReleasesInOrder == Spec => ReleaseOrder
  <1>1. Inv /\ [Next]_vars
          => \A r \in held \ held', q \in held' :
               /\ r.kind = "tunnel" => q.kind \notin {"network", "lease"}
               /\ r.kind = "network" => q.kind # "lease"
    <2> SUFFICES ASSUME Inv, [Next]_vars, NEW r \in held \ held', NEW q \in held', r.kind # "lease"
                 PROVE  /\ r.kind = "tunnel" => q.kind \notin {"network", "lease"}
                        /\ r.kind = "network" => q.kind # "lease"
      OBVIOUS
    <2>1. PICK w \in Slots : Rollback(w) \/ RetireAttempt(w) \/ RetireNetwork(w)
      BY Releases
    <2>2. TypeOK /\ Lease.kind = "lease" /\ Tunnel.kind = "tunnel" /\ Network.kind = "network"
      BY DEF Inv, Lease, Tunnel, Network
    <2>3. ASSUME ledger = <<Lease>>, CloseLast(ledger) PROVE FALSE
      BY <2>2, <2>3, Books DEF CloseLast
    <2>4. CASE Rollback(w)
      <3>1. pc[w] = "rollback" /\ ledger # <<>> /\ CloseLast(ledger)
        BY <2>4 DEF Rollback
      <3>2. ledger = <<Lease>>
        BY <3>1, Worker DEF AcquirePlaces, Inv, Ownership, LedgerShape, NoLedger
      <3> QED BY <2>3, <3>1, <3>2
    <2>5. CASE RetireAttempt(w)
      <3>1. pc[w] = "retireAttempt" /\ CloseLast(ledger)
        BY <2>5 DEF RetireAttempt, RetireFails
      <3>2. ledger = <<Lease>> BY <3>1, Worker DEF FinishPlaces
      <3> QED BY <2>3, <3>1, <3>2
    <2>6. CASE RetireNetwork(w)
      <3>1. pc[w] = "retireNetwork" /\ CloseLast(networkLedger)
        BY <2>6 DEF RetireNetwork, RetireFails
      <3>2. NoLedger(ledger) /\ ~NoLedger(networkLedger) BY <3>1, Worker DEF FinishPlaces
      <3>3. held = Owned(networkLedger)
        BY <2>2, <3>2, Books DEF Inv, Ownership, NothingLeaks, NoLedger
      <3>4. CASE networkLedger = <<Tunnel>>
        BY <2>2, <3>1, <3>3, <3>4, Books DEF CloseLast
      <3>5. CASE networkLedger = <<Tunnel, Network>>
        BY <2>2, <3>1, <3>3, <3>5, Books DEF CloseLast
      <3> QED BY <3>2, <3>4, <3>5 DEF Inv, Ownership, NetworkShape, NetworkComplete
    <2> QED BY <2>1, <2>4, <2>5, <2>6
  <1> QED BY <1>1, Invariance, PTL DEF Spec, ReleaseOrder

\* A long request that ends with a new generation or a replacement is a Start of its own.
LEMMA StartsItself ==
  ASSUME TypeOK, [Next]_vars, NEW c \in Callers, phase[c] \in {"sourceStart", "restoreStart"}, phase'[c] = "idle",
         generation' # generation \/ pending' # pending
  PROVE  StartSource(c) \/ RestoreStart(c)
  <1>1. phase' # phase OBVIOUS
  <1>2. PICK b \in Callers : CallStep(b)
    <2>1. ASSUME NEW target, Start(target) PROVE FALSE BY <1>1, <2>1 DEF Start
    <2>2. ASSUME NEW g, Stop(g) PROVE FALSE
      BY <1>1, <2>2 DEF Stop, StopCleansUp, StopAcknowledged, StopAttempt, StopAccepted
    <2>3. ~StopAndWait /\ ~Resume /\ ~UNCHANGED vars BY <1>1 DEF StopAndWait, Resume, vars
    <2>4. ASSUME NEW w \in Slots, WorkerStep(w) \/ HealthFailure(w) PROVE FALSE
      BY <1>1, <2>4 DEF WorkerStep, PrepareSkip, PrepareTunnel, PrepareNetwork, AcquireNetwork, Activate,
           Activated, PrepareCandidate, AdvanceCandidate, RuntimeStart, Connect, AttemptCanceled, Rollback,
           RollbackDone, FinishBegin, RetireAttempt, RetireDecide, RetireNetwork, FinishCommit, HealthFailure
    <2> QED BY <2>1, <2>2, <2>3, <2>4 DEF Next
  <1>3. StartSource(b) \/ RestoreStart(b)
    BY <1>2 DEF CallStep, ConfigureBegin, ConfigureAccept, Abort, RestoreBegin, RestoreRead, RestoreConfigure
  <1>4. \A a \in Callers : a # b => phase'[a] = phase[a]
    BY <1>3 DEF StartSource, RestoreStart, CallEnds, CallGoes, TypeOK, TypeCalls
  <1> QED BY <1>3, <1>4

\* Restore of a manual selection: whatever other clients load meanwhile, it begins exactly
\* the saved inventory and index, or nothing.
THEOREM RestoresExactly == Spec => RestoreExact
  <1>1. Inv /\ ClientInv /\ [Next]_vars
          => \A c \in Callers :
               /\ phase[c] = "restoreStart" /\ phase'[c] = "idle"
               /\ generation' # generation
               /\ saved[c].target # AutoSelect
               => activeDigest' = saved[c].digest /\ activeTarget' = saved[c].target
    <2> SUFFICES ASSUME Inv, ClientInv, [Next]_vars, NEW c \in Callers, phase[c] = "restoreStart",
                        phase'[c] = "idle", generation' # generation, saved[c].target # AutoSelect
                 PROVE  activeDigest' = saved[c].digest /\ activeTarget' = saved[c].target
      OBVIOUS
    <2>1. RestoreStart(c) BY StartsItself DEF Inv, StartSource
    <2>2. configured[c] = saved[c].digest BY DEF ClientInv, CallsKnow
    <2> QED BY <2>1, <2>2 DEF RestoreStart, Begin, BeginAttempt
  <1> QED BY <1>1, BothHold, PTL DEF Spec, RestoreExact

\* Start with a source, and Restore: they begin, or switch to, the inventory that their own
\* Configure accepted, for any number of clients that load others.
THEOREM StartsOwnInventory == Spec => StartsWhatItLoaded
  <1>1. Inv /\ ClientInv /\ [Next]_vars
          => \A c \in Callers :
               /\ phase[c] \in {"sourceStart", "restoreStart"} /\ phase'[c] = "idle"
               /\ generation' # generation \/ pending' # pending
               => configured[c] = IF pending' # None THEN pending'.digest ELSE activeDigest'
    <2> SUFFICES ASSUME Inv, ClientInv, [Next]_vars, NEW c \in Callers,
                        phase[c] \in {"sourceStart", "restoreStart"}, phase'[c] = "idle",
                        generation' # generation \/ pending' # pending
                 PROVE  configured[c] = IF pending' # None THEN pending'.digest ELSE activeDigest'
      OBVIOUS
    <2>1. StartSource(c) \/ RestoreStart(c) BY StartsItself DEF Inv
    <2>2. configured[c] = digest
      BY <2>1 DEF ClientInv, CallsKnow, StartSource, RestoreStart, SequenceMatches
    <2>3. CASE \E target : Begin(target)
      BY <2>2, <2>3 DEF Begin, ConfigurationBlocked
    <2>4. CASE Replace(AutoSelect)
      <3>1. pending' = [target |-> AutoSelect, digest |-> digest] BY <2>4 DEF Replace
      <3>2. pending' # None
        <4>1. digest \in Digests
          BY <2>1 DEF Inv, TypeOK, TypeSelections, StartSource, RestoreStart
        <4> QED BY <3>1, <4>1, SelectionAssumption DEF Selection, AutoSelect
      <3> QED BY <2>2, <3>1, <3>2
    <2> QED BY <2>1, <2>3, <2>4 DEF StartSource, RestoreStart
  <1> QED BY <1>1, BothHold, PTL DEF Spec, StartsWhatItLoaded
=============================================================================
