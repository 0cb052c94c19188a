--------------------------- MODULE SessionProofs ---------------------------
(***************************************************************************)
(* Proofs about Session: the invariant Inv of SessionInv is inductive, for *)
(* any number of goroutine slots, callers, inventories and recoveries, and *)
(* with it type correctness, single ownership, the absence of leaks and    *)
(* the action properties that a Stop, a failed cleanup and the protection  *)
(* of an active VPN rest on.                                               *)
(***************************************************************************)
EXTENDS SessionInv, SequenceTheorems, TLAPS

-----------------------------------------------------------------------------
(* Ledgers of at most two closers *)

\* The ledgers a session can have are ledgers, and are different.
LEMMA LedgersDiffer ==
  ASSUME NEW r \in Resource, NEW q \in Resource
  PROVE  /\ <<>> \in Ledger /\ <<r>> \in Ledger /\ <<r, q>> \in Ledger
         /\ None # <<>> /\ None # <<r>> /\ None # <<r, q>>
         /\ <<>> # <<r>> /\ <<>> # <<r, q>> /\ <<r>> # <<r, q>>
  <1>1. <<>> \in Seq(Resource) OBVIOUS
  <1>2. <<r>> \in Seq(Resource) OBVIOUS
  <1>3. <<r, q>> \in Seq(Resource) OBVIOUS
  <1>4. Len(<<>>) = 0 /\ Len(<<r>>) = 1 /\ Len(<<r, q>>) = 2 OBVIOUS
  <1>5. <<>> # <<r>> /\ <<>> # <<r, q>> /\ <<r>> # <<r, q>> BY <1>4
  <1> QED BY <1>1, <1>2, <1>3, <1>5, NoneAssumption DEF Ledger

\* push, on a ledger of at most one closer.
LEMMA Pushes ==
  ASSUME NEW r \in Resource, NEW q \in Resource
  PROVE  Append(<<>>, r) = <<r>> /\ Append(<<r>>, q) = <<r, q>>
  <1>1. Append(<<>>, r) = <<r>> OBVIOUS
  <1>2. Append(<<r>>, q) = <<r, q>>
    <2> DEFINE s == Append(<<r>>, q)
    <2>1. <<r>> \in Seq(Resource) /\ <<r, q>> \in Seq(Resource) OBVIOUS
    <2>2. s \in Seq(Resource) /\ Len(s) = 2 /\ s[1] = r /\ s[2] = q BY <2>1
    <2>3. Len(<<r, q>>) = 2 /\ <<r, q>>[1] = r /\ <<r, q>>[2] = q OBVIOUS
    <2>4. \A i \in 1..2 : s[i] = <<r, q>>[i] BY <2>2, <2>3
    <2> QED BY <2>1, <2>2, <2>3, <2>4, SeqEqual
  <1> QED BY <1>1, <1>2

\* The last closer, and the ledger without it.
LEMMA Pops ==
  ASSUME NEW r \in Resource, NEW q \in Resource
  PROVE  /\ Top(<<r>>) = r /\ Pop(<<r>>) = <<>> /\ Len(<<r>>) = 1
         /\ Top(<<r, q>>) = q /\ Pop(<<r, q>>) = <<r>> /\ Len(<<r, q>>) = 2
  <1>1. Len(<<r>>) = 1 /\ Len(<<r, q>>) = 2 OBVIOUS
  <1>2. SubSeq(<<r>>, 1, 0) = <<>> OBVIOUS
  <1>3. SubSeq(<<r, q>>, 1, 1) = <<r>>
    <2> DEFINE s == SubSeq(<<r, q>>, 1, 1)
    <2>1. <<r>> \in Seq(Resource) /\ <<r, q>> \in Seq(Resource) OBVIOUS
    <2>2. s \in Seq(Resource) /\ Len(s) = 1 /\ s[1] = r BY <2>1
    <2>3. Len(<<r>>) = 1 /\ <<r>>[1] = r OBVIOUS
    <2>4. \A i \in 1..1 : s[i] = <<r>>[i] BY <2>2, <2>3
    <2> QED BY <2>1, <2>2, <2>3, <2>4, SeqEqual
  <1> QED BY <1>1, <1>2, <1>3 DEF Top, Pop

\* What such a ledger owns.
LEMMA Owns ==
  ASSUME NEW r \in Resource, NEW q \in Resource
  PROVE  /\ Owned(None) = {} /\ Owned(<<>>) = {}
         /\ Owned(<<r>>) = {r} /\ Owned(<<r, q>>) = {r, q}
  <1>1. Closers(None) = <<>> /\ Closers(<<>>) = <<>> BY DEF Closers
  <1>2. Closers(<<r>>) = <<r>> /\ Closers(<<r, q>>) = <<r, q>>
    BY LedgersDiffer DEF Closers
  <1>3. Owned(None) = {} /\ Owned(<<>>) = {}
    <2>1. Len(<<>>) = 0 /\ 1..0 = {} OBVIOUS
    <2> QED BY <1>1, <2>1 DEF Owned
  <1>4. Owned(<<r>>) = {r}
    <2>1. Len(<<r>>) = 1 /\ 1..1 = {1} OBVIOUS
    <2> QED BY <1>2, <2>1 DEF Owned
  <1>5. Owned(<<r, q>>) = {r, q}
    <2>1. Len(<<r, q>>) = 2 /\ 1..2 = {1, 2} OBVIOUS
    <2> QED BY <1>2, <2>1 DEF Owned
  <1> QED BY <1>3, <1>4, <1>5

\* A session's resources are different.
LEMMA Resources ==
  ASSUME TypeOK
  PROVE  /\ Tunnel \in Resource /\ Network \in Resource /\ Lease \in Resource
         /\ Tunnel # Network /\ Lease # Tunnel /\ Lease # Network
  <1>1. Tunnel.kind = "tunnel" /\ Network.kind = "network" /\ Lease.kind = "lease"
    BY DEF Tunnel, Network, Lease
  <1>2. Tunnel # Network /\ Lease # Tunnel /\ Lease # Network BY <1>1
  <1>3. generation \in Nat /\ networkGeneration \in Nat BY DEF TypeOK, TypeNumbers
  <1>4. Tunnel \in Resource /\ Network \in Resource /\ Lease \in Resource
    BY <1>3 DEF Tunnel, Network, Lease, Resource
  <1> QED BY <1>2, <1>4

\* The same facts of the session's own resources, as the steps below use them.
LEMMA Books ==
  ASSUME TypeOK
  PROVE  /\ Tunnel \in Resource /\ Network \in Resource /\ Lease \in Resource
         /\ Tunnel # Network /\ Lease # Tunnel /\ Lease # Network
         /\ None # <<>> /\ None # <<Tunnel>> /\ None # <<Tunnel, Network>>
         /\ None # <<Lease>>
         /\ <<>> # <<Lease>> /\ <<>> # <<Tunnel>> /\ <<>> # <<Tunnel, Network>>
         /\ <<Tunnel>> # <<Tunnel, Network>>
         /\ Append(<<>>, Lease) = <<Lease>> /\ Append(<<>>, Tunnel) = <<Tunnel>>
         /\ Append(<<Tunnel>>, Network) = <<Tunnel, Network>>
         /\ Top(<<Lease>>) = Lease /\ Pop(<<Lease>>) = <<>> /\ Len(<<Lease>>) = 1
         /\ Top(<<Tunnel>>) = Tunnel /\ Pop(<<Tunnel>>) = <<>> /\ Len(<<Tunnel>>) = 1
         /\ Top(<<Tunnel, Network>>) = Network
         /\ Pop(<<Tunnel, Network>>) = <<Tunnel>> /\ Len(<<Tunnel, Network>>) = 2
         /\ Owned(None) = {} /\ Owned(<<>>) = {} /\ Owned(<<Lease>>) = {Lease}
         /\ Owned(<<Tunnel>>) = {Tunnel}
         /\ Owned(<<Tunnel, Network>>) = {Tunnel, Network}
  <1>1. Tunnel \in Resource /\ Network \in Resource /\ Lease \in Resource BY Resources
  <1>2. /\ None # <<>> /\ None # <<Tunnel>> /\ None # <<Tunnel, Network>>
        /\ None # <<Lease>>
        /\ <<>> # <<Lease>> /\ <<>> # <<Tunnel>> /\ <<>> # <<Tunnel, Network>>
        /\ <<Tunnel>> # <<Tunnel, Network>>
    BY <1>1, LedgersDiffer
  <1>3. /\ Append(<<>>, Lease) = <<Lease>> /\ Append(<<>>, Tunnel) = <<Tunnel>>
        /\ Append(<<Tunnel>>, Network) = <<Tunnel, Network>>
    BY <1>1, Pushes
  <1>4. /\ Top(<<Lease>>) = Lease /\ Pop(<<Lease>>) = <<>> /\ Len(<<Lease>>) = 1
        /\ Top(<<Tunnel>>) = Tunnel /\ Pop(<<Tunnel>>) = <<>> /\ Len(<<Tunnel>>) = 1
        /\ Top(<<Tunnel, Network>>) = Network
        /\ Pop(<<Tunnel, Network>>) = <<Tunnel>> /\ Len(<<Tunnel, Network>>) = 2
    BY <1>1, Pops
  <1>5. /\ Owned(None) = {} /\ Owned(<<>>) = {} /\ Owned(<<Lease>>) = {Lease}
        /\ Owned(<<Tunnel>>) = {Tunnel}
        /\ Owned(<<Tunnel, Network>>) = {Tunnel, Network}
    BY <1>1, Owns
  <1> QED BY <1>1, <1>2, <1>3, <1>4, <1>5, Resources

\* The shapes give the ledgers and the resources their types after a step.
LEMMA OwnerTypes ==
  ASSUME NothingLeaks', LedgerShape', NetworkShape', TypeNumbers',
         cancel' \in Slots \cup {None}, configureRequest' \in Callers \cup {None}
  PROVE  TypeOwners'
  <1>0. generation' \in Nat /\ networkGeneration' \in Nat BY DEF TypeNumbers
  <1>1. Tunnel' \in Resource /\ Network' \in Resource /\ Lease' \in Resource
    BY <1>0 DEF Tunnel, Network, Lease, Resource
  <1>2. None \in Ledger BY DEF Ledger
  <1>3. /\ <<>> \in Ledger /\ <<Lease'>> \in Ledger /\ <<Tunnel'>> \in Ledger
        /\ <<Tunnel', Network'>> \in Ledger
    BY <1>1, LedgersDiffer
  <1>4. ledger' \in Ledger BY <1>2, <1>3 DEF LedgerShape, NoLedger
  <1>5. networkLedger' \in Ledger
    BY <1>2, <1>3 DEF NetworkShape, NetworkComplete, NoLedger
  <1>6. /\ Owned(None) = {} /\ Owned(<<>>) = {} /\ Owned(<<Lease'>>) = {Lease'}
        /\ Owned(<<Tunnel'>>) = {Tunnel'}
        /\ Owned(<<Tunnel', Network'>>) = {Tunnel', Network'}
    BY <1>1, Owns
  <1>7. held' = Owned(ledger') \cup Owned(networkLedger') BY DEF NothingLeaks, Owned, Closers
  <1>8. Owned(ledger') \subseteq Resource BY <1>1, <1>6 DEF LedgerShape, NoLedger
  <1>9. Owned(networkLedger') \subseteq Resource
    BY <1>1, <1>6 DEF NetworkShape, NetworkComplete, NoLedger
  <1> QED BY <1>4, <1>5, <1>7, <1>8, <1>9 DEF TypeOwners

\* A step of a worker that touches nothing but goroutines.
LEMMA OnlyWorkersMove ==
  ASSUME TypeOK, TypeWorkers',
         UNCHANGED <<sessionVars, callVars, current, storeVars, held, known>>
  PROVE  TypeOK'
  <1> USE DEF TypeOK, sessionVars, fenceVars, cleanupVars, netVars, originVars,
              recoveryVars, configVars, selectionVars, callVars, storeVars
  <1>1. TypeNumbers' BY DEF TypeNumbers
  <1>2. TypeFlags' BY DEF TypeFlags
  <1>3. TypeCodes' BY DEF TypeCodes
  <1>4. TypeOwners' BY DEF TypeOwners
  <1>5. TypeSelections' BY DEF TypeSelections
  <1>6. TypeCalls' BY DEF TypeCalls
  <1> QED BY <1>1, <1>2, <1>3, <1>4, <1>5, <1>6

\* A step of a worker that acquires or releases a resource.
LEMMA OnlyBooksMove ==
  ASSUME TypeOK, TypeWorkers', NothingLeaks', LedgerShape', NetworkShape', RetireFrame
  PROVE  TypeOK'
  <1> USE DEF TypeOK, RetireFrame, WorkerFrame, cleanupVars, recoveryVars,
              configVars, selectionVars, callVars, storeVars
  <1>1. TypeNumbers' BY DEF TypeNumbers
  <1>2. TypeFlags' BY DEF TypeFlags
  <1>3. TypeCodes' BY DEF TypeCodes
  <1>4. TypeOwners' BY <1>1, OwnerTypes DEF TypeOwners
  <1>5. TypeSelections' BY DEF TypeSelections
  <1>6. TypeCalls' BY DEF TypeCalls
  <1> QED BY <1>1, <1>2, <1>3, <1>4, <1>5, <1>6

-----------------------------------------------------------------------------
(* Owners *)

\* Generations are natural numbers.
LEMMA Successor == ASSUME NEW n \in Nat PROVE n + 1 \in Nat
  OBVIOUS

\* A session that is not active has a slot for a goroutine, and none running.
LEMMA SlotIsFree ==
  ASSUME SingleOwner, ~AttemptActive
  PROVE  FreeSlot \in Slots /\ \A w \in Slots : pc[w] = "none"
  <1>1. \A w \in Slots : ~Running(w) BY DEF SingleOwner
  <1>2. \E w \in Slots : ~Running(w) BY <1>1, SlotsAssumption
  <1> QED BY <1>1, <1>2 DEF FreeSlot, Running

\* The running worker is alone, of the session's generation, in an active session.
LEMMA Worker ==
  ASSUME Inv, NEW w \in Slots, pc[w] # "none"
  PROVE  /\ \A v \in Slots : v # w => pc[v] = "none"
         /\ wgen[w] = generation /\ AttemptActive
         /\ ~cleanupDone /\ ~cleanupFailed
         /\ AcquirePlaces(w) /\ FinishPlaces(w)
  BY DEF Inv, SingleOwner, Running, Ownership, AtRest

\* What a step has to show that leaves exactly goroutine w running.
LEMMA OneWorker ==
  ASSUME NEW w \in Slots, TypeOK', AttemptActive',
         \A v \in Slots : v # w => pc'[v] = "none",
         pc'[w] # "none", wgen'[w] = generation', ~cleanupDone', ~cleanupFailed',
         NothingLeaks', LedgerShape', NetworkShape', Protected',
         AcquirePlaces(w)', FinishPlaces(w)'
  PROVE  Inv'
  <1>1. SingleOwner' BY DEF SingleOwner, Running
  <1>2. AtRest' BY DEF AtRest, AttemptActive
  <1>3. \A v \in Slots : AcquirePlaces(v)' /\ FinishPlaces(v)'
    BY DEF AcquirePlaces, FinishPlaces, AcquirePc
  <1> QED BY <1>1, <1>2, <1>3 DEF Inv, Ownership

\* What a step has to show that leaves no goroutine running.
LEMMA NoWorker ==
  ASSUME TypeOK', ~AttemptActive', \A v \in Slots : pc'[v] = "none",
         NothingLeaks', LedgerShape', NetworkShape', Protected', AtRest'
  PROVE  Inv'
  <1>1. SingleOwner' BY DEF SingleOwner, Running
  <1>2. \A v \in Slots : AcquirePlaces(v)' /\ FinishPlaces(v)'
    BY DEF AcquirePlaces, FinishPlaces, AcquirePc
  <1> QED BY <1>1, <1>2 DEF Inv, Ownership

-----------------------------------------------------------------------------
(* The worker keeps the invariant: runStart *)

USE DEF fenceVars, cleanupVars, netVars, originVars, recoveryVars, configVars,
        selectionVars, workerVars, callVars, storeVars, sessionVars,
        WorkerFrame, RetireFrame, Goto, Finish

\* A step of worker w that leaves the books, the fences and the generation alone
\* and takes w to another place.
LEMMA MovesOn ==
  ASSUME Inv, NEW w \in Slots, pc[w] # "none", pc'[w] # "none",
         \A v \in Slots : v # w => pc'[v] = pc[v],
         wgen'[w] = wgen[w], AttemptActive', TypeOK',
         UNCHANGED <<generation, ledger, networkLedger, networkGeneration, vpnActive,
                     fenceVars, cleanupVars, held>>,
         AcquirePlaces(w)', FinishPlaces(w)'
  PROVE  Inv'
  <1>1. Tunnel' = Tunnel /\ Network' = Network /\ Lease' = Lease
    BY DEF Tunnel, Network, Lease
  <1>2. NothingLeaks' /\ LedgerShape' /\ NetworkShape' /\ Protected'
    BY <1>1 DEF Inv, Ownership, NothingLeaks, LedgerShape, NetworkShape,
                NetworkComplete, NoLedger, Owned, Closers, Protected
  <1>3. /\ \A v \in Slots : v # w => pc'[v] = "none"
        /\ wgen'[w] = generation' /\ ~cleanupDone' /\ ~cleanupFailed'
    BY Worker
  <1> QED BY <1>2, <1>3, OneWorker

\* The resources have the names they had when the generations are unchanged.
LEMMA SameNames ==
  ASSUME UNCHANGED <<generation, networkGeneration>>
  PROVE  Tunnel' = Tunnel /\ Network' = Network /\ Lease' = Lease
  BY DEF Tunnel, Network, Lease

\* prepareNetwork with the protection up: on to the first candidate.
LEMMA PrepareSkipInv ==
  ASSUME Inv, NEW w \in Slots, PrepareSkip(w)
  PROVE  Inv'
  <1> USE DEF PrepareSkip, FirstCandidate
  <1>1. TypeOK /\ pc[w] = "prepare" BY DEF Inv
  <1>2. FirstIndex(wtarget[w]) \in Nat
    BY <1>1 DEF TypeOK, TypeWorkers, FirstIndex
  <1>3. TypeWorkers'
    BY <1>1, <1>2 DEF TypeOK, TypeWorkers, Pc, AcquirePc
  <1>4. TypeOK'
    BY <1>1, <1>3, OnlyWorkersMove
  <1>5. pc'[w] = "advance" /\ \A v \in Slots : v # w => pc'[v] = pc[v]
    BY <1>1 DEF TypeOK, TypeWorkers
  <1>6. AcquirePlaces(w)' /\ FinishPlaces(w)'
    BY <1>1, <1>5, Worker, SameNames
    DEF AcquirePlaces, FinishPlaces, AcquirePc, NetworkComplete
  <1> QED BY <1>1, <1>4, <1>5, <1>6, Worker, MovesOn DEF AttemptActive

\* After prepareNetwork the worker goes on, or finishes when canceled.
LEMMA ActivatedInv ==
  ASSUME Inv, NEW w \in Slots, Activated(w)
  PROVE  Inv'
  <1> USE DEF Activated, FirstCandidate
  <1>1. TypeOK /\ pc[w] = "activated" BY DEF Inv
  <1>2. FirstIndex(wtarget[w]) \in Nat
    BY <1>1 DEF TypeOK, TypeWorkers, FirstIndex
  <1>3. TypeWorkers'
    BY <1>1, <1>2 DEF TypeOK, TypeWorkers, Pc, AcquirePc, FinishPc, Code
  <1>4. TypeOK'
    BY <1>1, <1>3, OnlyWorkersMove
  <1>5. pc'[w] \in {"advance", "finish"} /\ \A v \in Slots : v # w => pc'[v] = pc[v]
    BY <1>1 DEF TypeOK, TypeWorkers
  <1>6. AcquirePlaces(w)' /\ FinishPlaces(w)'
    BY <1>1, <1>5, Worker, SameNames
    DEF AcquirePlaces, FinishPlaces, AcquirePc, NetworkComplete
  <1> QED BY <1>1, <1>4, <1>5, <1>6, Worker, MovesOn DEF AttemptActive

\* The tunnel is owned as soon as it exists, partial or not.
LEMMA PrepareTunnelInv ==
  ASSUME Inv, NEW w \in Slots, PrepareTunnel(w)
  PROVE  Inv'
  <1> USE DEF PrepareTunnel, AcquireNetwork
  <1>1. TypeOK /\ pc[w] = "prepare" /\ ~vpnActive BY DEF Inv
  <1>2. ledger = <<>> /\ networkLedger = <<>> /\ held = {}
    BY <1>1, Worker, Books DEF AcquirePlaces, Inv, Ownership, NothingLeaks
  <1>3. PICK got \in BOOLEAN, error \in {"", "PLATFORM_FAILED", "CLEANUP_FAILED"} :
          /\ held' = IF got THEN held \cup {Tunnel} ELSE held
          /\ networkLedger' = IF got THEN Append(networkLedger, Tunnel) ELSE networkLedger
          /\ IF got /\ error = "" THEN Goto(w, "network")
             ELSE Finish(w, IF error = "" THEN "PLATFORM_FAILED" ELSE error)
    BY DEF Pushed, Tunnel
  <1>4. Tunnel' = Tunnel /\ Network' = Network /\ Lease' = Lease BY SameNames
  <1>5. NothingLeaks' /\ LedgerShape' /\ NetworkShape' /\ Protected'
    BY <1>1, <1>2, <1>3, <1>4, Books
    DEF NothingLeaks, LedgerShape, NetworkShape, NoLedger, Protected
  <1>6. TypeWorkers'
    BY <1>1 DEF TypeOK, TypeWorkers, Pc, AcquirePc, FinishPc, Code
  <1>7. TypeOK' BY <1>1, <1>5, <1>6, OnlyBooksMove
  <1>8. /\ pc'[w] = "finish" \/ (got /\ pc'[w] = "network")
        /\ \A v \in Slots : v # w => pc'[v] = "none"
    BY <1>1, <1>3, Worker DEF TypeOK, TypeWorkers
  <1>9. AcquirePlaces(w)' /\ FinishPlaces(w)'
    BY <1>1, <1>2, <1>3, <1>4, <1>8, Books
    DEF AcquirePlaces, FinishPlaces, AcquirePc, NetworkComplete
  <1> QED BY <1>1, <1>5, <1>7, <1>8, <1>9, Worker, OneWorker DEF AttemptActive

\* So is the network, on top of the tunnel.
LEMMA PrepareNetworkInv ==
  ASSUME Inv, NEW w \in Slots, PrepareNetwork(w)
  PROVE  Inv'
  <1> USE DEF PrepareNetwork, AcquireNetwork
  <1>1. TypeOK /\ pc[w] = "network" BY DEF Inv
  <1>2. ledger = <<>> /\ networkLedger = <<Tunnel>> /\ held = {Tunnel} /\ ~vpnActive
    BY <1>1, Worker, Books DEF AcquirePlaces, Inv, Ownership, NothingLeaks
  <1>3. PICK got \in BOOLEAN, error \in {"", "PLATFORM_FAILED", "CLEANUP_FAILED"} :
          /\ held' = IF got THEN held \cup {Network} ELSE held
          /\ networkLedger' = IF got THEN Append(networkLedger, Network) ELSE networkLedger
          /\ IF got /\ error = "" THEN Goto(w, "activate")
             ELSE Finish(w, IF error = "" THEN "PLATFORM_FAILED" ELSE error)
    BY DEF Pushed, Network
  <1>4. Tunnel' = Tunnel /\ Network' = Network /\ Lease' = Lease BY SameNames
  <1>5. NothingLeaks' /\ LedgerShape' /\ NetworkShape' /\ Protected'
    BY <1>1, <1>2, <1>3, <1>4, Books
    DEF NothingLeaks, LedgerShape, NetworkShape, NetworkComplete, NoLedger, Protected
  <1>6. TypeWorkers'
    BY <1>1 DEF TypeOK, TypeWorkers, Pc, AcquirePc, FinishPc, Code
  <1>7. TypeOK' BY <1>1, <1>5, <1>6, OnlyBooksMove
  <1>8. /\ pc'[w] = "finish" \/ (got /\ pc'[w] = "activate")
        /\ \A v \in Slots : v # w => pc'[v] = "none"
    BY <1>1, <1>3, Worker DEF TypeOK, TypeWorkers
  <1>9. AcquirePlaces(w)' /\ FinishPlaces(w)'
    BY <1>1, <1>2, <1>3, <1>4, <1>8, Books
    DEF AcquirePlaces, FinishPlaces, AcquirePc, NetworkComplete
  <1> QED BY <1>1, <1>5, <1>7, <1>8, <1>9, Worker, OneWorker DEF AttemptActive

\* The protection is called active only when it is complete.
LEMMA ActivateInv ==
  ASSUME Inv, NEW w \in Slots, Activate(w)
  PROVE  Inv'
  <1> USE DEF Activate, AppendLocked
  <1>1. TypeOK /\ pc[w] = "activate" BY DEF Inv
  <1>2. ledger = <<>> /\ NetworkComplete
    BY <1>1, Worker DEF AcquirePlaces
  <1>3. Tunnel' = Tunnel /\ Network' = Network /\ Lease' = Lease BY SameNames
  <1>4. NothingLeaks' /\ LedgerShape' /\ NetworkShape' /\ Protected'
    BY <1>2, <1>3 DEF Inv, Ownership, NothingLeaks, Owned, Closers, LedgerShape,
                      NetworkShape, NetworkComplete, NoLedger, Protected
  <1>5. TypeOK'
    <2>1. TypeNumbers' BY <1>1 DEF TypeOK, TypeNumbers
    <2>2. TypeFlags' BY <1>1 DEF TypeOK, TypeFlags
    <2>3. TypeCodes' BY <1>1 DEF TypeOK, TypeCodes
    <2>4. TypeOwners' BY <1>1 DEF TypeOK, TypeOwners
    <2>5. TypeSelections' BY <1>1 DEF TypeOK, TypeSelections
    <2>6. TypeWorkers' BY <1>1 DEF TypeOK, TypeWorkers, Pc, AcquirePc
    <2>7. TypeCalls' BY <1>1 DEF TypeOK, TypeCalls
    <2> QED BY <2>1, <2>2, <2>3, <2>4, <2>5, <2>6, <2>7 DEF TypeOK
  <1>6. pc'[w] = "activated" /\ \A v \in Slots : v # w => pc'[v] = "none"
    BY <1>1, Worker DEF TypeOK, TypeWorkers
  <1>7. AcquirePlaces(w)' /\ FinishPlaces(w)'
    BY <1>2, <1>3, <1>6, Books, <1>1 DEF AcquirePlaces, FinishPlaces, AcquirePc, NetworkComplete
  <1> QED BY <1>1, <1>4, <1>5, <1>6, <1>7, Worker, OneWorker DEF AttemptActive

\* A connection that is canceled goes to finish with its lease.
LEMMA AttemptCanceledInv ==
  ASSUME Inv, NEW w \in Slots, AttemptCanceled(w)
  PROVE  Inv'
  <1> USE DEF AttemptCanceled
  <1>1. TypeOK /\ pc[w] = "wait" BY DEF Inv
  <1>2. TypeWorkers'
    BY <1>1 DEF TypeOK, TypeWorkers, Pc, FinishPc, Code
  <1>3. TypeOK' BY <1>1, <1>2, OnlyWorkersMove
  <1>4. pc'[w] = "finish" /\ \A v \in Slots : v # w => pc'[v] = pc[v]
    BY <1>1 DEF TypeOK, TypeWorkers
  <1>5. AcquirePlaces(w)' /\ FinishPlaces(w)'
    BY <1>4 DEF AcquirePlaces, FinishPlaces, AcquirePc
  <1> QED BY <1>1, <1>3, <1>4, <1>5, Worker, MovesOn DEF AttemptActive

\* The next candidate begins with an empty ledger.
LEMMA RollbackDoneInv ==
  ASSUME Inv, NEW w \in Slots, RollbackDone(w)
  PROVE  Inv'
  <1> USE DEF RollbackDone, RolledBack, NextCandidate
  <1>1. TypeOK /\ pc[w] = "rollback" /\ ledger = <<>> BY DEF Inv
  <1>2. windex[w] + 1 \in Nat BY <1>1, Successor DEF TypeOK, TypeWorkers
  <1>3. TypeWorkers'
    BY <1>1, <1>2 DEF TypeOK, TypeWorkers, Pc, AcquirePc, FinishPc, Code
  <1>4. TypeOK' BY <1>1, <1>3, OnlyWorkersMove
  <1>5. pc'[w] \in {"candidate", "finish"} /\ \A v \in Slots : v # w => pc'[v] = pc[v]
    BY <1>1 DEF TypeOK, TypeWorkers
  <1>6. AcquirePlaces(w)' /\ FinishPlaces(w)'
    BY <1>1, <1>5, Worker, SameNames
    DEF AcquirePlaces, FinishPlaces, AcquirePc, NetworkComplete
  <1> QED BY <1>1, <1>4, <1>5, <1>6, Worker, MovesOn DEF AttemptActive

\* A new generation begins while no lease of the old one is left.
LEMMA PrepareCandidateInv ==
  ASSUME Inv, NEW w \in Slots, PrepareCandidate(w)
  PROVE  Inv'
  <1> USE DEF PrepareCandidate
  <1>1. TypeOK /\ pc[w] = "candidate" BY DEF Inv
  <1>2. ledger = <<>> /\ vpnActive /\ NetworkComplete
    BY <1>1, Worker DEF AcquirePlaces
  <1>3. Tunnel' = Tunnel /\ Network' = Network BY DEF Tunnel, Network
  <1>4. NothingLeaks' /\ LedgerShape' /\ NetworkShape' /\ Protected'
    BY <1>2, <1>3 DEF Inv, Ownership, NothingLeaks, Owned, Closers, LedgerShape,
                      NetworkShape, NetworkComplete, NoLedger, Protected
  <1>5. generation + 1 \in Nat BY <1>1, Successor DEF TypeOK, TypeNumbers
  <1>6. TypeOK'
    <2>1. TypeNumbers' BY <1>1, <1>5 DEF TypeOK, TypeNumbers
    <2>2. TypeFlags' BY <1>1 DEF TypeOK, TypeFlags
    <2>3. TypeCodes' BY <1>1 DEF TypeOK, TypeCodes
    <2>4. TypeOwners' BY <1>1 DEF TypeOK, TypeOwners
    <2>5. TypeSelections' BY <1>1 DEF TypeOK, TypeSelections
    <2>6. TypeWorkers'
      BY <1>1, <1>5 DEF TypeOK, TypeWorkers, Pc, AcquirePc, FinishPc, Code
    <2>7. TypeCalls' BY <1>1 DEF TypeOK, TypeCalls
    <2> QED BY <2>1, <2>2, <2>3, <2>4, <2>5, <2>6, <2>7 DEF TypeOK
  <1>7. /\ pc'[w] \in {"advance", "finish"} /\ wgen'[w] = generation'
        /\ \A v \in Slots : v # w => pc'[v] = "none"
    BY <1>1, Worker DEF TypeOK, TypeWorkers
  <1>8. AcquirePlaces(w)' /\ FinishPlaces(w)'
    BY <1>1, <1>2, <1>3, <1>7, Books
    DEF AcquirePlaces, FinishPlaces, AcquirePc, NetworkComplete
  <1> QED BY <1>1, <1>4, <1>6, <1>7, <1>8, Worker, OneWorker DEF AttemptActive

\* A candidate is published by the owner of the generation.
LEMMA AdvanceCandidateInv ==
  ASSUME Inv, NEW w \in Slots, AdvanceCandidate(w)
  PROVE  Inv'
  <1> USE DEF AdvanceCandidate, AppendLocked
  <1>1. TypeOK /\ pc[w] = "advance" BY DEF Inv
  <1>2. active' \in Nat BY <1>1 DEF TypeOK, TypeNumbers, TypeWorkers
  <1>3. TypeOK'
    <2>1. TypeNumbers' BY <1>1, <1>2 DEF TypeOK, TypeNumbers
    <2>2. TypeFlags' BY <1>1 DEF TypeOK, TypeFlags
    <2>3. TypeCodes' BY <1>1 DEF TypeOK, TypeCodes, State
    <2>4. TypeOwners' BY <1>1 DEF TypeOK, TypeOwners
    <2>5. TypeSelections' BY <1>1 DEF TypeOK, TypeSelections
    <2>6. TypeWorkers'
      BY <1>1 DEF TypeOK, TypeWorkers, Pc, AcquirePc, FinishPc, Code
    <2>7. TypeCalls' BY <1>1 DEF TypeOK, TypeCalls
    <2> QED BY <2>1, <2>2, <2>3, <2>4, <2>5, <2>6, <2>7 DEF TypeOK
  <1>4. pc'[w] \in {"start", "finish"} /\ \A v \in Slots : v # w => pc'[v] = pc[v]
    BY <1>1 DEF TypeOK, TypeWorkers
  <1>5. AcquirePlaces(w)' /\ FinishPlaces(w)'
    BY <1>1, <1>4, Worker, SameNames
    DEF AcquirePlaces, FinishPlaces, AcquirePc, NetworkComplete
  <1>6. AttemptActive' BY <1>1, Worker DEF AttemptActive
  <1> QED BY <1>1, <1>3, <1>4, <1>5, <1>6, MovesOn

\* A lease is owned whatever error came with it, and after a late return.
LEMMA RuntimeStartInv ==
  ASSUME Inv, NEW w \in Slots, RuntimeStart(w)
  PROVE  Inv'
  <1> USE DEF RuntimeStart
  <1>1. TypeOK /\ pc[w] = "start" BY DEF Inv
  <1>2. ledger = <<>> /\ vpnActive /\ NetworkComplete /\ held = {Tunnel, Network}
    BY <1>1, Worker, Books
    DEF AcquirePlaces, NetworkComplete, Inv, Ownership, NothingLeaks
  <1>3. [kind |-> "lease", gen |-> wgen[w]] = Lease BY <1>1, Worker DEF Lease
  <1>4. PICK got \in BOOLEAN, error \in {"", "RUNTIME_FAILED", "CLEANUP_FAILED"} :
          /\ held' = IF got THEN held \cup {Lease} ELSE held
          /\ ledger' = IF got THEN Append(ledger, Lease) ELSE ledger
          /\ IF error = "CLEANUP_FAILED" THEN Finish(w, error)
             ELSE /\ pc' = [pc EXCEPT ![w] =
                        IF got /\ error = "" /\ w \notin canceled
                        THEN "connect" ELSE "rollback"]
                  /\ cause' = [cause EXCEPT ![w] =
                        IF ~got /\ error = "" THEN "RUNTIME_FAILED" ELSE ""]
                  /\ UNCHANGED <<wgen, wtarget, windex, canceled>>
    BY <1>3 DEF Pushed
  <1>5. Tunnel' = Tunnel /\ Network' = Network /\ Lease' = Lease BY SameNames
  <1>6. NothingLeaks' /\ LedgerShape' /\ NetworkShape' /\ Protected'
    BY <1>1, <1>2, <1>4, <1>5, Books
    DEF NothingLeaks, LedgerShape, NetworkShape, NetworkComplete, NoLedger, Protected
  <1>7. TypeWorkers'
    BY <1>1, <1>4 DEF TypeOK, TypeWorkers, Pc, AcquirePc, FinishPc, Code
  <1>8. TypeOK' BY <1>1, <1>6, <1>7, OnlyBooksMove
  <1>9. /\ pc'[w] \in {"rollback", "finish"} \/ (got /\ pc'[w] = "connect")
        /\ wgen'[w] = wgen[w]
        /\ \A v \in Slots : v # w => pc'[v] = "none"
    BY <1>1, <1>4, Worker DEF TypeOK, TypeWorkers
  <1>10. AcquirePlaces(w)' /\ FinishPlaces(w)'
    BY <1>1, <1>2, <1>4, <1>5, <1>9, Books
    DEF AcquirePlaces, FinishPlaces, AcquirePc, NetworkComplete
  <1> QED BY <1>1, <1>6, <1>8, <1>9, <1>10, Worker, OneWorker DEF AttemptActive

\* Only a session that owns the lease of its generation becomes CONNECTED.
LEMMA ConnectInv ==
  ASSUME Inv, NEW w \in Slots, Connect(w)
  PROVE  Inv'
  <1> USE DEF Connect, AppendLocked
  <1>1. TypeOK /\ pc[w] = "connect" BY DEF Inv
  <1>2. /\ active' = active \/ active' = windex[w]
        /\ startOrigin' = startOrigin \/ startOrigin' = 0
        /\ recoveryOrigin' = recoveryOrigin \/ recoveryOrigin' = 0
        /\ known' = known \/ known' = generation
        /\ UNCHANGED <<generation, networkGeneration, switchOrigin, recoveryCount,
                       activeTarget>>
    OBVIOUS
  <1>3. TypeOK'
    <2>0. windex[w] \in Nat BY <1>1 DEF TypeOK, TypeWorkers
    <2>1. TypeNumbers'
      <3> HIDE DEF Connect
      <3> QED BY <1>1, <1>2, <2>0 DEF TypeOK, TypeNumbers
    <2>2. TypeFlags' BY <1>1 DEF TypeOK, TypeFlags
    <2>3. TypeCodes' BY <1>1 DEF TypeOK, TypeCodes, State, Code
    <2>4. TypeOwners' BY <1>1 DEF TypeOK, TypeOwners
    <2>5. TypeSelections' BY <1>1 DEF TypeOK, TypeSelections
    <2>6. TypeWorkers'
      BY <1>1 DEF TypeOK, TypeWorkers, Pc, AcquirePc, FinishPc, Code
    <2>7. TypeCalls' BY <1>1 DEF TypeOK, TypeCalls
    <2> QED BY <2>1, <2>2, <2>3, <2>4, <2>5, <2>6, <2>7 DEF TypeOK
  <1>4. pc'[w] \in {"wait", "finish"} /\ \A v \in Slots : v # w => pc'[v] = pc[v]
    BY <1>1 DEF TypeOK, TypeWorkers
  <1>5. AcquirePlaces(w)' /\ FinishPlaces(w)'
    BY <1>1, <1>4, Worker, SameNames, Books
    DEF AcquirePlaces, FinishPlaces, AcquirePc, NetworkComplete
  <1>6. AttemptActive' BY <1>1, Worker DEF AttemptActive
  <1> QED BY <1>1, <1>3, <1>4, <1>5, <1>6, MovesOn

\* A health failure leaves the worker the one owner of the cleanup.
LEMMA HealthFailureInv ==
  ASSUME Inv, NEW w \in Slots, HealthFailure(w)
  PROVE  Inv'
  <1> USE DEF HealthFailure, AppendLocked
  <1>1. TypeOK /\ pc[w] = "wait" BY DEF Inv
  <1>2. TypeOK'
    <2>1. recoveryCount' \in 0..AutoRecoveryLimit
      <3>1. recoveryCount \in 0..AutoRecoveryLimit BY <1>1 DEF TypeOK, TypeNumbers
      <3>2. CASE recoveryCount' = recoveryCount BY <3>1, <3>2
      <3>3. CASE ~(recoveryCount' = recoveryCount)
        <4>1. PICK n \in {0, recoveryCount} :
                 recoveryCount' = n \/ (n < AutoRecoveryLimit /\ recoveryCount' = n + 1)
          BY <3>3 DEF PrepareHealthRecovery, RecoveryAllowed
        <4> QED BY <3>1, <4>1, BoundsAssumption
      <3> QED BY <3>2, <3>3
    <2>2. recoveryOrigin' \in Nat
      BY <1>1 DEF TypeOK, TypeNumbers, TypeWorkers, PrepareHealthRecovery
    <2>3. TypeNumbers' BY <1>1, <2>1, <2>2 DEF TypeOK, TypeNumbers
    <2>4. TypeFlags' BY <1>1 DEF TypeOK, TypeFlags, PrepareHealthRecovery
    <2>5. TypeCodes' BY <1>1 DEF TypeOK, TypeCodes, State, Code, PrepareHealthRecovery
    <2>6. TypeOwners' BY <1>1 DEF TypeOK, TypeOwners
    <2>7. TypeSelections' BY <1>1 DEF TypeOK, TypeSelections
    <2>8. canceled' \subseteq Slots BY <1>1 DEF TypeOK, TypeOwners, TypeWorkers, Cancel
    <2>9. TypeWorkers' BY <1>1, <2>8 DEF TypeOK, TypeWorkers, Pc, FinishPc
    <2>10. TypeCalls' BY <1>1 DEF TypeOK, TypeCalls
    <2> QED BY <2>3, <2>4, <2>5, <2>6, <2>7, <2>9, <2>10 DEF TypeOK
  <1>3. pc'[w] = "finish" /\ \A v \in Slots : v # w => pc'[v] = pc[v]
    BY <1>1 DEF TypeOK, TypeWorkers
  <1>4. AcquirePlaces(w)' /\ FinishPlaces(w)'
    BY <1>3 DEF AcquirePlaces, FinishPlaces, AcquirePc
  <1>5. AttemptActive' BY <1>1, Worker DEF AttemptActive
  <1> QED BY <1>1, <1>2, <1>3, <1>4, <1>5, MovesOn

\* A lease that was closed is off the books; one that was not stays on.
LEMMA RollbackInv ==
  ASSUME Inv, NEW w \in Slots, Rollback(w)
  PROVE  Inv'
  <1> USE DEF Rollback, CloseLast
  <1>1. TypeOK /\ pc[w] = "rollback" /\ ledger # <<>> BY DEF Inv
  <1>2. /\ ledger = <<Lease>> /\ vpnActive /\ NetworkComplete
        /\ held = {Lease, Tunnel, Network}
    BY <1>1, Worker, Books
    DEF AcquirePlaces, NetworkComplete, Inv, Ownership, NothingLeaks, LedgerShape,
        NoLedger
  <1>3. Tunnel' = Tunnel /\ Network' = Network /\ Lease' = Lease BY SameNames
  <1>4. \/ held' = {Tunnel, Network} /\ ledger' = <<>> /\ UNCHANGED workerVars
        \/ Finish(w, "CLEANUP_FAILED") /\ UNCHANGED <<ledger, held>>
    BY <1>1, <1>2, Books
  <1>5. NothingLeaks' /\ LedgerShape' /\ NetworkShape' /\ Protected'
    BY <1>1, <1>2, <1>3, <1>4, Books
    DEF NothingLeaks, LedgerShape, NetworkShape, NetworkComplete, NoLedger, Protected
  <1>6. TypeWorkers'
    BY <1>1, <1>4 DEF TypeOK, TypeWorkers, Pc, AcquirePc, FinishPc, Code
  <1>7. TypeOK' BY <1>1, <1>5, <1>6, OnlyBooksMove
  <1>8. /\ pc'[w] \in {"rollback", "finish"} /\ wgen'[w] = wgen[w]
        /\ \A v \in Slots : v # w => pc'[v] = "none"
    BY <1>1, <1>4, Worker DEF TypeOK, TypeWorkers
  <1>9. AcquirePlaces(w)' /\ FinishPlaces(w)'
    BY <1>1, <1>2, <1>3, <1>4, <1>8, Books
    DEF AcquirePlaces, FinishPlaces, AcquirePc, NetworkComplete
  <1> QED BY <1>1, <1>5, <1>7, <1>8, <1>9, Worker, OneWorker DEF AttemptActive

-----------------------------------------------------------------------------
(* The worker keeps the invariant: finish *)

\* finish never finds itself stale: the generation is its own.
LEMMA FinishBeginInv ==
  ASSUME Inv, NEW w \in Slots, FinishBegin(w)
  PROVE  Inv'
  <1> USE DEF FinishBegin
  <1>1. TypeOK /\ pc[w] = "finish" BY DEF Inv
  <1>2. Goto(w, IF cause[w] # "CLEANUP_FAILED" /\ Closers(ledger) # <<>>
                THEN "retireAttempt" ELSE "decide")
    BY <1>1, Worker
  <1>3. TypeWorkers' BY <1>1, <1>2 DEF TypeOK, TypeWorkers, Pc, FinishPc
  <1>4. TypeOK' BY <1>1, <1>3, OnlyWorkersMove
  <1>5. /\ pc'[w] \in {"retireAttempt", "decide"} /\ cause' = cause
        /\ \A v \in Slots : v # w => pc'[v] = pc[v]
    BY <1>1, <1>2 DEF TypeOK, TypeWorkers
  <1>6. pc'[w] = "retireAttempt" => cause[w] # "CLEANUP_FAILED" /\ ~NoLedger(ledger)
    BY <1>1, <1>2, Books DEF TypeOK, TypeWorkers, Closers, NoLedger
  <1>7. pc'[w] = "decide" => cause[w] = "CLEANUP_FAILED" \/ NoLedger(ledger)
    BY <1>1, <1>2, Books DEF TypeOK, TypeWorkers, Closers, NoLedger
  <1>8. AcquirePlaces(w)' /\ FinishPlaces(w)'
    BY <1>5, <1>6, <1>7, SameNames
    DEF AcquirePlaces, FinishPlaces, AcquirePc, Inv, Ownership, LedgerShape, NoLedger
  <1> QED BY <1>1, <1>2, <1>4, <1>5, <1>8, Worker, MovesOn DEF AttemptActive

\* The attempt's lease is closed, or kept with a cleanup failure.
LEMMA RetireAttemptInv ==
  ASSUME Inv, NEW w \in Slots, RetireAttempt(w)
  PROVE  Inv'
  <1> USE DEF RetireAttempt, CloseLast, RetireFails
  <1>1. TypeOK /\ pc[w] = "retireAttempt" BY DEF Inv
  <1>2. ledger = <<Lease>> /\ cause[w] # "CLEANUP_FAILED" BY <1>1, Worker DEF FinishPlaces
  <1>3. Tunnel' = Tunnel /\ Network' = Network /\ Lease' = Lease BY SameNames
  <1>4. \/ /\ held' = held \ {Lease} /\ ledger' = <<>> /\ Goto(w, "decide")
           /\ UNCHANGED networkLedger
        \/ RetireFails(w, "decide")
    BY <1>1, <1>2, Books
  <1>5. held = {Lease} \cup Owned(networkLedger) /\ Lease \notin Owned(networkLedger)
    BY <1>1, <1>2, Books
    DEF Inv, Ownership, NothingLeaks, NetworkShape, NetworkComplete, NoLedger
  <1>6. NothingLeaks' /\ LedgerShape' /\ NetworkShape' /\ Protected'
    <2>1. NothingLeaks' BY <1>1, <1>2, <1>4, <1>5, Books DEF NothingLeaks
    <2>2. LedgerShape' BY <1>2, <1>3, <1>4 DEF LedgerShape, NoLedger
    <2>3. NetworkShape' /\ Protected'
      BY <1>3, <1>4 DEF Inv, Ownership, NetworkShape, NetworkComplete, NoLedger, Protected
    <2> QED BY <2>1, <2>2, <2>3
  <1>7. TypeWorkers'
    BY <1>1, <1>4 DEF TypeOK, TypeWorkers, Pc, FinishPc, Code
  <1>8. TypeOK' BY <1>1, <1>6, <1>7, OnlyBooksMove
  <1>9. /\ pc'[w] = "decide" /\ wgen'[w] = wgen[w]
        /\ cause'[w] = "CLEANUP_FAILED" \/ ledger' = <<>>
        /\ \A v \in Slots : v # w => pc'[v] = "none"
    BY <1>1, <1>4, Worker DEF TypeOK, TypeWorkers
  <1>10. AcquirePlaces(w)' /\ FinishPlaces(w)'
    BY <1>9 DEF AcquirePlaces, FinishPlaces, AcquirePc, NoLedger
  <1> QED BY <1>1, <1>6, <1>8, <1>9, <1>10, Worker, OneWorker DEF AttemptActive

\* The protection is marked for release only for a stop or when incomplete.
LEMMA RetireDecideInv ==
  ASSUME Inv, NEW w \in Slots, RetireDecide(w)
  PROVE  Inv'
  <1> USE DEF RetireDecide
  <1>1. TypeOK /\ pc[w] = "decide" BY DEF Inv
  <1>2. TypeWorkers' BY <1>1 DEF TypeOK, TypeWorkers, Pc, FinishPc
  <1>3. TypeOK' BY <1>1, <1>2, OnlyWorkersMove
  <1>4. /\ pc'[w] \in {"retireNetwork", "commitReleased", "commitKept"} /\ cause' = cause
        /\ \A v \in Slots : v # w => pc'[v] = pc[v]
    BY <1>1 DEF TypeOK, TypeWorkers
  <1>5. /\ pc'[w] = "commitKept" => ~ReleaseNetwork
        /\ pc'[w] \in {"retireNetwork", "commitReleased"} => ReleaseNetwork
        /\ pc'[w] = "retireNetwork"
              => cause[w] # "CLEANUP_FAILED" /\ Closers(networkLedger) # <<>>
        /\ pc'[w] = "commitReleased"
              => cause[w] = "CLEANUP_FAILED" \/ Closers(networkLedger) = <<>>
    BY <1>1 DEF TypeOK, TypeWorkers
  <1>6. Closers(networkLedger) = <<>> <=> NoLedger(networkLedger)
    BY DEF Closers, NoLedger
  <1>7. cause[w] = "CLEANUP_FAILED" \/ NoLedger(ledger)
    BY <1>1, Worker DEF FinishPlaces
  <1>8. ReleaseNetwork' = ReleaseNetwork /\ vpnActive' = vpnActive BY DEF ReleaseNetwork
  <1>9. FinishPlaces(w)'
    BY <1>4, <1>5, <1>6, <1>7, <1>8 DEF FinishPlaces, NoLedger, ReleaseNetwork
  <1>10. AcquirePlaces(w)' BY <1>4 DEF AcquirePlaces, AcquirePc
  <1> QED BY <1>1, <1>3, <1>4, <1>9, <1>10, Worker, MovesOn DEF AttemptActive

\* Network and tunnel are closed in turn, or kept with a cleanup failure.
LEMMA RetireNetworkInv ==
  ASSUME Inv, NEW w \in Slots, RetireNetwork(w)
  PROVE  Inv'
  <1> USE DEF RetireNetwork, CloseLast, RetireFails
  <1>1. TypeOK /\ pc[w] = "retireNetwork" BY DEF Inv
  <1>2. /\ cause[w] # "CLEANUP_FAILED" /\ NoLedger(ledger) /\ ReleaseNetwork
        /\ networkLedger = <<Tunnel>> \/ networkLedger = <<Tunnel, Network>>
        /\ held = Owned(networkLedger)
    BY <1>1, Worker, Books
    DEF FinishPlaces, Inv, Ownership, NothingLeaks, NetworkShape, NetworkComplete, NoLedger
  <1>3. Tunnel' = Tunnel /\ Network' = Network /\ Lease' = Lease BY SameNames
  <1>4. \/ /\ networkLedger = <<Tunnel>> /\ networkLedger' = <<>> /\ held' = {}
           /\ Goto(w, "commitReleased") /\ UNCHANGED ledger
        \/ /\ networkLedger' = <<Tunnel>> /\ held' = {Tunnel}
           /\ UNCHANGED <<workerVars, ledger>>
        \/ RetireFails(w, "commitReleased")
    BY <1>1, <1>2, Books
  <1>5. NothingLeaks' BY <1>1, <1>2, <1>4, Books DEF NothingLeaks, NoLedger
  <1>6. LedgerShape' BY <1>2, <1>4 DEF LedgerShape, NoLedger
  <1>7. NetworkShape'
    BY <1>2, <1>3, <1>4 DEF NetworkShape, NetworkComplete, NoLedger
  <1>8. Protected' /\ ReleaseNetwork' BY <1>2 DEF Protected, ReleaseNetwork
  <1>9. TypeWorkers'
    BY <1>1, <1>4 DEF TypeOK, TypeWorkers, Pc, FinishPc, Code
  <1>10. TypeOK' BY <1>1, <1>5, <1>6, <1>7, <1>9, OnlyBooksMove
  <1>11. /\ wgen'[w] = wgen[w] /\ NoLedger(ledger')
         /\ \A v \in Slots : v # w => pc'[v] = "none"
         /\ \/ /\ pc'[w] = "commitReleased"
               /\ cause'[w] = "CLEANUP_FAILED" \/ networkLedger' = <<>>
            \/ /\ pc'[w] = "retireNetwork" /\ cause'[w] # "CLEANUP_FAILED"
               /\ networkLedger' = <<Tunnel>>
    BY <1>1, <1>2, <1>4, Worker DEF TypeOK, TypeWorkers
  <1>12. AcquirePlaces(w)' /\ FinishPlaces(w)'
    BY <1>1, <1>8, <1>11, Books DEF AcquirePlaces, FinishPlaces, AcquirePc, NoLedger
  <1> QED BY <1>1, <1>5, <1>6, <1>7, <1>8, <1>10, <1>11, <1>12, Worker, OneWorker
          DEF AttemptActive

\* beginAttemptLocked in a session without a running goroutine, or by the only
\* one: the types of what it changes, and the new owner.
LEMMA BeginAttemptStarts ==
  ASSUME TypeOK, NEW w \in Slots, NEW target \in Nat, BeginAttempt(w, target),
         \A v \in Slots : v # w => pc[v] = "none"
  PROVE  /\ generation' \in Nat /\ active' = 0 /\ activeTarget' = target
         /\ cancel' = w /\ ledger' = <<>> /\ state' = "PROBING" /\ AttemptActive'
         /\ ~cleanupDone' /\ ~cleanupFailed' /\ ~stopRequested'
         /\ ~restartAfterCleanup' /\ failureAfterCleanup' = ""
         /\ cleanupDone' \in BOOLEAN /\ cleanupFailed' \in BOOLEAN
         /\ stopRequested' \in BOOLEAN /\ restartAfterCleanup' \in BOOLEAN
         /\ TypeWorkers' /\ current' = {}
         /\ pc'[w] = "prepare" /\ wgen'[w] = generation'
         /\ \A v \in Slots : v # w => pc'[v] = "none"
  <1> USE DEF BeginAttempt, Spawn
  <1>1. generation + 1 \in Nat BY Successor DEF TypeOK, TypeNumbers
  <1>2. TypeWorkers' BY <1>1 DEF TypeOK, TypeWorkers, Pc, AcquirePc, Code
  <1>3. /\ pc'[w] = "prepare" /\ wgen'[w] = generation'
        /\ \A v \in Slots : v # w => pc'[v] = "none"
    BY DEF TypeOK, TypeWorkers
  <1> QED BY <1>1, <1>2, <1>3 DEF AppendLocked, AttemptActive

\* A failed cleanup rests with everything it still owns on the books.
LEMMA CommitCleanupFailureInv ==
  ASSUME Inv, NEW w \in Slots, pc[w] # "none",
         CommitCleanupFailure(w), UNCHANGED held, WorkerFrame
  PROVE  Inv'
  <1> USE DEF CommitCleanupFailure, Exit, Spawn, AppendLocked
  <1>1. TypeOK BY DEF Inv
  <1>2. NothingLeaks' /\ LedgerShape' /\ NetworkShape' /\ Protected'
    BY SameNames DEF Inv, Ownership, NothingLeaks, Owned, Closers, LedgerShape,
                     NetworkShape, NetworkComplete, NoLedger, Protected
  <1>3. TypeOK'
    <2>1. TypeNumbers' BY <1>1 DEF TypeOK, TypeNumbers
    <2>2. TypeFlags' BY <1>1 DEF TypeOK, TypeFlags
    <2>3. TypeCodes' BY <1>1 DEF TypeOK, TypeCodes, State, Code
    <2>4. TypeOwners' BY <1>1 DEF TypeOK, TypeOwners
    <2>5. TypeSelections' BY <1>1 DEF TypeOK, TypeSelections
    <2>6. TypeWorkers' BY <1>1 DEF TypeOK, TypeWorkers, Pc, Code
    <2>7. TypeCalls' BY <1>1 DEF TypeOK, TypeCalls, Phase
    <2> QED BY <2>1, <2>2, <2>3, <2>4, <2>5, <2>6, <2>7 DEF TypeOK
  <1>4. ~AttemptActive' /\ \A v \in Slots : pc'[v] = "none"
    BY <1>1, Worker DEF TypeOK, TypeWorkers, AttemptActive
  <1>5. AtRest' BY DEF AtRest, AttemptActive
  <1> QED BY <1>2, <1>3, <1>4, <1>5, NoWorker

\* A Stop during attempt cleanup has one owner: the second finish.
LEMMA CommitAgainInv ==
  ASSUME Inv, NEW w \in Slots, CommitAgain(w), UNCHANGED held, WorkerFrame
  PROVE  Inv'
  <1> USE DEF CommitAgain, Released, Spawn
  <1>1. TypeOK /\ pc[w] = "commitKept" /\ cause[w] # "CLEANUP_FAILED" BY DEF Inv
  <1>2. NoLedger(ledger) /\ held = Owned(networkLedger)
    BY <1>1, Worker, Books DEF FinishPlaces, NoLedger, Inv, Ownership, NothingLeaks
  <1>3. NothingLeaks' BY <1>1, <1>2, Books DEF NothingLeaks
  <1>4. LedgerShape' /\ NetworkShape' /\ Protected'
    BY <1>1, SameNames DEF Inv, Ownership, LedgerShape, NetworkShape, NetworkComplete,
                     NoLedger, Protected
  <1>5. TypeOK'
    <2>1. TypeNumbers' BY <1>1 DEF TypeOK, TypeNumbers
    <2>2. TypeFlags' BY <1>1 DEF TypeOK, TypeFlags
    <2>3. TypeCodes' BY <1>1 DEF TypeOK, TypeCodes, State
    <2>4. TypeOwners' BY <1>1, <2>1, <1>3, <1>4, OwnerTypes DEF TypeOK, TypeOwners
    <2>5. TypeSelections' BY <1>1 DEF TypeOK, TypeSelections
    <2>6. TypeWorkers' BY <1>1 DEF TypeOK, TypeWorkers, Pc, FinishPc, Code
    <2>7. TypeCalls' BY <1>1 DEF TypeOK, TypeCalls, Phase
    <2> QED BY <2>1, <2>2, <2>3, <2>4, <2>5, <2>6, <2>7 DEF TypeOK
  <1>6. /\ pc'[w] = "finish" /\ wgen'[w] = generation'
        /\ \A v \in Slots : v # w => pc'[v] = "none"
    BY <1>1, Worker DEF TypeOK, TypeWorkers
  <1>7. AcquirePlaces(w)' /\ FinishPlaces(w)'
    BY <1>6 DEF AcquirePlaces, FinishPlaces, AcquirePc
  <1>8. AttemptActive' /\ ~cleanupDone' /\ ~cleanupFailed'
    BY <1>1, Worker DEF AttemptActive
  <1> QED BY <1>3, <1>4, <1>5, <1>6, <1>7, <1>8, OneWorker

\* A stopped session owns nothing.
LEMMA CommitStoppedInv ==
  ASSUME Inv, NEW w \in Slots, CommitStopped(w), UNCHANGED held, WorkerFrame
  PROVE  Inv'
  <1> USE DEF CommitStopped, Released, Exit, Spawn, AppendLocked, DropRecovery
  <1>1. TypeOK /\ pc[w] = "commitReleased" /\ cause[w] # "CLEANUP_FAILED" BY DEF Inv
  <1>2. NoLedger(ledger) /\ NoLedger(networkLedger) /\ held = {}
    BY <1>1, Worker, Books DEF FinishPlaces, NoLedger, Inv, Ownership, NothingLeaks
  <1>3. ledger' = None /\ networkLedger' = None /\ vpnActive' = FALSE /\ held' = {}
    BY <1>1, <1>2
  <1>4. NothingLeaks' /\ LedgerShape' /\ NetworkShape' /\ Protected'
    BY <1>1, <1>3, Books DEF NothingLeaks, LedgerShape, NetworkShape, NoLedger, Protected
  <1>5. TypeOK'
    <2>1. TypeNumbers' BY <1>1 DEF TypeOK, TypeNumbers
    <2>2. TypeFlags' BY <1>1 DEF TypeOK, TypeFlags
    <2>3. TypeCodes' BY <1>1 DEF TypeOK, TypeCodes, State
    <2>4. TypeOwners' BY <1>1, <2>1, <1>4, OwnerTypes DEF TypeOK, TypeOwners
    <2>5. TypeSelections' BY <1>1 DEF TypeOK, TypeSelections
    <2>6. TypeWorkers' BY <1>1 DEF TypeOK, TypeWorkers, Pc, Code
    <2>7. TypeCalls' BY <1>1 DEF TypeOK, TypeCalls, Phase
    <2> QED BY <2>1, <2>2, <2>3, <2>4, <2>5, <2>6, <2>7 DEF TypeOK
  <1>6. ~AttemptActive' /\ \A v \in Slots : pc'[v] = "none"
    BY <1>1, Worker DEF TypeOK, TypeWorkers, AttemptActive
  <1>7. AtRest' BY <1>3 DEF AtRest, AttemptActive
  <1> QED BY <1>4, <1>5, <1>6, <1>7, NoWorker

\* A failed session is dormant under a complete protection, or clean.
LEMMA CommitFailedInv ==
  ASSUME Inv, NEW w \in Slots, pc[w] \in {"commitKept", "commitReleased"},
         CommitFailed(w), UNCHANGED held, WorkerFrame
  PROVE  Inv'
  <1> USE DEF CommitFailed, Released, Exit, Spawn, AppendLocked
  <1>1. TypeOK /\ cause[w] # "CLEANUP_FAILED" BY DEF Inv
  <1>2. NoLedger(ledger) /\ held = Owned(networkLedger)
    BY <1>1, Worker, Books DEF FinishPlaces, NoLedger, Inv, Ownership, NothingLeaks
  <1>3. \/ /\ pc[w] = "commitReleased" /\ networkLedger' = None /\ vpnActive' = FALSE
           /\ held' = {} /\ cleanupDone' = TRUE
        \/ /\ pc[w] = "commitKept" /\ vpnActive' = TRUE /\ vpnActive
           /\ networkLedger' = networkLedger /\ cleanupDone' = FALSE
    <2>1. CASE pc[w] = "commitReleased"
      BY <1>1, <1>2, <2>1, Worker, Books DEF FinishPlaces, NoLedger
    <2>2. CASE pc[w] = "commitKept"
      BY <1>1, <2>2, Worker DEF FinishPlaces, TypeOK, TypeFlags
    <2> QED BY <2>1, <2>2
  <1>4. ledger' = None /\ held' = held OBVIOUS
  <1>5. NothingLeaks' BY <1>1, <1>2, <1>3, <1>4, Books DEF NothingLeaks
  <1>6. LedgerShape' /\ NetworkShape' /\ Protected'
    BY <1>1, <1>3, <1>4, SameNames DEF Inv, Ownership, LedgerShape, NetworkShape,
       NetworkComplete, NoLedger, Protected
  <1>7. FailureToReport(w) \in Code
    BY <1>1 DEF FailureToReport, CodeOf, TypeOK, TypeCodes, TypeWorkers, Code
  <1>8. TypeOK'
    <2>1. TypeNumbers' BY <1>1 DEF TypeOK, TypeNumbers
    <2>2. TypeFlags' BY <1>1, <1>3 DEF TypeOK, TypeFlags
    <2>3. TypeCodes' BY <1>1, <1>7 DEF TypeOK, TypeCodes, State, Code
    <2>4. TypeOwners' BY <1>1, <2>1, <1>5, <1>6, OwnerTypes DEF TypeOK, TypeOwners
    <2>5. TypeSelections' BY <1>1 DEF TypeOK, TypeSelections
    <2>6. TypeWorkers' BY <1>1 DEF TypeOK, TypeWorkers, Pc, Code
    <2>7. TypeCalls' BY <1>1 DEF TypeOK, TypeCalls, Phase
    <2> QED BY <2>1, <2>2, <2>3, <2>4, <2>5, <2>6, <2>7 DEF TypeOK
  <1>9. ~AttemptActive' /\ \A v \in Slots : pc'[v] = "none"
    BY <1>1, Worker DEF TypeOK, TypeWorkers, AttemptActive
  <1>10. AtRest' BY <1>3, <1>4 DEF AtRest, AttemptActive
  <1> QED BY <1>5, <1>6, <1>8, <1>9, <1>10, NoWorker

\* A recovery or a replacement begins with the protection and no lease.
LEMMA CommitNextInv ==
  ASSUME Inv, NEW w \in Slots, CommitNext(w), UNCHANGED held, WorkerFrame
  PROVE  Inv'
  <1>1. TypeOK /\ pc[w] = "commitKept" /\ vpnActive /\ cause[w] # "CLEANUP_FAILED"
    BY DEF Inv, CommitNext, Released, GoesOn
  <1>2. NoLedger(ledger) /\ NetworkComplete /\ held = {Tunnel, Network}
    BY <1>1, Worker, Books
    DEF CommitNext, FinishPlaces, NoLedger, Inv, Ownership, NothingLeaks, Protected,
        NetworkComplete
  <1>3. PICK target \in Nat : BeginAttempt(w, target)
    BY <1>1 DEF CommitNext, TypeOK, TypeNumbers, TypeSelections, Selection
  <1>4. \A v \in Slots : v # w => pc[v] = "none" BY <1>1, Worker
  <1>5. /\ generation' \in Nat /\ active' = 0 /\ activeTarget' = target
        /\ cancel' = w /\ ledger' = <<>> /\ state' = "PROBING" /\ AttemptActive'
        /\ ~cleanupDone' /\ ~cleanupFailed' /\ ~stopRequested'
        /\ failureAfterCleanup' = ""
        /\ cleanupDone' \in BOOLEAN /\ cleanupFailed' \in BOOLEAN
        /\ stopRequested' \in BOOLEAN /\ restartAfterCleanup' \in BOOLEAN
        /\ TypeWorkers' /\ current' = {}
        /\ pc'[w] = "prepare" /\ wgen'[w] = generation'
        /\ \A v \in Slots : v # w => pc'[v] = "none"
    BY <1>1, <1>3, <1>4, BeginAttemptStarts
  <1>6. /\ UNCHANGED <<networkLedger, vpnActive, networkGeneration, lastFailure,
                       startOrigin, recoveryOrigin, recovering, known, closing,
                       switchOrigin>>
        /\ recoveryCount' = 0 \/ recoveryCount' = recoveryCount
        /\ pending' = None
        /\ activeDigest' = activeDigest \/ activeDigest' \in Digests
    BY <1>1 DEF CommitNext, Released, TypeOK, TypeSelections, Selection
  <1>7. Tunnel' = Tunnel /\ Network' = Network BY <1>6 DEF Tunnel, Network
  <1>8. NothingLeaks' /\ LedgerShape' /\ NetworkShape' /\ Protected'
    BY <1>1, <1>2, <1>5, <1>6, <1>7, Books
    DEF NothingLeaks, LedgerShape, NetworkShape, NetworkComplete, NoLedger, Protected
  <1>9. TypeOK'
    <2>0. recoveryCount' \in 0..AutoRecoveryLimit
      BY <1>1, <1>6, BoundsAssumption DEF TypeOK, TypeNumbers
    <2>1. TypeNumbers' BY <1>1, <1>5, <1>6, <2>0 DEF TypeOK, TypeNumbers
    <2>2. TypeFlags' BY <1>1, <1>5, <1>6 DEF TypeOK, TypeFlags
    <2>3. TypeCodes' BY <1>1, <1>5, <1>6 DEF TypeOK, TypeCodes, State, Code
    <2>4. TypeOwners' BY <1>1, <1>5, <1>8, <2>1, OwnerTypes DEF TypeOK, TypeOwners
    <2>5. TypeSelections' BY <1>1, <1>6 DEF TypeOK, TypeSelections
    <2>6. TypeCalls' BY <1>1, <1>5 DEF TypeOK, TypeCalls
    <2> QED BY <1>5, <2>1, <2>2, <2>3, <2>4, <2>5, <2>6 DEF TypeOK
  <1>10. AcquirePlaces(w)' /\ FinishPlaces(w)'
    BY <1>1, <1>2, <1>5, <1>6, <1>7, Books
    DEF AcquirePlaces, FinishPlaces, AcquirePc, NetworkComplete
  <1> QED BY <1>5, <1>8, <1>9, <1>10, OneWorker

\* The last critical section of finish.
LEMMA FinishCommitInv ==
  ASSUME Inv, NEW w \in Slots, FinishCommit(w)
  PROVE  Inv'
  <1>1. pc[w] \in {"commitKept", "commitReleased"} /\ pc[w] # "none" BY DEF FinishCommit
  <1>2. wgen[w] = generation BY <1>1, Worker
  <1>3. /\ \/ CommitCleanupFailure(w) \/ CommitAgain(w) \/ CommitStopped(w)
           \/ CommitNext(w) \/ CommitFailed(w)
        /\ UNCHANGED held /\ WorkerFrame
    BY <1>2 DEF FinishCommit
  <1> QED BY <1>1, <1>3, CommitCleanupFailureInv, CommitAgainInv, CommitStoppedInv,
             CommitNextInv, CommitFailedInv

-----------------------------------------------------------------------------
(* Requests keep the invariant *)

\* A request that leaves the ownership state alone.
LEMMA Quiet ==
  ASSUME Inv, TypeOK',
         UNCHANGED <<state, generation, cancel, ledger, held, fenceVars, cleanupVars,
                     netVars, pc, wgen, cause>>
  PROVE  Inv'
  <1>1. SingleOwner' BY DEF Inv, SingleOwner, Running, AttemptActive
  <1>2. NothingLeaks' /\ LedgerShape' /\ NetworkShape' /\ Protected'
    BY SameNames DEF Inv, Ownership, NothingLeaks, Owned, Closers, LedgerShape,
                     NetworkShape, NetworkComplete, NoLedger, Protected
  <1>3. AtRest' BY DEF Inv, Ownership, AtRest, AttemptActive
  <1>4. \A w \in Slots : AcquirePlaces(w)' /\ FinishPlaces(w)'
    BY SameNames DEF Inv, Ownership, AcquirePlaces, FinishPlaces, NetworkComplete,
                     NoLedger, ReleaseNetwork
  <1> QED BY <1>1, <1>2, <1>3, <1>4 DEF Inv, Ownership

\* A request that only tells the worker of an active session to stop.
LEMMA TellsWorker ==
  ASSUME Inv, TypeOK', AttemptActive, AttemptActive',
         stopRequested => stopRequested', closing => closing',
         UNCHANGED <<generation, ledger, held, cleanupVars, netVars, pc, wgen, cause>>
  PROVE  Inv'
  <1>1. PICK w \in Slots : pc[w] # "none" BY DEF Inv, SingleOwner, Running
  <1>2. NothingLeaks' /\ LedgerShape' /\ NetworkShape' /\ Protected'
    BY SameNames DEF Inv, Ownership, NothingLeaks, Owned, Closers, LedgerShape,
                     NetworkShape, NetworkComplete, NoLedger, Protected
  <1>3. AcquirePlaces(w)' /\ FinishPlaces(w)'
    BY <1>1, Worker, SameNames
    DEF AcquirePlaces, FinishPlaces, NetworkComplete, NoLedger, ReleaseNetwork
  <1> QED BY <1>1, <1>2, <1>3, Worker, OneWorker

\* A request that has a session at rest taken down by a finish goroutine.
LEMMA SpawnsFinish ==
  ASSUME Inv, TypeOK', NEW w \in Slots, ~AttemptActive, AttemptActive',
         Spawn(w, "finish", generation, 0, ""), ~cleanupDone', ~cleanupFailed',
         stopRequested => stopRequested', closing => closing',
         UNCHANGED <<generation, ledger, held, netVars>>
  PROVE  Inv'
  <1>1. TypeOK /\ \A v \in Slots : pc[v] = "none" BY SlotIsFree DEF Inv
  <1>2. NothingLeaks' /\ LedgerShape' /\ NetworkShape' /\ Protected'
    BY SameNames DEF Inv, Ownership, NothingLeaks, Owned, Closers, LedgerShape,
                     NetworkShape, NetworkComplete, NoLedger, Protected
  <1>3. /\ pc'[w] = "finish" /\ wgen'[w] = generation'
        /\ \A v \in Slots : v # w => pc'[v] = "none"
    BY <1>1 DEF Spawn, TypeOK, TypeWorkers
  <1>4. AcquirePlaces(w)' /\ FinishPlaces(w)'
    BY <1>3 DEF AcquirePlaces, FinishPlaces, AcquirePc
  <1> QED BY <1>1, <1>2, <1>3, <1>4, OneWorker

\* Configure's first critical section touches no ownership.
LEMMA ConfigureBeginInv ==
  ASSUME Inv, NEW c \in Callers, NEW request, NEW place \in {"load", "sourceLoad"},
         ConfigureBegin(c, request, place)
  PROVE  Inv'
  <1> USE DEF ConfigureBegin, CallGoes
  <1>1. TypeOK BY DEF Inv
  <1>2. TypeOK'
    <2>1. TypeNumbers' BY <1>1 DEF TypeOK, TypeNumbers
    <2>2. TypeFlags' BY <1>1 DEF TypeOK, TypeFlags
    <2>3. TypeCodes' BY <1>1 DEF TypeOK, TypeCodes
    <2>4. TypeOwners' BY <1>1 DEF TypeOK, TypeOwners
    <2>5. TypeSelections' BY <1>1 DEF TypeOK, TypeSelections
    <2>6. TypeWorkers' BY <1>1 DEF TypeOK, TypeWorkers
    <2>7. TypeCalls' BY <1>1 DEF TypeOK, TypeCalls, Phase
    <2> QED BY <2>1, <2>2, <2>3, <2>4, <2>5, <2>6, <2>7 DEF TypeOK
  <1> QED BY <1>2, Quiet

\* An accepted configuration only resets a session that owns nothing.
LEMMA ConfigureAcceptInv ==
  ASSUME Inv, NEW c \in Callers, ConfigureAccept(c)
  PROVE  Inv'
  <1> USE DEF ConfigureAccept
  <1>1. TypeOK BY DEF Inv
  <1>2. PICK d \in Digests, kind \in SourceKinds \cup {"URL"} :
          ConfigureAccept(c)!4!(d, kind)
    OBVIOUS
  <1>3. kind \in {"", "URL", "RAW"} BY KindsAssumption
  <1>4. TypeOK'
    <2>1. /\ active' = active \/ active' = 0
          /\ activeTarget' = activeTarget \/ activeTarget' = 0
          /\ recoveryOrigin' = recoveryOrigin \/ recoveryOrigin' = 0
          /\ recoveryCount' = recoveryCount \/ recoveryCount' = 0
      BY DEF ForgetSelection
    <2>2. 0 \in 0..AutoRecoveryLimit BY BoundsAssumption
    <2>3. TypeNumbers' BY <1>1, <2>1, <2>2 DEF TypeOK, TypeNumbers
    <2>4. TypeFlags' BY <1>1, <1>2 DEF TypeOK, TypeFlags
    <2>5. TypeCodes'
      BY <1>1, <1>2, <1>3 DEF TypeOK, TypeCodes, ForgetSelection, State, Code
    <2>6. TypeOwners' BY <1>1 DEF TypeOK, TypeOwners
    <2>7. TypeSelections' BY <1>1, <1>2 DEF TypeOK, TypeSelections, ForgetSelection
    <2>8. TypeWorkers' BY <1>1 DEF TypeOK, TypeWorkers
    <2>9. TypeCalls'
      BY <1>1, <1>2 DEF TypeOK, TypeCalls, CallGoes, CallEnds, Phase
    <2> QED BY <2>3, <2>4, <2>5, <2>6, <2>7, <2>8, <2>9 DEF TypeOK
  <1>5. CASE UNCHANGED state BY <1>4, <1>5, Quiet
  <1>6. CASE cleanupDone /\ state' = "CONFIGURED"
    <2>1. ~AttemptActive /\ \A v \in Slots : pc[v] = "none"
      BY <1>6, SlotIsFree DEF Inv, Ownership, AtRest
    <2>2. NothingLeaks' /\ LedgerShape' /\ NetworkShape' /\ Protected'
      BY SameNames DEF Inv, Ownership, NothingLeaks, Owned, Closers, LedgerShape,
                       NetworkShape, NetworkComplete, NoLedger, Protected
    <2>3. AtRest' BY <1>6, <2>1 DEF Inv, Ownership, AtRest, AttemptActive
    <2> QED BY <1>4, <1>6, <2>1, <2>2, <2>3, NoWorker DEF AttemptActive
  <1> QED BY <1>5, <1>6 DEF ForgetSelection

\* A step of a long call that leaves the session alone.
LEMMA OnlyCallsMove ==
  ASSUME Inv, TypeCalls',
         UNCHANGED <<sessionVars, workerVars, storeVars, held, known>>
  PROVE  Inv'
  <1>1. TypeOK BY DEF Inv
  <1>2. TypeOK'
    <2>1. TypeNumbers' BY <1>1 DEF TypeOK, TypeNumbers
    <2>2. TypeFlags' BY <1>1 DEF TypeOK, TypeFlags
    <2>3. TypeCodes' BY <1>1 DEF TypeOK, TypeCodes
    <2>4. TypeOwners' BY <1>1 DEF TypeOK, TypeOwners
    <2>5. TypeSelections' BY <1>1 DEF TypeOK, TypeSelections
    <2>6. TypeWorkers' BY <1>1 DEF TypeOK, TypeWorkers
    <2> QED BY <2>1, <2>2, <2>3, <2>4, <2>5, <2>6 DEF TypeOK
  <1> QED BY <1>2, Quiet

\* A long request that fails leaves the session alone.
LEMMA AbortInv ==
  ASSUME Inv, NEW c \in Callers, Abort(c)
  PROVE  Inv'
  <1>1. TypeCalls' BY DEF Inv, TypeOK, TypeCalls, Abort, CallEnds, CallGoes, Phase
  <1> QED BY <1>1, OnlyCallsMove DEF Abort

\* Restore's first critical section leaves the session alone.
LEMMA RestoreBeginInv ==
  ASSUME Inv, NEW c \in Callers, NEW request, NEW place \in {"restoreRead", "serviceRead"},
         RestoreBegin(c, request, place)
  PROVE  Inv'
  <1>1. TypeCalls' BY DEF Inv, TypeOK, TypeCalls, RestoreBegin, CallGoes, Phase
  <1> QED BY <1>1, OnlyCallsMove DEF RestoreBegin

\* So does reading the saved activation.
LEMMA RestoreReadInv ==
  ASSUME Inv, NEW c \in Callers, RestoreRead(c)
  PROVE  Inv'
  <1>1. TypeCalls'
    BY DEF Inv, TypeOK, TypeCalls, TypeSelections, RestoreRead, CallGoes, Phase
  <1> QED BY <1>1, OnlyCallsMove DEF RestoreRead

\* So does the validation of its Configure, but for the request fence.
LEMMA RestoreConfigureInv ==
  ASSUME Inv, NEW c \in Callers, RestoreConfigure(c)
  PROVE  Inv'
  <1> USE DEF RestoreConfigure, CallGoes
  <1>1. TypeOK BY DEF Inv
  <1>2. TypeOK'
    <2>1. TypeNumbers' BY <1>1 DEF TypeOK, TypeNumbers
    <2>2. TypeFlags' BY <1>1 DEF TypeOK, TypeFlags
    <2>3. TypeCodes' BY <1>1 DEF TypeOK, TypeCodes
    <2>4. TypeOwners' BY <1>1 DEF TypeOK, TypeOwners
    <2>5. TypeSelections' BY <1>1 DEF TypeOK, TypeSelections
    <2>6. TypeWorkers' BY <1>1 DEF TypeOK, TypeWorkers
    <2>7. TypeCalls' BY <1>1 DEF TypeOK, TypeCalls, Phase
    <2> QED BY <2>1, <2>2, <2>3, <2>4, <2>5, <2>6, <2>7 DEF TypeOK
  <1> QED BY <1>2, Quiet

\* Replace leaves the calls alone but for the sequence it makes stale.
LEMMA ReplaceInv ==
  ASSUME Inv, NEW target \in Nat, digest # None, Replace(target), TypeCalls'
  PROVE  Inv'
  <1> USE DEF Replace
  <1>1. TypeOK /\ state = "CONNECTED" BY DEF Inv, CanSwitch
  <1>2. TypeOK'
    <2>1. TypeNumbers' BY <1>1 DEF TypeOK, TypeNumbers
    <2>2. TypeFlags' BY <1>1 DEF TypeOK, TypeFlags
    <2>3. TypeCodes' BY <1>1 DEF TypeOK, TypeCodes, State
    <2>4. TypeOwners' BY <1>1 DEF TypeOK, TypeOwners
    <2>5. TypeSelections'
      BY <1>1 DEF TypeOK, TypeSelections, SaveActivation, Selection, Activation
    <2>6. TypeWorkers' BY <1>1 DEF TypeOK, TypeWorkers, TypeOwners, Cancel
    <2> QED BY <2>1, <2>2, <2>3, <2>4, <2>5, <2>6 DEF TypeOK
  <1> QED BY <1>1, <1>2, TellsWorker DEF AttemptActive

\* A retry takes over a complete protection and an empty slot.
LEMMA RetryInv ==
  ASSUME Inv, NEW target \in Nat, Retry(target), TypeCalls'
  PROVE  Inv'
  <1>1. /\ TypeOK /\ ~AttemptActive /\ vpnActive /\ ledger = None
        /\ ~cleanupFailed /\ state = "FAILED"
    BY DEF Inv, Retry, CanRetry, AttemptActive
  <1>2. FreeSlot \in Slots /\ \A v \in Slots : pc[v] = "none"
    BY <1>1, SlotIsFree DEF Inv
  <1>3. PICK w \in Slots : w = FreeSlot BY <1>2
  <1>4. NetworkComplete /\ held = {Tunnel, Network}
    BY <1>1, Books
    DEF Inv, Ownership, AtRest, Protected, NothingLeaks, NetworkComplete
  <1>5. BeginAttempt(w, target) BY <1>3 DEF Retry
  <1>6. /\ generation' \in Nat /\ active' = 0 /\ activeTarget' = target
        /\ cancel' = w /\ ledger' = <<>> /\ state' = "PROBING" /\ AttemptActive'
        /\ ~cleanupDone' /\ ~cleanupFailed'
        /\ failureAfterCleanup' = ""
        /\ cleanupDone' \in BOOLEAN /\ cleanupFailed' \in BOOLEAN
        /\ stopRequested' \in BOOLEAN /\ restartAfterCleanup' \in BOOLEAN
        /\ TypeWorkers'
        /\ pc'[w] = "prepare" /\ wgen'[w] = generation'
        /\ \A v \in Slots : v # w => pc'[v] = "none"
    BY <1>1, <1>2, <1>5, BeginAttemptStarts
  <1>7. /\ UNCHANGED <<lastFailure, closing, netVars, switchOrigin, recovering,
                       configVars, activeDigest, pending, storeVars, held>>
        /\ startOrigin' = generation' /\ known' = generation'
        /\ recoveryCount' = 0 /\ recoveryOrigin' = 0
    BY DEF Retry, BeginAttempt
  <1>8. Tunnel' = Tunnel /\ Network' = Network BY <1>7 DEF Tunnel, Network
  <1>9. NothingLeaks' /\ LedgerShape' /\ NetworkShape' /\ Protected'
    BY <1>1, <1>4, <1>6, <1>7, <1>8, Books
    DEF NothingLeaks, LedgerShape, NetworkShape, NetworkComplete, NoLedger, Protected
  <1>10. TypeOK'
    <2>0. 0 \in 0..AutoRecoveryLimit BY BoundsAssumption
    <2>1. TypeNumbers' BY <1>1, <1>6, <1>7, <2>0 DEF TypeOK, TypeNumbers
    <2>2. TypeFlags' BY <1>1, <1>6, <1>7 DEF TypeOK, TypeFlags
    <2>3. TypeCodes' BY <1>1, <1>6, <1>7 DEF TypeOK, TypeCodes, State, Code
    <2>4. TypeOwners' BY <1>1, <1>6, <1>7, <1>9, <2>1, OwnerTypes DEF TypeOK, TypeOwners
    <2>5. TypeSelections' BY <1>1, <1>7 DEF TypeOK, TypeSelections
    <2> QED BY <1>6, <2>1, <2>2, <2>3, <2>4, <2>5 DEF TypeOK
  <1>11. AcquirePlaces(w)' /\ FinishPlaces(w)'
    BY <1>1, <1>4, <1>6, <1>7, <1>8, Books
    DEF AcquirePlaces, FinishPlaces, AcquirePc, NetworkComplete
  <1> QED BY <1>6, <1>9, <1>10, <1>11, OneWorker

\* A direct Start overwrites ledgers that own nothing.
LEMMA BeginInv ==
  ASSUME Inv, NEW target \in Nat, digest # None, Begin(target), TypeCalls'
  PROVE  Inv'
  <1>1. TypeOK /\ ~AttemptActive /\ cleanupDone
    BY DEF Inv, Begin, ConfigurationBlocked
  <1>2. FreeSlot \in Slots /\ \A v \in Slots : pc[v] = "none"
    BY <1>1, SlotIsFree DEF Inv
  <1>3. PICK w \in Slots : w = FreeSlot BY <1>2
  <1>4. held = {} BY <1>1, Books DEF Inv, Ownership, AtRest, NothingLeaks
  <1>5. BeginAttempt(w, target) BY <1>3 DEF Begin
  <1>6. /\ generation' \in Nat /\ active' = 0 /\ activeTarget' = target
        /\ cancel' = w /\ ledger' = <<>> /\ state' = "PROBING" /\ AttemptActive'
        /\ ~cleanupDone' /\ ~cleanupFailed'
        /\ failureAfterCleanup' = ""
        /\ cleanupDone' \in BOOLEAN /\ cleanupFailed' \in BOOLEAN
        /\ stopRequested' \in BOOLEAN /\ restartAfterCleanup' \in BOOLEAN
        /\ TypeWorkers'
        /\ pc'[w] = "prepare" /\ wgen'[w] = generation'
        /\ \A v \in Slots : v # w => pc'[v] = "none"
    BY <1>1, <1>2, <1>5, BeginAttemptStarts
  <1>7. /\ UNCHANGED <<closing, configVars, pending, storedSource, held>>
        /\ activeDigest' = digest /\ networkLedger' = <<>> /\ vpnActive' = FALSE
        /\ networkGeneration' = networkGeneration + 1
        /\ startOrigin' = generation' /\ known' = generation'
        /\ switchOrigin' = 0 /\ recoveryOrigin' = 0
        /\ recovering' = FALSE /\ recoveryCount' = 0 /\ lastFailure' = ""
    BY DEF Begin, BeginAttempt
  <1>8. NothingLeaks' /\ LedgerShape' /\ NetworkShape' /\ Protected'
    BY <1>1, <1>4, <1>6, <1>7, Books
    DEF NothingLeaks, LedgerShape, NetworkShape, NoLedger, Protected
  <1>9. TypeOK'
    <2>0. 0 \in 0..AutoRecoveryLimit BY BoundsAssumption
    <2>1. networkGeneration + 1 \in Nat BY <1>1, Successor DEF TypeOK, TypeNumbers
    <2>2. TypeNumbers' BY <1>6, <1>7, <2>0, <2>1 DEF TypeNumbers
    <2>3. TypeFlags' BY <1>1, <1>6, <1>7 DEF TypeOK, TypeFlags
    <2>4. TypeCodes' BY <1>1, <1>6, <1>7 DEF TypeOK, TypeCodes, State, Code
    <2>5. TypeOwners' BY <1>1, <1>6, <1>7, <1>8, <2>2, OwnerTypes DEF TypeOK, TypeOwners
    <2>6. activation' \in Activation \cup {None}
      BY <1>1 DEF TypeOK, TypeSelections, Begin, SaveActivation, Activation
    <2>7. TypeSelections' BY <1>1, <1>7, <2>6 DEF TypeOK, TypeSelections
    <2> QED BY <1>6, <2>2, <2>3, <2>4, <2>5, <2>7 DEF TypeOK
  <1>10. AcquirePlaces(w)' /\ FinishPlaces(w)'
    BY <1>1, <1>6, <1>7, Books
    DEF AcquirePlaces, FinishPlaces, AcquirePc, NetworkComplete
  <1> QED BY <1>6, <1>8, <1>9, <1>10, OneWorker

\* A plain Start is one of the three.
LEMMA StartInv ==
  ASSUME Inv, NEW target \in Targets, Start(target)
  PROVE  Inv'
  <1>1. target \in Nat BY ProfileAssumption DEF Targets
  <1>2. current' = {} BY DEF Start, Retry, Replace, Begin, BeginAttempt, AppendLocked
  <1>3. TypeCalls' BY <1>2 DEF Inv, TypeOK, TypeCalls, Start
  <1> QED BY <1>1, <1>3, RetryInv, ReplaceInv, BeginInv DEF Start

\* Start with a source ends as a replacement or a direct Start.
LEMMA StartSourceInv ==
  ASSUME Inv, NEW c \in Callers, StartSource(c)
  PROVE  Inv'
  <1>1. AutoSelect \in Nat BY DEF AutoSelect
  <1>2. current' = {} BY DEF StartSource, Replace, Begin, BeginAttempt, AppendLocked
  <1>3. TypeCalls'
    BY <1>2 DEF Inv, TypeOK, TypeCalls, StartSource, CallEnds, CallGoes, Phase
  <1> QED BY <1>1, <1>3, ReplaceInv, BeginInv DEF StartSource

\* Begin is only asked with a target an activation can hold.
LEMMA RestoreStartInv ==
  ASSUME Inv, NEW c \in Callers, RestoreStart(c)
  PROVE  Inv'
  <1>1. saved[c].target \in Nat
    BY DEF Inv, TypeOK, TypeCalls, Activation, RestoreStart
  <1>2. current' = {} BY DEF RestoreStart, Begin, BeginAttempt, AppendLocked
  <1>3. TypeCalls'
    BY <1>2 DEF Inv, TypeOK, TypeCalls, RestoreStart, CallEnds, CallGoes, Phase
  <1> QED BY <1>1, <1>3, BeginInv DEF RestoreStart


\* What an accepted Stop leaves of the types, before its own case goes on.
LEMMA StopAcceptedTypes ==
  ASSUME TypeOK, NEW g \in Nat, StopAccepted(g),
         state' \in State, cleanupFailed' \in BOOLEAN, recovering' \in BOOLEAN,
         restartAfterCleanup' \in BOOLEAN, recoveryOrigin' \in Nat,
         current' \subseteq Callers, TypeWorkers'
  PROVE  TypeOK'
  <1> USE DEF StopAccepted
  <1>1. TypeNumbers' BY DEF TypeOK, TypeNumbers
  <1>2. TypeFlags' BY DEF TypeOK, TypeFlags
  <1>3. TypeCodes' BY DEF TypeOK, TypeCodes
  <1>4. TypeOwners' BY DEF TypeOK, TypeOwners
  <1>5. activation' \in Activation \cup {None}
    BY DEF TypeOK, TypeSelections, StopActivation, Activation
  <1>6. TypeSelections' BY <1>5 DEF TypeOK, TypeSelections
  <1>7. TypeCalls' BY DEF TypeOK, TypeCalls
  <1> QED BY <1>1, <1>2, <1>3, <1>4, <1>6, <1>7 DEF TypeOK

\* A goroutine that is started has typed locals.
LEMMA SpawnTypes ==
  ASSUME TypeWorkers, NEW w \in Slots, NEW g \in Nat, Spawn(w, "finish", g, 0, "")
  PROVE  TypeWorkers'
  BY DEF TypeWorkers, Spawn, Pc, FinishPc, Code

\* A Stop that retries a failed cleanup, or takes down a dormant session.
LEMMA StopCleansUpInv ==
  ASSUME Inv, NEW g \in Nat, StopCleansUp(g)
  PROVE  Inv'
  <1>1. TypeOK /\ state = "FAILED" /\ ~AttemptActive
    BY DEF Inv, StopCleansUp, RetryableCleanup, AttemptActive
  <1>2. FreeSlot \in Slots BY <1>1, SlotIsFree DEF Inv
  <1>3. PICK w \in Slots : w = FreeSlot BY <1>2
  <1>4. Spawn(w, "finish", generation, 0, "") BY <1>3 DEF StopCleansUp
  <1>5. TypeWorkers' BY <1>1, <1>4, SpawnTypes DEF TypeOK, TypeNumbers
  <1>6. /\ state' = "STOPPING" /\ cleanupFailed' = FALSE /\ current' = {}
        /\ UNCHANGED <<recovering, restartAfterCleanup, recoveryOrigin>>
        /\ StopAccepted(g)
    BY DEF StopCleansUp, AppendLocked
  <1>7. TypeOK'
    BY <1>1, <1>5, <1>6, StopAcceptedTypes
    DEF TypeOK, TypeFlags, TypeNumbers, State
  <1>8. ~cleanupDone
    BY <1>1 DEF Inv, Ownership, AtRest, StopCleansUp, RetryableCleanup
  <1>9. ~cleanupDone' /\ ~cleanupFailed' /\ AttemptActive'
    BY <1>6, <1>8 DEF StopAccepted, AttemptActive
  <1>10. UNCHANGED <<generation, ledger, held, netVars, closing>> /\ stopRequested'
    BY <1>6 DEF StopAccepted
  <1> QED BY <1>1, <1>4, <1>7, <1>9, <1>10, SpawnsFinish

\* A Stop of a session that has nothing running.
LEMMA StopAcknowledgedInv ==
  ASSUME Inv, NEW g \in Nat, StopAcknowledged(g)
  PROVE  Inv'
  <1>1. /\ TypeOK /\ ~AttemptActive /\ StopAccepted(g)
        /\ UNCHANGED <<state, cleanupFailed, workerVars>>
    BY DEF Inv, StopAcknowledged
  <1>0. recoveryOrigin' = 0 \/ recoveryOrigin' = recoveryOrigin
    BY DEF StopAcknowledged, DropRecovery
  <1>2. /\ recovering' \in BOOLEAN /\ restartAfterCleanup' \in BOOLEAN
        /\ recoveryOrigin' \in Nat /\ current' \subseteq Callers
    <2>1. recovering' \in BOOLEAN /\ restartAfterCleanup' \in BOOLEAN
      BY <1>1 DEF StopAcknowledged, DropRecovery, TypeOK, TypeFlags
    <2>2. recoveryOrigin' \in Nat BY <1>0, <1>1 DEF TypeOK, TypeNumbers
    <2>3. current' \subseteq Callers BY <1>1 DEF StopAcknowledged, TypeOK, TypeCalls
    <2> QED BY <2>1, <2>2, <2>3
  <1>3. TypeWorkers' BY <1>1 DEF TypeOK, TypeWorkers
  <1>4. TypeOK'
    BY <1>1, <1>2, <1>3, StopAcceptedTypes DEF TypeOK, TypeFlags, TypeCodes
  <1>5. /\ stopRequested'
        /\ UNCHANGED <<generation, cancel, ledger, held, netVars, closing, cleanupVars>>
    BY <1>1 DEF StopAccepted
  <1>6. \A v \in Slots : pc'[v] = "none" BY <1>1, SlotIsFree DEF Inv
  <1>7. NothingLeaks' /\ LedgerShape' /\ NetworkShape' /\ Protected'
    BY <1>5, SameNames
    DEF Inv, Ownership, NothingLeaks, Owned, Closers, LedgerShape, NetworkShape,
        NetworkComplete, NoLedger, Protected
  <1>8. ~(state = "FAILED" /\ ~cleanupFailed /\ ~cleanupDone)
    BY <1>1 DEF StopAcknowledged, Inv, Ownership, AtRest
  <1>9. AtRest' BY <1>1, <1>5, <1>8 DEF Inv, Ownership, AtRest, AttemptActive
  <1> QED BY <1>1, <1>4, <1>6, <1>7, <1>9, NoWorker DEF AttemptActive

\* A Stop of a running attempt.
LEMMA StopAttemptInv ==
  ASSUME Inv, NEW g \in Nat, StopAttempt(g)
  PROVE  Inv'
  <1>1. /\ TypeOK /\ AttemptActive /\ StopAccepted(g) /\ state' = "STOPPING"
        /\ UNCHANGED <<cleanupFailed, pc, wgen, wtarget, windex, cause>>
    BY DEF Inv, StopAttempt
  <1>0. recoveryOrigin' = 0 \/ recoveryOrigin' = recoveryOrigin
    BY DEF StopAttempt, DropRecovery
  <1>2. /\ recovering' \in BOOLEAN /\ restartAfterCleanup' \in BOOLEAN
        /\ recoveryOrigin' \in Nat
    <2>1. recovering' \in BOOLEAN /\ restartAfterCleanup' \in BOOLEAN
      BY <1>1 DEF StopAttempt, DropRecovery, TypeOK, TypeFlags
    <2>2. recoveryOrigin' \in Nat BY <1>0, <1>1 DEF TypeOK, TypeNumbers
    <2> QED BY <2>1, <2>2
  <1>3. current' \subseteq Callers
    BY <1>1 DEF StopAttempt, AppendLocked, TypeOK, TypeCalls
  <1>4. TypeWorkers'
    BY <1>1 DEF StopAttempt, Cancel, TypeOK, TypeWorkers, TypeOwners
  <1>5. TypeOK'
    BY <1>1, <1>2, <1>3, <1>4, StopAcceptedTypes DEF TypeOK, TypeFlags, State
  <1>6. /\ stopRequested' /\ AttemptActive'
        /\ UNCHANGED <<generation, ledger, held, netVars, closing, cleanupVars>>
    BY <1>1 DEF StopAccepted, AttemptActive
  <1> QED BY <1>1, <1>5, <1>6, TellsWorker

\* What a shutdown leaves of the types.
LEMMA StopAndWaitTypes ==
  ASSUME TypeOK, StopAndWait, TypeWorkers'
  PROVE  TypeOK'
  <1> USE DEF StopAndWait, DropRecovery, AppendLocked
  <1>1. TypeNumbers' BY DEF TypeOK, TypeNumbers
  <1>2. TypeFlags' BY DEF TypeOK, TypeFlags
  <1>3. TypeCodes' BY DEF TypeOK, TypeCodes, State
  <1>4. TypeOwners' BY DEF TypeOK, TypeOwners
  <1>5. TypeSelections' BY DEF TypeOK, TypeSelections
  <1>6. TypeCalls' BY DEF TypeOK, TypeCalls
  <1> QED BY <1>1, <1>2, <1>3, <1>4, <1>5, <1>6 DEF TypeOK

\* A shutdown: nothing to take down, a dormant session, or a worker to tell.
LEMMA StopAndWaitInv ==
  ASSUME Inv, StopAndWait
  PROVE  Inv'
  <1>1. TypeOK BY DEF Inv
  <1>2. /\ stopRequested' /\ closing'
        /\ UNCHANGED <<generation, cancel, ledger, held, netVars, cleanupVars>>
    BY DEF StopAndWait
  <1>3. CASE cleanupDone \/ cleanupFailed
    <2>1. UNCHANGED <<state, workerVars>> BY <1>3 DEF StopAndWait
    <2>2. ~AttemptActive /\ \A v \in Slots : pc'[v] = "none"
      BY <1>3, <2>1, SlotIsFree DEF Inv, Ownership, AtRest
    <2>3. TypeWorkers' BY <1>1, <2>1 DEF TypeOK, TypeWorkers
    <2>4. TypeOK' BY <1>1, <2>3, StopAndWaitTypes
    <2>5. NothingLeaks' /\ LedgerShape' /\ NetworkShape' /\ Protected'
      BY <1>2, SameNames
      DEF Inv, Ownership, NothingLeaks, Owned, Closers, LedgerShape, NetworkShape,
          NetworkComplete, NoLedger, Protected
    <2>6. AtRest'
      BY <1>2, <1>3, <2>1, <2>2 DEF Inv, Ownership, AtRest, AttemptActive
    <2> QED BY <2>1, <2>2, <2>4, <2>5, <2>6, NoWorker DEF AttemptActive
  <1>4. CASE ~(cleanupDone \/ cleanupFailed) /\ WasDormant
    <2>1. ~AttemptActive /\ AttemptActive'
      BY <1>4 DEF WasDormant, AttemptActive, StopAndWait
    <2>2. FreeSlot \in Slots BY <2>1, SlotIsFree DEF Inv
    <2>3. PICK w \in Slots : w = FreeSlot BY <2>2
    <2>4. Spawn(w, "finish", generation, 0, "") BY <1>4, <2>3 DEF StopAndWait
    <2>5. TypeWorkers' BY <1>1, <2>4, SpawnTypes DEF TypeOK, TypeNumbers
    <2>6. TypeOK' BY <1>1, <2>5, StopAndWaitTypes
    <2> QED BY <1>2, <1>4, <2>1, <2>4, <2>6, SpawnsFinish
  <1>5. CASE ~(cleanupDone \/ cleanupFailed) /\ ~WasDormant
    <2>1. /\ state' = "STOPPING" /\ Cancel
          /\ UNCHANGED <<pc, wgen, wtarget, windex, cause>>
      BY <1>5 DEF StopAndWait
    <2>2. AttemptActive
      BY <1>1, <1>5 DEF WasDormant, AttemptActive, Inv, Ownership, AtRest, TypeOK,
                 TypeCodes, State
    <2>3. TypeWorkers' BY <1>1, <2>1 DEF Cancel, TypeOK, TypeWorkers, TypeOwners
    <2>4. TypeOK' BY <1>1, <2>3, StopAndWaitTypes
    <2> QED BY <1>2, <2>1, <2>2, <2>4, TellsWorker DEF AttemptActive
  <1> QED BY <1>3, <1>4, <1>5

\* A new service attaches to a session that owns nothing.
LEMMA ResumeInv ==
  ASSUME Inv, Resume
  PROVE  Inv'
  <1> USE DEF Resume, AppendLocked
  <1>1. TypeOK /\ cleanupDone /\ ~cleanupFailed BY DEF Inv
  <1>2. ~AttemptActive /\ \A v \in Slots : pc'[v] = "none"
    BY <1>1, SlotIsFree DEF Inv, Ownership, AtRest
  <1>3. TypeOK'
    <2>1. TypeNumbers' BY <1>1 DEF TypeOK, TypeNumbers
    <2>2. TypeFlags' BY <1>1 DEF TypeOK, TypeFlags
    <2>3. TypeCodes' BY <1>1 DEF TypeOK, TypeCodes
    <2>4. TypeOwners' BY <1>1 DEF TypeOK, TypeOwners
    <2>5. TypeSelections' BY <1>1 DEF TypeOK, TypeSelections
    <2>6. TypeWorkers' BY <1>1 DEF TypeOK, TypeWorkers
    <2>7. TypeCalls' BY <1>1 DEF TypeOK, TypeCalls
    <2> QED BY <2>1, <2>2, <2>3, <2>4, <2>5, <2>6, <2>7 DEF TypeOK
  <1>4. NothingLeaks' /\ LedgerShape' /\ NetworkShape' /\ Protected'
    BY <1>1, SameNames
    DEF Inv, Ownership, AtRest, NothingLeaks, Owned, Closers, LedgerShape, NetworkShape,
        NetworkComplete, NoLedger, Protected
  <1>5. AtRest' BY <1>1, <1>2 DEF Inv, Ownership, AtRest, AttemptActive
  <1> QED BY <1>2, <1>3, <1>4, <1>5, NoWorker DEF AttemptActive

-----------------------------------------------------------------------------
(* Theorems *)

\* A new Manager satisfies the invariant.
LEMMA InitInv == Init => Inv
  <1>zero. 0 \in 0..AutoRecoveryLimit BY BoundsAssumption
  <1>nat. Targets \subseteq Nat BY ProfileAssumption DEF Targets
  <1> SUFFICES ASSUME Init PROVE Inv OBVIOUS
  <1> USE DEF Init
  <1>1. TypeOK
    <2>1. TypeNumbers BY <1>zero DEF TypeNumbers
    <2>2. TypeFlags BY DEF TypeFlags
    <2>3. TypeCodes BY DEF TypeCodes, State, Code
    <2>4. TypeOwners BY DEF TypeOwners, Ledger
    <2>6. activation \in Activation \cup {None}
      BY <1>nat DEF SavedActivations, Activation
    <2>7. TypeSelections BY <2>6 DEF TypeSelections
    <2>8. TypeWorkers BY DEF TypeWorkers, Pc, Code
    <2>9. TypeCalls BY DEF TypeCalls, Phase
    <2> QED BY <2>1, <2>2, <2>3, <2>4, <2>7, <2>8, <2>9 DEF TypeOK
  <1>2. SingleOwner BY DEF SingleOwner, Running, AttemptActive
  <1>3. NothingLeaks BY <1>1, Books DEF NothingLeaks
  <1>4. LedgerShape /\ NetworkShape /\ Protected /\ AtRest
    BY DEF LedgerShape, NetworkShape, NoLedger, Protected, AtRest, AttemptActive
  <1>5. \A w \in Slots : AcquirePlaces(w) /\ FinishPlaces(w)
    BY DEF AcquirePlaces, FinishPlaces, AcquirePc
  <1> QED BY <1>1, <1>2, <1>3, <1>4, <1>5 DEF Inv, Ownership

\* Every step of a worker keeps it.
LEMMA WorkerStepInv ==
  ASSUME Inv, NEW w \in Slots, WorkerStep(w)
  PROVE  Inv'
  BY PrepareSkipInv, PrepareTunnelInv, PrepareNetworkInv, ActivateInv, ActivatedInv,
     PrepareCandidateInv, AdvanceCandidateInv, RuntimeStartInv, ConnectInv,
     AttemptCanceledInv, RollbackInv, RollbackDoneInv, FinishBeginInv,
     RetireAttemptInv, RetireDecideInv, RetireNetworkInv, FinishCommitInv
  DEF WorkerStep

\* Every step of a long request keeps it.
LEMMA CallStepInv ==
  ASSUME Inv, NEW c \in Callers, CallStep(c)
  PROVE  Inv'
  BY ConfigureBeginInv, ConfigureAcceptInv, AbortInv, StartSourceInv,
     RestoreBeginInv, RestoreReadInv, RestoreConfigureInv, RestoreStartInv
  DEF CallStep

\* Every step keeps it.
LEMMA NextInv == Inv /\ [Next]_vars => Inv'
  <1> SUFFICES ASSUME Inv, [Next]_vars PROVE Inv' OBVIOUS
  <1>1. CASE \E c \in Callers : CallStep(c) BY <1>1, CallStepInv
  <1>2. CASE \E target \in Targets : Start(target) BY <1>2, StartInv
  <1>3. CASE \E g \in 1..generation : Stop(g)
    <2>1. PICK g \in 1..generation : Stop(g) BY <1>3
    <2>2. g \in Nat BY DEF Inv, TypeOK, TypeNumbers
    <2> QED BY <2>1, <2>2, StopCleansUpInv, StopAcknowledgedInv, StopAttemptInv DEF Stop
  <1>4. CASE StopAndWait BY <1>4, StopAndWaitInv
  <1>5. CASE Resume BY <1>5, ResumeInv
  <1>6. CASE \E w \in Slots : WorkerStep(w) BY <1>6, WorkerStepInv
  <1>7. CASE \E w \in Slots : HealthFailure(w) BY <1>7, HealthFailureInv
  <1>8. CASE UNCHANGED vars
    <2>1. TypeCalls' BY <1>8 DEF Inv, TypeOK, TypeCalls, vars
    <2> QED BY <1>8, <2>1, OnlyCallsMove DEF vars
  <1> QED BY <1>1, <1>2, <1>3, <1>4, <1>5, <1>6, <1>7, <1>8 DEF Next

\* Inv is an invariant of the session manager.
THEOREM Invariance == Spec => []Inv
  <1> QED BY InitInv, NextInv, PTL DEF Spec

\* Every variable has its type; the recovery budget is never exceeded.
THEOREM TypeCorrect == Spec => []TypeOK
  <1>1. Inv => TypeOK BY DEF Inv
  <1> QED BY <1>1, Invariance, PTL

\* The attempt always has exactly one owner: a goroutine of the session's
\* generation runs exactly while the published state is an active one.
THEOREM OneOwner == Spec => []SingleOwner
  <1>1. Inv => SingleOwner BY DEF Inv
  <1> QED BY <1>1, Invariance, PTL

\* No resource that a platform or runtime call returned is ever forgotten.
THEOREM NoLeak == Spec => []NothingLeaks
  <1>1. Inv => NothingLeaks BY DEF Inv, Ownership
  <1> QED BY <1>1, Invariance, PTL

\* cleanupDone is published only when nothing native is left.
THEOREM CleanupComplete == Spec => []CleanupIsComplete
  <1>1. Inv => CleanupIsComplete
    BY Books DEF Inv, Ownership, AtRest, NothingLeaks, CleanupIsComplete
  <1> QED BY <1>1, Invariance, PTL

-----------------------------------------------------------------------------
(* Action properties *)

\* A step of a worker is a step of a running goroutine.
LEMMA WorkerRuns ==
  ASSUME NEW w \in Slots, WorkerStep(w) \/ HealthFailure(w)
  PROVE  pc[w] # "none"
  BY DEF WorkerStep, PrepareSkip, PrepareTunnel, PrepareNetwork, Activate, Activated,
         PrepareCandidate, AdvanceCandidate, RuntimeStart, Connect, AttemptCanceled,
         Rollback, RollbackDone, FinishBegin, RetireAttempt, RetireDecide,
         RetireNetwork, FinishCommit, HealthFailure

\* Only the next candidate, and a recovery or replacement after cleanup, are
\* generations that a worker begins.
LEMMA WorkerGenerations ==
  ASSUME NEW w \in Slots, WorkerStep(w) \/ HealthFailure(w), generation' # generation
  PROVE  PrepareCandidate(w) \/ CommitNext(w)
  BY DEF WorkerStep, PrepareSkip, PrepareTunnel, PrepareNetwork, AcquireNetwork,
         Activate, Activated, AdvanceCandidate, RuntimeStart, Connect,
         AttemptCanceled, Rollback, RollbackDone, FinishBegin, RetireAttempt,
         RetireDecide, RetireNetwork, FinishCommit, CommitCleanupFailure,
         CommitAgain, CommitStopped, CommitFailed, HealthFailure

\* Requests that are neither a worker's nor begin an attempt.
LEMMA RequestGenerations ==
  ASSUME [Next]_vars, generation' # generation
  PROVE  \/ \E target : Retry(target) \/ Begin(target)
         \/ \E w \in Slots : WorkerStep(w) \/ HealthFailure(w)
  <1>1. ASSUME NEW c \in Callers, CallStep(c)
        PROVE  \E target : Begin(target)
    BY <1>1 DEF CallStep, ConfigureBegin, ConfigureAccept, Abort, StartSource,
                RestoreBegin, RestoreRead, RestoreConfigure, RestoreStart, Replace
  <1>2. ASSUME NEW target, Start(target)
        PROVE  Retry(target) \/ Begin(target)
    BY <1>2 DEF Start, Replace
  <1>3. ASSUME NEW g, Stop(g) PROVE FALSE
    BY <1>3 DEF Stop, StopCleansUp, StopAcknowledged, StopAttempt, StopAccepted
  <1>4. ~StopAndWait /\ ~Resume /\ ~UNCHANGED vars BY DEF StopAndWait, Resume, vars
  <1> QED BY <1>1, <1>2, <1>3, <1>4 DEF Next

\* After a Stop or a shutdown no attempt begins before cleanup has completed.
THEOREM StopFinal == Spec => StopIsFinal
  <1>1. Inv /\ [Next]_vars
          => (stopRequested /\ generation' # generation => cleanupDone /\ ~closing)
    <2> SUFFICES ASSUME Inv, [Next]_vars, stopRequested, generation' # generation
                 PROVE  cleanupDone /\ ~closing
      OBVIOUS
    <2>1. ASSUME NEW target, Begin(target) PROVE cleanupDone /\ ~closing
      BY <2>1 DEF Begin, ConfigurationBlocked
    <2>2. ASSUME NEW target, Retry(target) PROVE FALSE
      BY <2>2 DEF Retry, CanRetry, Inv, Ownership, AtRest
    <2>3. ASSUME NEW w \in Slots, WorkerStep(w) \/ HealthFailure(w) PROVE FALSE
      <3>1. ~CommitNext(w) BY DEF CommitNext
      <3>2. ~PrepareCandidate(w) BY DEF PrepareCandidate, AttemptStopped
      <3> QED BY <2>3, <3>1, <3>2, WorkerGenerations
    <2> QED BY <2>1, <2>2, <2>3, RequestGenerations
  <1> QED BY <1>1, Invariance, PTL DEF Spec, StopIsFinal

\* A failed cleanup keeps what it owns until a Stop retries it.
THEOREM FailedBlocks == Spec => FailedCleanupBlocks
  <1>1. Inv /\ [Next]_vars
          => (cleanupFailed => /\ held' = held /\ generation' = generation
                               /\ ~cleanupFailed' => state' = "STOPPING" /\ stopRequested')
    <2> SUFFICES ASSUME Inv, [Next]_vars, cleanupFailed
                 PROVE  /\ held' = held /\ generation' = generation
                        /\ ~cleanupFailed' => state' = "STOPPING" /\ stopRequested'
      OBVIOUS
    <2>1. ~AttemptActive /\ \A w \in Slots : pc[w] = "none"
      BY SlotIsFree DEF Inv, Ownership, AtRest
    <2>2. ASSUME NEW w \in Slots, WorkerStep(w) \/ HealthFailure(w) PROVE FALSE
      BY <2>1, <2>2, WorkerRuns
    <2>3. ASSUME NEW target PROVE ~Retry(target) /\ ~Replace(target) /\ ~Begin(target)
      BY DEF Retry, CanRetry, Replace, CanSwitch, Begin, ConfigurationBlocked
    <2>4. ASSUME NEW c \in Callers, CallStep(c)
          PROVE  UNCHANGED <<held, generation, cleanupFailed>>
      BY <2>3, <2>4 DEF CallStep, ConfigureBegin, ConfigureAccept, ConfigureAllowed,
                  Abort, StartSource, RestoreBegin, RestoreRead, RestoreConfigure,
                  RestoreStart
    <2>5. ASSUME NEW target, Start(target) PROVE FALSE
      BY <2>3, <2>5 DEF Start
    <2>6. ASSUME NEW g, Stop(g)
          PROVE  /\ UNCHANGED <<held, generation>> /\ stopRequested'
                 /\ cleanupFailed' = cleanupFailed \/ state' = "STOPPING"
      BY <2>6 DEF Stop, StopCleansUp, StopAcknowledged, StopAttempt, StopAccepted
    <2>7. CASE StopAndWait \/ Resume \/ UNCHANGED vars
      BY <2>7 DEF StopAndWait, Resume, vars
    <2> QED BY <2>2, <2>4, <2>5, <2>6, <2>7 DEF Next
  <1> QED BY <1>1, Invariance, PTL DEF Spec, FailedCleanupBlocks

\* What a request or a worker's step can release.
LEMMA Releases ==
  ASSUME Inv, [Next]_vars, NEW r \in held \ held'
  PROVE  \E w \in Slots : Rollback(w) \/ RetireAttempt(w) \/ RetireNetwork(w)
  <1>1. held' # held OBVIOUS
  <1>2. ASSUME NEW c \in Callers, CallStep(c) PROVE FALSE
    BY <1>1, <1>2 DEF CallStep, ConfigureBegin, ConfigureAccept, Abort, StartSource,
                RestoreBegin, RestoreRead, RestoreConfigure, RestoreStart, Replace, Begin
  <1>3. ASSUME NEW target, Start(target) PROVE FALSE
    BY <1>1, <1>3 DEF Start, Retry, Replace, Begin
  <1>4. ASSUME NEW g, Stop(g) PROVE FALSE
    BY <1>1, <1>4 DEF Stop, StopCleansUp, StopAcknowledged, StopAttempt, StopAccepted
  <1>5. ~StopAndWait /\ ~Resume /\ ~UNCHANGED vars BY <1>1 DEF StopAndWait, Resume, vars
  <1>6. ASSUME NEW w \in Slots, WorkerStep(w) \/ HealthFailure(w)
        PROVE  Rollback(w) \/ RetireAttempt(w) \/ RetireNetwork(w)
    BY <1>1, <1>6 DEF WorkerStep, PrepareSkip, PrepareTunnel, PrepareNetwork,
         AcquireNetwork, Activate, Activated, PrepareCandidate, AdvanceCandidate,
         RuntimeStart, Connect, AttemptCanceled, RollbackDone, FinishBegin,
         RetireDecide, FinishCommit, HealthFailure
  <1> QED BY <1>2, <1>3, <1>4, <1>5, <1>6 DEF Next

\* The protection of an active VPN goes down only for a Stop or a shutdown.
THEOREM ProtectionHolds == Spec => ProtectionStays
  <1>1. Inv /\ [Next]_vars
          => \A r \in held \ held' : r.kind # "lease" => stopRequested \/ closing \/ ~vpnActive
    <2> SUFFICES ASSUME Inv, [Next]_vars, NEW r \in held \ held', r.kind # "lease"
                 PROVE  stopRequested \/ closing \/ ~vpnActive
      OBVIOUS
    <2>1. PICK w \in Slots : Rollback(w) \/ RetireAttempt(w) \/ RetireNetwork(w)
      BY Releases
    <2>2. TypeOK /\ Lease.kind = "lease" BY DEF Inv, Lease
    <2>3. ASSUME ledger = <<Lease>>, CloseLast(ledger) PROVE FALSE
      BY <2>2, <2>3, Books DEF CloseLast
    <2>4. CASE Rollback(w)
      <3>1. pc[w] = "rollback" /\ ledger # <<>> /\ CloseLast(ledger)
        BY <2>4 DEF Rollback
      <3>2. ledger = <<Lease>>
        BY <3>1, Worker DEF AcquirePlaces, Inv, Ownership, LedgerShape, NoLedger
      <3> QED BY <2>3, <3>1, <3>2
    <2>5. CASE RetireAttempt(w)
      <3>1. pc[w] = "retireAttempt" /\ CloseLast(ledger)
        BY <2>5 DEF RetireAttempt, RetireFails
      <3>2. ledger = <<Lease>> BY <3>1, Worker DEF FinishPlaces
      <3> QED BY <2>3, <3>1, <3>2
    <2>6. CASE RetireNetwork(w)
      <3>1. pc[w] = "retireNetwork" BY <2>6 DEF RetireNetwork
      <3> QED BY <3>1, Worker DEF FinishPlaces, ReleaseNetwork
    <2> QED BY <2>1, <2>4, <2>5, <2>6
  <1> QED BY <1>1, Invariance, PTL DEF Spec, ProtectionStays
=============================================================================
