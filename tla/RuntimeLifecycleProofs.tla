----------------------- MODULE RuntimeLifecycleProofs -----------------------
(***************************************************************************)
(* Proofs about RuntimeLifecycle, for any number of attempts and networks  *)
(* and any thresholds: the invariant of the runtime, that no monitor runs  *)
(* on a transport that is released, and that every lease implements        *)
(* RuntimeOwner.                                                           *)
(***************************************************************************)
EXTENDS RuntimeLifecycle, SequenceTheorems, TLAPS

-----------------------------------------------------------------------------
(* Undo lists *)

\* Sequences of the same length with the same elements.
LEMMA SameElements ==
    ASSUME NEW S, NEW s \in Seq(S), NEW t \in Seq(S), Len(s) = Len(t), \A i \in 1..Len(s) : s[i] = t[i]
    PROVE  s = t
  BY SeqEqual

\* The undo lists that a lease can have, as Push and UndoLast build them.
LEMMA UndoLists ==
    /\ <<>> \in Seq(Kinds) /\ <<"scope">> \in Seq(Kinds) /\ <<"scope", "device">> \in Seq(Kinds)
    /\ <<"scope", "device", "attachment">> \in Seq(Kinds)
    /\ Len(<<>>) = 0 /\ Len(<<"scope">>) = 1 /\ Len(<<"scope", "device">>) = 2
    /\ Len(<<"scope", "device", "attachment">>) = 3
  BY DEF Kinds

\* What they hold.
LEMMA UndoSets ==
    /\ ToSet(<<>>) = {} /\ ToSet(<<"scope">>) = {"scope"} /\ ToSet(<<"scope", "device">>) = {"scope", "device"}
    /\ ToSet(<<"scope", "device", "attachment">>) = {"scope", "device", "attachment"}
<1>1. ToSet(<<>>) = {} BY DEF ToSet
<1>2. ToSet(<<"scope">>) = {"scope"} BY DEF ToSet
<1>3. ToSet(<<"scope", "device">>) = {"scope", "device"}
  <2>1. DOMAIN <<"scope", "device">> = {1, 2} OBVIOUS
  <2> QED BY <2>1 DEF ToSet
<1>4. ToSet(<<"scope", "device", "attachment">>) = {"scope", "device", "attachment"}
  <2>1. DOMAIN <<"scope", "device", "attachment">> = {1, 2, 3} OBVIOUS
  <2> QED BY <2>1 DEF ToSet
<1> QED BY <1>1, <1>2, <1>3, <1>4

\* Push at the end of one.
LEMMA UndoPushes ==
    /\ Append(<<>>, "scope") = <<"scope">> /\ Append(<<"scope">>, "device") = <<"scope", "device">>
    /\ Append(<<"scope", "device">>, "attachment") = <<"scope", "device", "attachment">>
<1>1. Append(<<>>, "scope") = <<"scope">> OBVIOUS
<1>2. Append(<<"scope">>, "device") = <<"scope", "device">>
  <2> DEFINE s == Append(<<"scope">>, "device")
  <2>1. s \in Seq(Kinds) /\ Len(s) = 2 /\ s[1] = "scope" /\ s[2] = "device" BY UndoLists DEF Kinds
  <2>2. \A i \in 1..2 : s[i] = <<"scope", "device">>[i] BY <2>1
  <2> HIDE DEF s
  <2>3. s = <<"scope", "device">> BY <2>1, <2>2, UndoLists, SameElements
  <2> QED BY <2>3 DEF s
<1>3. Append(<<"scope", "device">>, "attachment") = <<"scope", "device", "attachment">>
  <2> DEFINE s == Append(<<"scope", "device">>, "attachment")
  <2>1. s \in Seq(Kinds) /\ Len(s) = 3 /\ s[1] = "scope" /\ s[2] = "device" /\ s[3] = "attachment"
    BY UndoLists DEF Kinds
  <2>2. \A i \in 1..3 : s[i] = <<"scope", "device", "attachment">>[i] BY <2>1
  <2> HIDE DEF s
  <2>3. s = <<"scope", "device", "attachment">> BY <2>1, <2>2, UndoLists, SameElements
  <2> QED BY <2>3 DEF s
<1> QED BY <1>1, <1>2, <1>3

\* UndoLast at the end of one.
LEMMA UndoPops ==
    /\ Front(<<"scope">>) = <<>> /\ Last(<<"scope">>) = "scope"
    /\ Front(<<"scope", "device">>) = <<"scope">> /\ Last(<<"scope", "device">>) = "device"
    /\ Front(<<"scope", "device", "attachment">>) = <<"scope", "device">>
    /\ Last(<<"scope", "device", "attachment">>) = "attachment"
<1>1. /\ Last(<<"scope">>) = "scope" /\ Last(<<"scope", "device">>) = "device"
      /\ Last(<<"scope", "device", "attachment">>) = "attachment"
  BY UndoLists DEF Last
<1>2. Front(<<"scope">>) = <<>> BY UndoLists DEF Front
<1>3. Front(<<"scope", "device">>) = <<"scope">>
  <2> DEFINE s == SubSeq(<<"scope", "device">>, 1, 1)
  <2>1. s \in Seq(Kinds) /\ Len(s) = 1 /\ s[1] = "scope" BY UndoLists
  <2>2. \A i \in 1..1 : s[i] = <<"scope">>[i] BY <2>1
  <2> HIDE DEF s
  <2>3. s = <<"scope">> BY <2>1, <2>2, UndoLists, SameElements
  <2> QED BY <2>3, UndoLists DEF Front, s
<1>4. Front(<<"scope", "device", "attachment">>) = <<"scope", "device">>
  <2> DEFINE s == SubSeq(<<"scope", "device", "attachment">>, 1, 2)
  <2>1. s \in Seq(Kinds) /\ Len(s) = 2 /\ s[1] = "scope" /\ s[2] = "device" BY UndoLists
  <2>2. \A i \in 1..2 : s[i] = <<"scope", "device">>[i] BY <2>1
  <2> HIDE DEF s
  <2>3. s = <<"scope", "device">> BY <2>1, <2>2, UndoLists, SameElements
  <2> QED BY <2>3, UndoLists DEF Front, s
<1> QED BY <1>1, <1>2, <1>3, <1>4

-----------------------------------------------------------------------------
(* The invariant *)

\* Somebody will stop this lease: Start itself, or the manager.
Live(g) == owned[g] \in {"starting", "returned"}

\* The runtime's flags: the only lease that is live is that of the last Start, which holds mu
\* until it returns.
Flags ==
    /\ \A g \in Attempts : Live(g) => g = attempt
    /\ active <=> attempt # 0 /\ Live(attempt)
    /\ mu = "start" <=> startPc # "none"
    /\ \A g \in Attempts : owned[g] = "starting" <=> mu = "start" /\ g = attempt
    /\ mu = "start" => attempt # 0
    /\ NetworkIsOwed

\* A lease's books: what exists is on its undo list; one that is not live has nothing
\* and is not being stopped, and one that was never begun has no monitor.
LeaseBooks(g) ==
    /\ undo[g] \in {<<>>, <<"scope">>, <<"scope", "device">>, <<"scope", "device", "attachment">>}
    /\ \A k \in Kinds : <<g, k>> \in held => k \in ToSet(undo[g])
    /\ ~Live(g) => undo[g] = <<>> /\ stopPc[g] = "idle"
    /\ g > attempt => owned[g] = "none"
    /\ owned[g] \in {"none", "starting"} => monitor[g] = "none"
    /\ owned[g] = "returned" => onDone[g]
    /\ owned[g] = "returned" /\ ready[g] /\ stopPc[g] = "idle" => \A k \in Kinds : <<g, k>> \in held

\* What the Start in progress has acquired at each place.
StartPlaces(g) ==
    /\ startPc \notin {"none", "rollback"} => stopPc[g] = "idle"
    /\ startPc = "rollback" => stopPc[g] # "idle"
    /\ startPc = "inputs" => undo[g] = <<>>
    /\ startPc = "device" => undo[g] = <<"scope">> /\ <<g, "scope">> \in held
    /\ startPc \in {"open", "readiness", "attach"}
          => undo[g] = <<"scope", "device">> /\ {<<g, "scope">>, <<g, "device">>} \subseteq held

\* Stop releases nothing before the monitor has ended; a monitor that has not ended is
\* below its threshold.
MonitorBooks(g) ==
    /\ stopPc[g] = "undo" => monitor[g] \in {"none", "ended"}
    /\ monitor[g] # "ended" => failures[g] < HealthFailureThreshold

\* The inductive invariant.
LeaseInv ==
    /\ TypeOK /\ Flags
    /\ \A g \in Attempts : LeaseBooks(g) /\ MonitorBooks(g)
    /\ attempt # 0 => StartPlaces(attempt)

USE DEF networkVars, leaseVars, monitorVars

\* Attempts are the numbers from 1 on.
LEMMA AttemptNumbers ==
    ASSUME LeaseInv
    PROVE  /\ \A g \in Attempts : g \in Nat /\ g # 0
           /\ attempt \in Nat /\ (attempt # 0 => attempt \in Attempts)
  BY LifecycleAssumption DEF LeaseInv, TypeOK, Attempts

\* The runtime begins with nothing.
LEMMA LeaseInit == Init => LeaseInv
<1> SUFFICES ASSUME Init PROVE LeaseInv OBVIOUS
<1> USE DEF Init
<1>1. TypeOK
  <2>1. 0 \in 0..MaxNetworks /\ 0 \in 0..MaxAttempts /\ 0 \in 0..(ReadinessAttempts - 1)
        /\ 0 \in 0..HealthFailureThreshold
    BY LifecycleAssumption
  <2> QED BY <2>1, UndoLists DEF TypeOK
<1>2. Flags BY DEF Flags, Live, NetworkIsOwed
<1>3. \A g \in Attempts : LeaseBooks(g) /\ MonitorBooks(g)
  BY LifecycleAssumption DEF LeaseBooks, MonitorBooks, Live
<1> QED BY <1>1, <1>2, <1>3 DEF LeaseInv

\* A step of one lease leaves the others alone.
LEMMA OneLease ==
    ASSUME LeaseInv, NEW g \in Attempts, TypeOK', Flags', UNCHANGED attempt,
           \A h \in Attempts : h # g =>
               /\ owned'[h] = owned[h] /\ ready'[h] = ready[h] /\ undo'[h] = undo[h] /\ onDone'[h] = onDone[h]
               /\ stopPc'[h] = stopPc[h] /\ monitor'[h] = monitor[h] /\ failures'[h] = failures[h]
               /\ \A k \in Kinds : <<h, k>> \in held' <=> <<h, k>> \in held,
           LeaseBooks(g)', MonitorBooks(g)', attempt # 0 => StartPlaces(attempt)'
    PROVE  LeaseInv'
<1>1. ASSUME NEW h \in Attempts, h # g PROVE LeaseBooks(h)' /\ MonitorBooks(h)'
  BY <1>1 DEF LeaseInv, LeaseBooks, MonitorBooks, Live
<1> QED BY <1>1 DEF LeaseInv

\* A step that leaves every lease alone.
LEMMA NoLease ==
    ASSUME LeaseInv, TypeOK', NetworkIsOwed', mu = "start" <=> mu' = "start",
           UNCHANGED <<active, attempt, startPc, leaseVars, monitor, failures, held>>
    PROVE  LeaseInv'
<1>1. Flags' BY DEF LeaseInv, Flags, Live
<1>2. \A g \in Attempts : LeaseBooks(g)' /\ MonitorBooks(g)'
  BY DEF LeaseInv, LeaseBooks, MonitorBooks, Live
<1>3. attempt # 0 => StartPlaces(attempt)' BY DEF LeaseInv, StartPlaces
<1> QED BY <1>1, <1>2, <1>3 DEF LeaseInv

\* PrepareNetwork and Stop of the network: its flag is owed to whoever can clear it.
LEMMA NetworkStepInv == ASSUME LeaseInv, NetworkStep PROVE LeaseInv'
<1>1. TypeOK /\ NetworkIsOwed BY DEF LeaseInv, Flags
<1>2. CASE PrepareNetwork
  <2>1. networks + 1 \in 0..MaxNetworks BY <1>1, <1>2, LifecycleAssumption DEF PrepareNetwork, TypeOK
  <2>2. TypeOK' BY <1>1, <1>2, <2>1 DEF PrepareNetwork, NetworkFrame, TypeOK
  <2> QED BY <1>1, <1>2, <2>2, NoLease DEF PrepareNetwork, NetworkFrame, NetworkIsOwed
<1>3. CASE PrepareReturns
  <2>1. TypeOK' BY <1>1, <1>3 DEF PrepareReturns, NetworkFrame, TypeOK, OwnerReturned
  <2> QED BY <1>1, <1>3, <2>1, NoLease DEF PrepareReturns, NetworkFrame, NetworkIsOwed, OwnerReturned
<1>4. CASE StopNetwork
  <2>1. TypeOK' BY <1>1, <1>4 DEF StopNetwork, NetworkFrame, TypeOK
  <2> QED BY <1>1, <1>4, <2>1, NoLease DEF StopNetwork, NetworkFrame, NetworkIsOwed
<1>5. CASE NetworkStopped
  <2>1. TypeOK' BY <1>1, <1>5 DEF NetworkStopped, NetworkFrame, TypeOK
  <2> QED BY <1>1, <1>5, <2>1, NoLease DEF NetworkStopped, NetworkFrame, NetworkIsOwed
<1> QED BY <1>2, <1>3, <1>4, <1>5 DEF NetworkStep

\* Start begins when no lease is live.
LEMMA StartBeginInv == ASSUME LeaseInv, StartBegin PROVE LeaseInv'
<1>1. TypeOK /\ Flags /\ attempt \in Nat BY AttemptNumbers DEF LeaseInv
<1>2. PICK g \in Attempts : g = attempt + 1
  BY <1>1, LifecycleAssumption DEF StartBegin, Attempts
<1>3. ~active /\ \A h \in Attempts : ~Live(h)
  <2>1. ~active BY DEF StartBegin
  <2>2. ASSUME NEW h \in Attempts, Live(h) PROVE FALSE
    <3>1. h = attempt /\ h # 0 BY <1>1, <2>2, AttemptNumbers DEF Flags
    <3> QED BY <1>1, <2>1, <2>2, <3>1 DEF Flags
  <2> QED BY <2>1, <2>2
<1>4. /\ owned' = [owned EXCEPT ![g] = "starting"] /\ attempt' = g /\ startPc' = "inputs" /\ mu' = "start"
      /\ active' = TRUE /\ checks' = 0 /\ onDone' = [onDone EXCEPT ![g] = FALSE]
      /\ UNCHANGED <<networkVars, ready, undo, stopPc, canceled, monitorVars, held>>
  BY <1>2 DEF StartBegin, StartTo, NewLeaseCallback
<1>5. owned'[g] = "starting" /\ \A h \in Attempts : h # g => owned'[h] = owned[h] /\ onDone'[h] = onDone[h]
  BY <1>1, <1>4 DEF TypeOK
<1>6. TypeOK'
  <2>1. attempt' \in 0..MaxAttempts /\ checks' \in 0..(ReadinessAttempts - 1)
    BY <1>4, LifecycleAssumption DEF Attempts
  <2> QED BY <1>1, <1>4, <2>1 DEF TypeOK
<1>7. Flags'
  <2>1. g # 0 BY AttemptNumbers
  <2>2. NetworkIsOwed' BY <1>1, <1>4 DEF Flags, NetworkIsOwed, StartBegin
  <2> QED BY <1>3, <1>4, <1>5, <2>1, <2>2 DEF Flags, Live
<1>8. ASSUME NEW h \in Attempts PROVE LeaseBooks(h)' /\ MonitorBooks(h)'
  <2>1. LeaseBooks(h) /\ MonitorBooks(h) /\ h \in Nat BY AttemptNumbers DEF LeaseInv
  <2>2. h > g => h > attempt BY <1>1, <1>2, <2>1
  <2>3. owned[g] = "none"
    <3>1. g > attempt BY <1>1, <1>2
    <3> QED BY <3>1 DEF LeaseInv, LeaseBooks
  <2> QED BY <1>3, <1>4, <1>5, <2>1, <2>2, <2>3 DEF LeaseBooks, MonitorBooks, Live
<1>9. StartPlaces(g)'
  <2>1. LeaseBooks(g) /\ ~Live(g) BY <1>3 DEF LeaseInv
  <2> QED BY <1>4, <2>1 DEF StartPlaces, LeaseBooks
<1> QED BY <1>4, <1>6, <1>7, <1>8, <1>9 DEF LeaseInv

-----------------------------------------------------------------------------
(* Start *)

\* The lease of a Start in progress.
LEMMA StartLease ==
    ASSUME LeaseInv, startPc # "none"
    PROVE  /\ attempt \in Attempts /\ owned[attempt] = "starting" /\ mu = "start" /\ active
           /\ monitor[attempt] = "none" /\ StartPlaces(attempt)
           /\ LeaseBooks(attempt) /\ MonitorBooks(attempt) /\ TypeOK /\ Flags
<1>1. TypeOK /\ Flags BY DEF LeaseInv
<1>2. mu = "start" /\ attempt # 0 BY <1>1 DEF Flags
<1>3. attempt \in Attempts BY <1>2, AttemptNumbers
<1>4. owned[attempt] = "starting" BY <1>1, <1>2, <1>3 DEF Flags
<1>5. active BY <1>1, <1>2, <1>4 DEF Flags, Live
<1>6. StartPlaces(attempt) /\ LeaseBooks(attempt) /\ MonitorBooks(attempt)
  BY <1>2, <1>3 DEF LeaseInv
<1>7. monitor[attempt] = "none" BY <1>4, <1>6 DEF LeaseBooks
<1> QED BY <1>1, <1>2, <1>3, <1>4, <1>5, <1>6, <1>7

\* A step of Start before it returns: the lease stays live and without a monitor.
LEMMA StartGoesOn ==
    ASSUME LeaseInv, startPc # "none", TypeOK', startPc' # "none",
           UNCHANGED <<mu, active, networkVars, attempt, owned, ready, onDone, monitor, failures>>,
           \A h \in Attempts : h # attempt =>
               /\ undo'[h] = undo[h] /\ stopPc'[h] = stopPc[h]
               /\ \A k \in Kinds : <<h, k>> \in held' <=> <<h, k>> \in held,
           undo'[attempt] \in {<<>>, <<"scope">>, <<"scope", "device">>,
                               <<"scope", "device", "attachment">>},
           \A k \in Kinds : <<attempt, k>> \in held' => k \in ToSet(undo'[attempt]),
           StartPlaces(attempt)'
    PROVE  LeaseInv'
<1>1. /\ attempt \in Attempts /\ owned[attempt] = "starting" /\ mu = "start"
      /\ monitor[attempt] = "none" /\ LeaseBooks(attempt) /\ MonitorBooks(attempt) /\ Flags
  BY StartLease
<1>2. Flags' BY <1>1 DEF Flags, Live, NetworkIsOwed
<1>3. MonitorBooks(attempt)' BY <1>1 DEF MonitorBooks
<1>4. LeaseBooks(attempt)' BY <1>1 DEF LeaseBooks, Live
<1> QED BY <1>1, <1>2, <1>3, <1>4, OneLease

\* Start before it has the device.
LEMMA StartInputsInv == ASSUME LeaseInv, StartInputs PROVE LeaseInv'
<1>1. startPc = "inputs" /\ UNCHANGED <<mu, active, checks, owned, ready, networkVars, attempt, onDone, canceled, monitorVars>>
  BY DEF StartInputs, StartFrame
<1>2. attempt \in Attempts /\ TypeOK /\ undo[attempt] = <<>> /\ stopPc[attempt] = "idle"
      /\ \A k \in Kinds : <<attempt, k>> \notin held
  BY <1>1, StartLease, UndoSets DEF StartPlaces, LeaseBooks
<1>3. CASE Fail /\ UNCHANGED <<undo, held>>
  <2>1. startPc' = "rollback" /\ stopPc' = [stopPc EXCEPT ![attempt] = "begin"] BY <1>3 DEF Fail, StartTo
  <2>2. TypeOK' BY <1>1, <1>2, <1>3, <2>1 DEF TypeOK
  <2>3. StartPlaces(attempt)' BY <1>1, <1>2, <2>1 DEF StartPlaces, TypeOK
  <2> QED BY <1>1, <1>2, <1>3, <2>1, <2>2, <2>3, StartGoesOn DEF TypeOK
<1>4. CASE StartTo("device") /\ Push("scope") /\ Exists("scope") /\ UNCHANGED stopPc
  <2>1. /\ startPc' = "device" /\ undo' = [undo EXCEPT ![attempt] = <<"scope">>]
        /\ held' = held \cup {<<attempt, "scope">>} /\ UNCHANGED stopPc
    BY <1>2, <1>4, UndoPushes DEF StartTo, Push, Exists
  <2>2. undo'[attempt] = <<"scope">> /\ \A h \in Attempts : h # attempt => undo'[h] = undo[h]
    BY <1>2, <2>1 DEF TypeOK
  <2>3. TypeOK' BY <1>1, <1>2, <2>1, UndoLists DEF TypeOK, Kinds
  <2>4. StartPlaces(attempt)' BY <1>1, <1>2, <2>1, <2>2 DEF StartPlaces
  <2>5. \A k \in Kinds : <<attempt, k>> \in held' => k \in ToSet(undo'[attempt])
    BY <1>2, <2>1, <2>2, UndoSets
  <2> QED BY <1>1, <1>2, <2>1, <2>2, <2>3, <2>4, <2>5, StartGoesOn
<1> QED BY <1>3, <1>4 DEF StartInputs

\* The factory: a device that exists is on the list, with an error or without.
LEMMA StartDeviceInv == ASSUME LeaseInv, StartDevice PROVE LeaseInv'
<1>1. startPc = "device" /\ UNCHANGED <<mu, active, checks, owned, ready, networkVars, attempt, onDone, canceled, monitorVars>>
  BY DEF StartDevice, StartFrame
<1>2. attempt \in Attempts /\ TypeOK /\ undo[attempt] = <<"scope">> /\ stopPc[attempt] = "idle"
      /\ <<attempt, "scope">> \in held /\ LeaseBooks(attempt)
  BY <1>1, StartLease DEF StartPlaces
<1>3. \A k \in Kinds : <<attempt, k>> \in held => k = "scope"
  BY <1>2, UndoSets DEF LeaseBooks
<1>4. PICK exists, ok \in BOOLEAN :
         /\ ok => exists
         /\ IF exists THEN Exists("device") ELSE UNCHANGED held
         /\ IF PushedDevice(exists, ok) THEN Push("device") ELSE UNCHANGED undo
         /\ IF ok THEN StartTo("open") /\ UNCHANGED stopPc ELSE Fail
  BY DEF StartDevice
<1>5. /\ exists => /\ undo' = [undo EXCEPT ![attempt] = <<"scope", "device">>]
                   /\ held' = held \cup {<<attempt, "device">>}
      /\ ~exists => UNCHANGED <<undo, held>>
  BY <1>2, <1>4, UndoPushes DEF PushedDevice, Push, Exists
<1>6. /\ ok => startPc' = "open" /\ UNCHANGED stopPc
      /\ ~ok => startPc' = "rollback" /\ stopPc' = [stopPc EXCEPT ![attempt] = "begin"]
  BY <1>4 DEF Fail, StartTo
<1>7. /\ undo'[attempt] = IF exists THEN <<"scope", "device">> ELSE <<"scope">>
      /\ \A h \in Attempts : h # attempt => undo'[h] = undo[h]
  BY <1>2, <1>5 DEF TypeOK
<1>8. \A h \in Attempts : h # attempt => stopPc'[h] = stopPc[h]
  BY <1>2, <1>6 DEF TypeOK
<1>9. \A h \in Attempts : h # attempt => \A k \in Kinds : <<h, k>> \in held' <=> <<h, k>> \in held
  BY <1>5
<1>10. TypeOK'
  <2>1. undo' \in [Attempts -> Seq(Kinds)] BY <1>2, <1>5, UndoLists DEF TypeOK
  <2>2. held' \subseteq Attempts \X Kinds BY <1>2, <1>5 DEF TypeOK, Kinds
  <2>3. /\ stopPc' \in [Attempts -> {"idle", "begin", "wait", "undo", "failed"}]
        /\ startPc' \in {"open", "rollback"}
    BY <1>2, <1>6 DEF TypeOK
  <2> QED BY <1>1, <1>2, <2>1, <2>2, <2>3 DEF TypeOK
<1>11. StartPlaces(attempt)'
  <2>1. CASE ok BY <1>1, <1>2, <1>4, <1>5, <1>6, <1>7, <2>1 DEF StartPlaces
  <2>2. CASE ~ok
    <3>1. stopPc'[attempt] = "begin" BY <1>2, <1>6, <2>2 DEF TypeOK
    <3> QED BY <1>1, <1>6, <2>2, <3>1 DEF StartPlaces
  <2> QED BY <2>1, <2>2
<1>12. \A k \in Kinds : <<attempt, k>> \in held' => k \in ToSet(undo'[attempt])
  BY <1>3, <1>5, <1>7, UndoSets
<1>13. startPc' # "none" BY <1>6
<1> QED BY <1>1, <1>7, <1>8, <1>9, <1>10, <1>11, <1>12, <1>13, StartGoesOn

\* Open and the readiness checks acquire nothing of their own.
LEMMA StartChecksInv == ASSUME LeaseInv, StartOpen \/ WaitForInitialReadiness PROVE LeaseInv'
<1>1. /\ startPc \in {"open", "readiness"}
      /\ UNCHANGED <<mu, active, owned, ready, undo, held, networkVars, attempt, onDone, canceled, monitorVars>>
  BY DEF StartOpen, WaitForInitialReadiness, StartFrame
<1>2. /\ attempt \in Attempts /\ TypeOK /\ undo[attempt] = <<"scope", "device">> /\ stopPc[attempt] = "idle"
      /\ {<<attempt, "scope">>, <<attempt, "device">>} \subseteq held /\ LeaseBooks(attempt)
  BY <1>1, StartLease DEF StartPlaces
<1>3. /\ \/ startPc' \in {"readiness", "attach"} /\ UNCHANGED stopPc
         \/ startPc' = "rollback" /\ stopPc' = [stopPc EXCEPT ![attempt] = "begin"]
      /\ checks' = checks \/ (checks' = checks + 1 /\ MoreAttempts)
  BY DEF StartOpen, WaitForInitialReadiness, StartTo, Fail
<1>4. checks' \in 0..(ReadinessAttempts - 1)
  BY <1>2, <1>3, LifecycleAssumption DEF TypeOK, MoreAttempts
<1>5. \A h \in Attempts : h # attempt => stopPc'[h] = stopPc[h]
  BY <1>2, <1>3 DEF TypeOK
<1>6. TypeOK' BY <1>1, <1>2, <1>3, <1>4 DEF TypeOK
<1>7. StartPlaces(attempt)'
  <2>1. CASE startPc' \in {"readiness", "attach"} /\ UNCHANGED stopPc
    BY <1>1, <1>2, <2>1 DEF StartPlaces
  <2>2. CASE startPc' = "rollback" /\ stopPc' = [stopPc EXCEPT ![attempt] = "begin"]
    <3>1. stopPc'[attempt] = "begin" BY <1>2, <2>2 DEF TypeOK
    <3> QED BY <1>1, <2>2, <3>1 DEF StartPlaces
  <2> QED BY <1>3, <2>1, <2>2
<1>8. startPc' # "none" BY <1>3
<1>9. \A k \in Kinds : <<attempt, k>> \in held' => k \in ToSet(undo'[attempt])
  BY <1>1, <1>2 DEF LeaseBooks
<1>10. undo'[attempt] = <<"scope", "device">> BY <1>1, <1>2
<1> QED BY <1>1, <1>5, <1>6, <1>7, <1>8, <1>9, <1>10, StartGoesOn

\* Attach: Start fails, or returns a lease that holds everything, with its monitor.
LEMMA StartAttachInv == ASSUME LeaseInv, StartAttach PROVE LeaseInv'
<1>1. /\ startPc = "attach"
      /\ UNCHANGED <<active, checks, networkVars, attempt, canceled, failures, healthCanceled, reported>>
  BY DEF StartAttach
<1>2. /\ attempt \in Attempts /\ TypeOK /\ undo[attempt] = <<"scope", "device">> /\ stopPc[attempt] = "idle"
      /\ {<<attempt, "scope">>, <<attempt, "device">>} \subseteq held
      /\ LeaseBooks(attempt) /\ MonitorBooks(attempt) /\ owned[attempt] = "starting"
      /\ mu = "start" /\ active /\ Flags /\ monitor[attempt] = "none"
  BY <1>1, StartLease DEF StartPlaces
<1>3. CASE Fail /\ UNCHANGED <<mu, owned, ready, undo, onDone, monitor, held>>
  <2>1. startPc' = "rollback" /\ stopPc' = [stopPc EXCEPT ![attempt] = "begin"] BY <1>3 DEF Fail, StartTo
  <2>2. TypeOK' BY <1>1, <1>2, <1>3, <2>1 DEF TypeOK
  <2>3. stopPc'[attempt] = "begin" /\ \A h \in Attempts : h # attempt => stopPc'[h] = stopPc[h]
    BY <1>2, <2>1 DEF TypeOK
  <2>4. StartPlaces(attempt)' BY <1>1, <2>1, <2>3 DEF StartPlaces
  <2>5. \A k \in Kinds : <<attempt, k>> \in held' => k \in ToSet(undo'[attempt])
    BY <1>2, <1>3 DEF LeaseBooks
  <2> QED BY <1>1, <1>2, <1>3, <2>1, <2>2, <2>3, <2>4, <2>5, StartGoesOn
<1>4. CASE ~(Fail /\ UNCHANGED <<mu, owned, ready, undo, onDone, monitor, held>>)
  <2>1. /\ startPc' = "none" /\ mu' = "free" /\ UNCHANGED stopPc
        /\ undo' = [undo EXCEPT ![attempt] = <<"scope", "device", "attachment">>]
        /\ held' = held \cup {<<attempt, "attachment">>}
        /\ onDone' = [onDone EXCEPT ![attempt] = TRUE]
        /\ owned' = [owned EXCEPT ![attempt] = "returned"]
        /\ ready' = [ready EXCEPT ![attempt] = TRUE]
        /\ monitor' = [monitor EXCEPT ![attempt] = "check"]
    BY <1>2, <1>4, UndoPushes DEF StartAttach, StartTo, Push, Exists
  <2>2. /\ undo'[attempt] = <<"scope", "device", "attachment">> /\ owned'[attempt] = "returned" /\ onDone'[attempt]
        /\ monitor'[attempt] = "check"
        /\ \A h \in Attempts : h # attempt =>
              /\ undo'[h] = undo[h] /\ owned'[h] = owned[h] /\ ready'[h] = ready[h] /\ onDone'[h] = onDone[h]
              /\ monitor'[h] = monitor[h]
    BY <1>2, <2>1 DEF TypeOK
  <2>3. TypeOK' BY <1>1, <1>2, <2>1, UndoLists DEF TypeOK, Kinds
  <2>4. Flags' BY <1>1, <1>2, <2>1, <2>2 DEF Flags, Live, NetworkIsOwed
  <2>5. \A k \in Kinds : <<attempt, k>> \in held' /\ k \in ToSet(undo'[attempt])
    BY <1>2, <2>1, <2>2, UndoSets DEF Kinds
  <2>6. LeaseBooks(attempt)' BY <1>1, <1>2, <2>1, <2>2, <2>5 DEF LeaseBooks, Live
  <2>7. MonitorBooks(attempt)' BY <1>1, <1>2, <2>1, <2>2 DEF MonitorBooks
  <2>8. StartPlaces(attempt)' BY <2>1 DEF StartPlaces
  <2>9. \A h \in Attempts : h # attempt => \A k \in Kinds : <<h, k>> \in held' <=> <<h, k>> \in held
    BY <2>1
  <2> QED BY <1>1, <1>2, <2>1, <2>2, <2>3, <2>4, <2>6, <2>7, <2>8, <2>9, OneLease
<1> QED BY <1>3, <1>4

-----------------------------------------------------------------------------
(* Stop of a lease, its monitor *)

\* A lease that is being stopped is live: the last one that was started.
LEMMA StoppingIsLive ==
    ASSUME LeaseInv, NEW g \in Attempts, stopPc[g] # "idle"
    PROVE  /\ Live(g) /\ g = attempt /\ attempt # 0 /\ active /\ TypeOK /\ Flags
           /\ LeaseBooks(g) /\ MonitorBooks(g) /\ StartPlaces(g)
           /\ owned[g] = "starting" => startPc = "rollback" /\ mu = "start"
<1>1. TypeOK /\ Flags /\ LeaseBooks(g) /\ MonitorBooks(g) BY DEF LeaseInv
<1>2. Live(g) BY <1>1 DEF LeaseBooks
<1>3. g = attempt /\ attempt # 0 BY <1>1, <1>2, AttemptNumbers DEF Flags
<1>4. active BY <1>1, <1>2, <1>3 DEF Flags
<1>5. StartPlaces(g) BY <1>3 DEF LeaseInv
<1>6. owned[g] = "starting" => startPc = "rollback" /\ mu = "start"
  BY <1>1, <1>3, <1>5 DEF Flags, StartPlaces, TypeOK
<1> QED BY <1>1, <1>2, <1>3, <1>4, <1>5, <1>6

\* A step of Stop that moves to another place, and may release what is on the list.
LEMMA StopGoesOn ==
    ASSUME LeaseInv, NEW g \in Attempts, Live(g), TypeOK',
           UNCHANGED <<mu, active, networkVars, attempt, startPc, owned, ready, onDone, monitor, failures>>,
           \A h \in Attempts : h # g =>
               /\ undo'[h] = undo[h] /\ stopPc'[h] = stopPc[h]
               /\ \A k \in Kinds : <<h, k>> \in held' <=> <<h, k>> \in held,
           undo'[g] \in {<<>>, <<"scope">>, <<"scope", "device">>, <<"scope", "device", "attachment">>},
           \A k \in Kinds : <<g, k>> \in held' => k \in ToSet(undo'[g]),
           stopPc'[g] # "idle", startPc \in {"none", "rollback"}, MonitorBooks(g)'
    PROVE  LeaseInv'
<1>1. Flags /\ LeaseBooks(g) BY DEF LeaseInv
<1>2. Flags' BY <1>1 DEF Flags, Live, NetworkIsOwed
<1>3. LeaseBooks(g)' BY <1>1 DEF LeaseBooks, Live
<1>4. g = attempt BY <1>1 DEF Flags
<1>5. StartPlaces(attempt)' BY <1>4 DEF StartPlaces
<1> QED BY <1>2, <1>3, <1>5, OneLease

\* Stop of a lease that the manager was given.
LEMMA StopInv == ASSUME LeaseInv, NEW g \in Attempts, Stop(g) PROVE LeaseInv'
<1>1. /\ owned[g] = "returned" /\ stopPc[g] = "idle" /\ stopPc' = [stopPc EXCEPT ![g] = "begin"]
      /\ UNCHANGED <<mu, active, startPc, owned, ready, undo, onDone, healthCanceled, held>>
      /\ UNCHANGED <<networkVars, attempt, checks, canceled, monitor, failures, reported>>
  BY DEF Stop, StopTo, LeaseFrame
<1>2. TypeOK /\ Flags /\ LeaseBooks(g) /\ MonitorBooks(g) BY DEF LeaseInv
<1>3. Live(g) /\ mu # "start" /\ startPc = "none"
  <2>1. Live(g) BY <1>1 DEF Live
  <2>2. g = attempt BY <1>2, <2>1 DEF Flags
  <2> QED BY <1>1, <1>2, <2>1, <2>2 DEF Flags
<1>4. stopPc'[g] = "begin" /\ \A h \in Attempts : h # g => stopPc'[h] = stopPc[h]
  BY <1>1, <1>2 DEF TypeOK
<1>5. TypeOK' BY <1>1, <1>2 DEF TypeOK
<1>6. MonitorBooks(g)' BY <1>1, <1>2, <1>4 DEF MonitorBooks
<1>7. /\ undo'[g] \in {<<>>, <<"scope">>, <<"scope", "device">>, <<"scope", "device", "attachment">>}
      /\ \A k \in Kinds : <<g, k>> \in held' => k \in ToSet(undo'[g])
  BY <1>1, <1>2 DEF LeaseBooks
<1> QED BY <1>1, <1>3, <1>4, <1>5, <1>6, <1>7, StopGoesOn

\* Stop cancels the monitor and waits for it, to the deadline.
LEMMA StopWaitsInv == ASSUME LeaseInv, NEW g \in Attempts, StopBegin(g) \/ StopWait(g) PROVE LeaseInv'
<1>1. /\ stopPc[g] \in {"begin", "wait"}
      /\ UNCHANGED <<mu, active, startPc, owned, ready, undo, onDone, held>>
      /\ UNCHANGED <<networkVars, attempt, checks, canceled, monitor, failures, reported>>
  BY DEF StopBegin, StopWait, LeaseFrame
<1>2. \E place \in {"wait", "undo", "failed"} :
         /\ stopPc' = [stopPc EXCEPT ![g] = place]
         /\ place = "undo" => monitor[g] \in {"none", "ended"}
  BY DEF StopBegin, StopWait, StopTo, MonitorDone
<1>3. PICK place \in {"wait", "undo", "failed"} :
         /\ stopPc' = [stopPc EXCEPT ![g] = place]
         /\ place = "undo" => monitor[g] \in {"none", "ended"}
  BY <1>2
<1>4. TypeOK /\ Live(g) /\ LeaseBooks(g) /\ MonitorBooks(g) /\ startPc \in {"none", "rollback"}
  BY <1>1, StoppingIsLive DEF StartPlaces
<1>5. healthCanceled' \subseteq Attempts
  BY <1>4 DEF StopBegin, StopWait, TypeOK
<1>6. stopPc'[g] = place /\ \A h \in Attempts : h # g => stopPc'[h] = stopPc[h]
  BY <1>3, <1>4 DEF TypeOK
<1>7. TypeOK' BY <1>1, <1>3, <1>4, <1>5 DEF TypeOK
<1>8. MonitorBooks(g)' BY <1>1, <1>3, <1>4, <1>6 DEF MonitorBooks
<1>9. /\ undo'[g] \in {<<>>, <<"scope">>, <<"scope", "device">>, <<"scope", "device", "attachment">>}
      /\ \A k \in Kinds : <<g, k>> \in held' => k \in ToSet(undo'[g])
  BY <1>1, <1>4 DEF LeaseBooks
<1> QED BY <1>1, <1>4, <1>6, <1>7, <1>8, <1>9, StopGoesOn

\* Stop releases the last one of the list, and nothing that another lease has.
LEMMA StopUndoInv == ASSUME LeaseInv, NEW g \in Attempts, StopUndo(g) PROVE LeaseInv'
<1>1. /\ stopPc[g] = "undo" /\ undo[g] # <<>>
      /\ UNCHANGED <<mu, active, startPc, owned, ready, onDone, healthCanceled>>
      /\ UNCHANGED <<networkVars, attempt, checks, canceled, monitor, failures, reported>>
  BY DEF StopUndo, LeaseFrame
<1>2. TypeOK /\ Live(g) /\ LeaseBooks(g) /\ MonitorBooks(g) /\ startPc \in {"none", "rollback"}
  BY <1>1, StoppingIsLive DEF StartPlaces
<1>3. CASE UndoLast(g) /\ UNCHANGED stopPc
  <2>1. undo[g] \in {<<"scope">>, <<"scope", "device">>, <<"scope", "device", "attachment">>}
    BY <1>1, <1>2 DEF LeaseBooks
  <2>2. PICK k1 : k1 = Last(undo[g]) OBVIOUS
  <2>3. PICK u1 : u1 = Front(undo[g]) OBVIOUS
  <2>4. /\ u1 \in {<<>>, <<"scope">>, <<"scope", "device">>}
        /\ \A k \in ToSet(undo[g]) : k # k1 => k \in ToSet(u1)
    BY <2>1, <2>2, <2>3, UndoPops, UndoSets
  <2>5. undo' = [undo EXCEPT ![g] = u1] /\ held' = held \ {<<g, k1>>}
    BY <1>3, <2>2, <2>3 DEF UndoLast
  <2>6. undo'[g] = u1 /\ \A h \in Attempts : h # g => undo'[h] = undo[h]
    BY <1>2, <2>5 DEF TypeOK
  <2>7. TypeOK'
    <3>1. u1 \in Seq(Kinds) BY <2>4, UndoLists
    <3> QED BY <1>1, <1>2, <1>3, <2>5, <3>1 DEF TypeOK
  <2>8. \A k \in Kinds : <<g, k>> \in held' => k \in ToSet(undo'[g])
    BY <1>2, <2>4, <2>5, <2>6 DEF LeaseBooks
  <2>9. \A h \in Attempts : h # g => \A k \in Kinds : <<h, k>> \in held' <=> <<h, k>> \in held
    BY <2>5
  <2>10. MonitorBooks(g)' BY <1>1, <1>2, <1>3 DEF MonitorBooks
  <2>11. undo'[g] \in {<<>>, <<"scope">>, <<"scope", "device">>, <<"scope", "device", "attachment">>}
    BY <2>4, <2>6
  <2> QED BY <1>1, <1>2, <1>3, <2>6, <2>7, <2>8, <2>9, <2>10, <2>11, StopGoesOn
<1>4. CASE StopTo(g, "failed") /\ UNCHANGED <<undo, held>>
  <2>1. stopPc' = [stopPc EXCEPT ![g] = "failed"] BY <1>4 DEF StopTo
  <2>2. stopPc'[g] = "failed" /\ \A h \in Attempts : h # g => stopPc'[h] = stopPc[h]
    BY <1>2, <2>1 DEF TypeOK
  <2>3. TypeOK' BY <1>1, <1>2, <1>4, <2>1 DEF TypeOK
  <2>4. MonitorBooks(g)' BY <1>1, <1>2, <2>2 DEF MonitorBooks
  <2>5. /\ undo'[g] \in {<<>>, <<"scope">>, <<"scope", "device">>, <<"scope", "device", "attachment">>}
        /\ \A k \in Kinds : <<g, k>> \in held' => k \in ToSet(undo'[g])
    BY <1>2, <1>4 DEF LeaseBooks
  <2> QED BY <1>1, <1>2, <1>4, <2>2, <2>3, <2>4, <2>5, StopGoesOn
<1> QED BY <1>3, <1>4 DEF StopUndo

\* A Stop that failed: the manager has the lease, which it can stop again.
LEMMA StopFailedInv == ASSUME LeaseInv, NEW g \in Attempts, StopFailed(g) PROVE LeaseInv'
<1>1. /\ stopPc[g] = "failed" /\ stopPc' = [stopPc EXCEPT ![g] = "idle"]
      /\ ready' = [ready EXCEPT ![g] = FALSE] /\ owned' = [owned EXCEPT ![g] = "returned"]
      /\ onDone' = [onDone EXCEPT ![g] = TRUE] /\ active' = active
      /\ mu' = IF owned[g] = "starting" THEN "free" ELSE mu
      /\ startPc' = IF owned[g] = "starting" THEN "none" ELSE startPc
      /\ UNCHANGED <<undo, healthCanceled, held>>
      /\ UNCHANGED <<networkVars, attempt, checks, canceled, monitor, failures, reported>>
  BY DEF StopFailed, StopTo, LeaseFrame, ActiveAfterFailure
<1>2. /\ TypeOK /\ Flags /\ Live(g) /\ g = attempt /\ attempt # 0 /\ active /\ LeaseBooks(g) /\ MonitorBooks(g)
      /\ owned[g] = "starting" => startPc = "rollback" /\ mu = "start"
  BY <1>1, StoppingIsLive
<1>3. mu' # "start" /\ startPc' = "none" BY <1>1, <1>2 DEF Flags, Live
<1>4. /\ stopPc'[g] = "idle" /\ ready'[g] = FALSE /\ owned'[g] = "returned" /\ onDone'[g]
      /\ \A h \in Attempts : h # g => stopPc'[h] = stopPc[h] /\ ready'[h] = ready[h] /\ onDone'[h] = onDone[h] /\ owned'[h] = owned[h]
  BY <1>1, <1>2 DEF TypeOK
<1>5. TypeOK' BY <1>1, <1>2 DEF TypeOK
<1>6. Flags'
  <2>1. NetworkIsOwed' BY <1>1, <1>2 DEF Flags, NetworkIsOwed
  <2> QED BY <1>1, <1>2, <1>3, <1>4, <2>1 DEF Flags, Live
<1>7. LeaseBooks(g)' BY <1>1, <1>2, <1>4 DEF LeaseBooks, Live
<1>8. MonitorBooks(g)' BY <1>1, <1>2, <1>4 DEF MonitorBooks
<1>9. StartPlaces(attempt)' BY <1>3 DEF StartPlaces
<1> QED BY <1>1, <1>4, <1>5, <1>6, <1>7, <1>8, <1>9, OneLease

\* A lease that was taken down: by Start, or by the manager, whose callback clears active.
LEMMA LeaseGoneInv == ASSUME LeaseInv, NEW g \in Attempts, Rollback(g) \/ Stopped(g) PROVE LeaseInv'
<1>1. /\ stopPc[g] = "undo" /\ undo[g] = <<>>
      /\ owned' = [owned EXCEPT ![g] = "gone"] /\ stopPc' = [stopPc EXCEPT ![g] = "idle"]
      /\ UNCHANGED <<ready, undo, onDone, healthCanceled, held>>
      /\ UNCHANGED <<networkVars, attempt, checks, canceled, monitor, failures, reported>>
  BY DEF Rollback, Stopped, StopTo, LeaseFrame
<1>2. /\ TypeOK /\ Flags /\ Live(g) /\ g = attempt /\ attempt # 0 /\ active /\ LeaseBooks(g) /\ MonitorBooks(g)
      /\ owned[g] = "starting" => startPc = "rollback" /\ mu = "start"
  BY <1>1, StoppingIsLive
<1>3. /\ stopPc'[g] = "idle" /\ owned'[g] = "gone"
      /\ \A h \in Attempts : h # g => stopPc'[h] = stopPc[h] /\ owned'[h] = owned[h]
  BY <1>1, <1>2 DEF TypeOK
<1>4. active' = FALSE /\ mu' # "start" /\ startPc' = "none" /\ mu' \in {"free", mu}
      /\ (mu' = "prepare" <=> mu = "prepare")
  <2>1. CASE Rollback(g) BY <1>2, <2>1 DEF Rollback, ActiveAfterRollback
  <2>2. CASE Stopped(g)
    <3>1. owned[g] = "returned" /\ UNCHANGED <<mu, startPc>> /\ active' = (IF onDone[g] THEN FALSE ELSE active)
      BY <2>2 DEF Stopped
    <3>2. onDone[g] BY <1>2, <3>1 DEF LeaseInv, LeaseBooks
    <3> QED BY <1>2, <3>1, <3>2 DEF Flags
  <2> QED BY <2>1, <2>2
<1>5. TypeOK' BY <1>1, <1>2, <1>4 DEF TypeOK
<1>6. Flags'
  <2>1. NetworkIsOwed' BY <1>1, <1>2, <1>4 DEF Flags, NetworkIsOwed
  <2>2. \A h \in Attempts : ~Live(h)' BY <1>2, <1>3 DEF Flags, Live
  <2> QED BY <1>1, <1>2, <1>4, <2>1, <2>2 DEF Flags, Live
<1>7. LeaseBooks(g)' BY <1>1, <1>2, <1>3 DEF LeaseBooks, Live
<1>8. MonitorBooks(g)' BY <1>1, <1>2, <1>3 DEF MonitorBooks
<1>9. StartPlaces(attempt)' BY <1>4 DEF StartPlaces
<1> QED BY <1>1, <1>3, <1>5, <1>6, <1>7, <1>8, <1>9, OneLease

\* The monitor's own steps, and the end of an attempt's context: a monitor that has ended
\* stays so, and counts failures up to its threshold.
LEMMA MonitorInv ==
    ASSUME LeaseInv, NEW g \in Attempts, MonitorCheck(g) \/ MonitorSleep(g) PROVE LeaseInv'
<1>1. /\ monitor[g] \in {"check", "sleep"}
      /\ UNCHANGED <<mu, active, networkVars, attempt, startPc, checks, leaseVars, held, canceled, healthCanceled>>
  BY DEF MonitorCheck, MonitorSleep, MonitorFrame
<1>2. TypeOK /\ Flags /\ LeaseBooks(g) /\ MonitorBooks(g) BY DEF LeaseInv
<1>3. \E m \in {"check", "sleep", "ended"}, f \in 0..HealthFailureThreshold :
         /\ monitor' = [monitor EXCEPT ![g] = m] /\ failures' = [failures EXCEPT ![g] = f]
         /\ m # "ended" => f < HealthFailureThreshold
  <2>1. failures[g] \in Nat /\ failures[g] < HealthFailureThreshold
    BY <1>1, <1>2, LifecycleAssumption DEF TypeOK, MonitorBooks
  <2>2. 0 \in 0..HealthFailureThreshold /\ 0 < HealthFailureThreshold
        /\ failures[g] + 1 \in 0..HealthFailureThreshold /\ failures[g] \in 0..HealthFailureThreshold
    BY <2>1, LifecycleAssumption
  <2>3. CASE MonitorCheck(g)
    <3>1. CASE failures' = [failures EXCEPT ![g] = 0] /\ monitor' = [monitor EXCEPT ![g] = "sleep"]
      BY <2>2, <3>1
    <3>2. CASE failures' = [failures EXCEPT ![g] = failures[g] + 1] /\ failures[g] + 1 < HealthFailureThreshold
               /\ monitor' = [monitor EXCEPT ![g] = "sleep"]
      BY <2>2, <3>2
    <3>3. CASE failures' = [failures EXCEPT ![g] = failures[g] + 1] /\ monitor' = [monitor EXCEPT ![g] = "ended"]
      BY <2>2, <3>3
    <3> QED BY <2>3, <3>1, <3>2, <3>3 DEF MonitorCheck
  <2>4. CASE MonitorSleep(g)
    <3>1. failures' = [failures EXCEPT ![g] = failures[g]] BY <1>2, <2>4 DEF MonitorSleep, TypeOK
    <3> QED BY <2>1, <2>2, <2>4, <3>1 DEF MonitorSleep
  <2> QED BY <2>3, <2>4
<1>4. PICK m \in {"check", "sleep", "ended"}, f \in 0..HealthFailureThreshold :
         /\ monitor' = [monitor EXCEPT ![g] = m] /\ failures' = [failures EXCEPT ![g] = f]
         /\ m # "ended" => f < HealthFailureThreshold
  BY <1>3
<1>5. /\ monitor'[g] = m /\ failures'[g] = f
      /\ \A h \in Attempts : h # g => monitor'[h] = monitor[h] /\ failures'[h] = failures[h]
  BY <1>2, <1>4 DEF TypeOK
<1>6. TypeOK'
  <2>1. reported' \subseteq Attempts BY <1>2 DEF MonitorCheck, MonitorSleep, TypeOK
  <2> QED BY <1>1, <1>2, <1>4, <2>1 DEF TypeOK
<1>7. Flags' BY <1>1, <1>2 DEF Flags, Live, NetworkIsOwed
<1>8. LeaseBooks(g)' BY <1>1, <1>2 DEF LeaseBooks, Live
<1>9. MonitorBooks(g)' BY <1>1, <1>2, <1>4, <1>5 DEF MonitorBooks
<1>10. attempt # 0 => StartPlaces(attempt)' BY <1>1 DEF LeaseInv, StartPlaces
<1> QED BY <1>1, <1>5, <1>6, <1>7, <1>8, <1>9, <1>10, OneLease

\* The manager ends the context of an attempt.
LEMMA CancelInv == ASSUME LeaseInv, NEW g \in Attempts, Cancel(g) PROVE LeaseInv'
<1>1. /\ canceled' = canceled \cup {g} /\ UNCHANGED monitorVars
      /\ UNCHANGED <<mu, active, networkVars, attempt, startPc, checks, leaseVars, held>>
  BY DEF Cancel, MonitorFrame
<1>2. TypeOK /\ NetworkIsOwed BY DEF LeaseInv, Flags
<1>3. TypeOK' BY <1>1, <1>2 DEF TypeOK
<1>4. NetworkIsOwed' BY <1>1, <1>2 DEF NetworkIsOwed
<1> QED BY <1>1, <1>3, <1>4, NoLease

\* Every step of the runtime keeps the invariant.
LEMMA LeaseStep == LeaseInv /\ [Next]_vars => LeaseInv'
<1> SUFFICES ASSUME LeaseInv, [Next]_vars PROVE LeaseInv' OBVIOUS
<1>1. CASE NetworkStep BY <1>1, NetworkStepInv
<1>2. CASE StartBegin BY <1>2, StartBeginInv
<1>3. CASE StartStep
  BY <1>3, StartInputsInv, StartDeviceInv, StartChecksInv, StartAttachInv DEF StartStep
<1>4. ASSUME NEW g \in Attempts, Stop(g) \/ StopStep(g) PROVE LeaseInv'
  BY <1>4, StopInv, StopWaitsInv, StopUndoInv, StopFailedInv, LeaseGoneInv DEF StopStep
<1>5. ASSUME NEW g \in Attempts, MonitorCheck(g) \/ MonitorSleep(g) \/ Cancel(g) PROVE LeaseInv'
  BY <1>5, MonitorInv, CancelInv
<1>6. CASE UNCHANGED vars
  <2>1. TypeOK /\ NetworkIsOwed BY DEF LeaseInv, Flags
  <2>2. TypeOK' BY <1>6, <2>1 DEF TypeOK, vars
  <2>3. NetworkIsOwed' BY <1>6, <2>1 DEF NetworkIsOwed, vars
  <2> QED BY <1>6, <2>2, <2>3, NoLease DEF vars
<1> QED BY <1>1, <1>2, <1>3, <1>4, <1>5, <1>6 DEF Next

\* The inductive invariant holds throughout.
LEMMA LeaseAlways == Spec => []LeaseInv
  BY LeaseInit, LeaseStep, PTL DEF Spec

-----------------------------------------------------------------------------
(* What it gives *)

\* The invariant that the runs check follows: flags, undo lists, one attempt at a time.
LEMMA LeaseGives == LeaseInv => LifecycleInv
<1> SUFFICES ASSUME LeaseInv PROVE LifecycleInv OBVIOUS
<1>1. TypeOK /\ Flags /\ NetworkIsOwed BY DEF LeaseInv, Flags
<1>2. ActiveIsOwed
  <2>1. ASSUME active PROVE \E g \in Attempts : owned[g] \in {"starting", "returned"}
    BY <1>1, <2>1, AttemptNumbers DEF Flags, Live
  <2>2. ASSUME NEW g \in Attempts, owned[g] \in {"starting", "returned"} PROVE active
    BY <1>1, <2>2, AttemptNumbers DEF Flags, Live
  <2> QED BY <2>1, <2>2 DEF ActiveIsOwed
<1>3. ASSUME NEW p \in held
      PROVE  p[1] \in Attempts /\ p[2] \in ToSet(undo[p[1]]) /\ Live(p[1])
  <2>1. PICK g \in Attempts, k \in Kinds : p = <<g, k>> BY <1>1, <1>3 DEF TypeOK
  <2>2. LeaseBooks(g) BY DEF LeaseInv
  <2>3. k \in ToSet(undo[g]) BY <1>3, <2>1, <2>2 DEF LeaseBooks
  <2>4. Live(g) BY <2>2, <2>3, UndoSets DEF LeaseBooks
  <2> QED BY <2>1, <2>3, <2>4
<1>4. OnUndoList BY <1>3 DEF OnUndoList, LeaseInv, LeaseBooks, Live
<1>5. OneAttempt BY <1>1, <1>3 DEF OneAttempt, Flags
<1> QED BY <1>1, <1>2, <1>4, <1>5 DEF LifecycleInv

\* active and network are owed to somebody who can clear them, whatever a lease has
\* acquired is on its undo list in order, and attempts never overlap: through every
\* failure of Start and of Stop.
THEOREM RuntimeKeepsItsBooks == Spec => []LifecycleInv
  BY LeaseAlways, LeaseGives, PTL

\* Only StopUndo releases anything, after it has seen the monitor end.
LEMMA ReleaseStep ==
    LeaseInv /\ [Next]_vars => [\A p \in held \ held' : monitor[p[1]] \in {"none", "ended"}]_vars
<1> SUFFICES ASSUME LeaseInv, Next, NEW p \in held, p \notin held'
             PROVE  monitor[p[1]] \in {"none", "ended"}
  BY DEF vars
<1>1. \E g \in Attempts : StopUndo(g)
  <2>1. CASE NetworkStep \/ StartBegin
    BY <2>1 DEF NetworkStep, PrepareNetwork, PrepareReturns, StopNetwork, NetworkStopped, NetworkFrame, StartBegin
  <2>2. CASE StartStep
    BY <2>2 DEF StartStep, StartInputs, StartDevice, StartOpen, WaitForInitialReadiness, StartAttach, Exists
  <2>3. ASSUME NEW g \in Attempts,
               Stop(g) \/ StopStep(g) \/ MonitorCheck(g) \/ MonitorSleep(g) \/ Cancel(g)
        PROVE  StopUndo(g)
    BY <2>3 DEF Stop, StopStep, StopBegin, StopWait, StopFailed, Rollback, Stopped, MonitorCheck,
                MonitorSleep, Cancel, MonitorFrame
  <2> QED BY <2>1, <2>2, <2>3 DEF Next
<1>2. PICK g \in Attempts : StopUndo(g) BY <1>1
<1>3. p = <<g, Last(undo[g])>> BY <1>2 DEF StopUndo, UndoLast
<1>4. stopPc[g] = "undo" /\ MonitorBooks(g) BY <1>2 DEF StopUndo, LeaseInv
<1> QED BY <1>3, <1>4 DEF MonitorBooks

\* No health check runs on a transport that Stop is releasing, also when a Stop before
\* it gave up at its deadline.
THEOREM MonitorEndsFirst == Spec => MonitorFirst
<1>1. LeaseInv /\ [Next]_vars => [\A p \in held \ held' : monitor[p[1]] \in {"none", "ended"}]_vars
  BY ReleaseStep
<1> QED BY <1>1, LeaseAlways, PTL DEF Spec, MonitorFirst

-----------------------------------------------------------------------------
(* Every lease implements RuntimeOwner *)

\* A lease holds nothing, part, or all.
LEMMA HoldsSomething == ASSUME NEW g \in Attempts PROVE LeaseHolds(g) \in {"nothing", "part", "all"}
  BY DEF LeaseHolds

\* What a lease holds only depends on its own resources.
LEMMA HoldsUnchanged ==
    ASSUME NEW g \in Attempts, \A k \in Kinds : <<g, k>> \in held' <=> <<g, k>> \in held
    PROVE  UNCHANGED LeaseHolds(g)
<1>1. {k \in Kinds : <<g, k>> \in held'} = {k \in Kinds : <<g, k>> \in held} OBVIOUS
<1> QED BY <1>1 DEF LeaseHolds

\* Everything, and nothing.
LEMMA HoldsExtremes ==
    ASSUME NEW g \in Attempts
    PROVE  /\ (\A k \in Kinds : <<g, k>> \in held) => LeaseHolds(g) = "all"
           /\ (\A k \in Kinds : <<g, k>> \notin held) => LeaseHolds(g) = "nothing"
<1>1. ASSUME \A k \in Kinds : <<g, k>> \in held PROVE LeaseHolds(g) = "all"
  <2>1. {k \in Kinds : <<g, k>> \in held} = Kinds BY <1>1
  <2>2. Kinds # {} BY DEF Kinds
  <2> QED BY <2>1, <2>2 DEF LeaseHolds
<1>2. ASSUME \A k \in Kinds : <<g, k>> \notin held PROVE LeaseHolds(g) = "nothing"
  BY <1>2 DEF LeaseHolds
<1> QED BY <1>1, <1>2

\* The promise before a lease is begun.
LEMMA OwnerInit == ASSUME Init, NEW g \in Attempts PROVE Owner(g)!Init
<1>1. LeasePhase(g) = "acquiring" BY DEF Init, LeasePhase
<1>2. LeaseHolds(g) = "nothing" BY HoldsExtremes DEF Init
<1> QED BY <1>1, <1>2 DEF Owner!Init

OwnerStep(g) == Owner(g)!Next \/ UNCHANGED <<LeasePhase(g), LeaseHolds(g)>>

\* A step of another lease, or of none.
LEMMA OwnerLeftAlone ==
    ASSUME NEW g \in Attempts,
           owned'[g] = owned[g], ready'[g] = ready[g], stopPc'[g] = stopPc[g],
           \A k \in Kinds : <<g, k>> \in held' <=> <<g, k>> \in held
    PROVE  OwnerStep(g)
<1>1. UNCHANGED LeaseHolds(g) BY HoldsUnchanged
<1>2. UNCHANGED LeasePhase(g) BY DEF LeasePhase
<1> QED BY <1>1, <1>2 DEF OwnerStep

\* Acquisition, rollback and cleanup may change what is held.
LEMMA OwnerWorks ==
    ASSUME NEW g \in Attempts, LeasePhase(g) \in {"acquiring", "stopping"}, UNCHANGED LeasePhase(g)
    PROVE  OwnerStep(g)
<1>1. LeaseHolds(g)' \in {"nothing", "part", "all"} BY HoldsSomething DEF LeaseHolds
<1> QED BY <1>1 DEF OwnerStep, Owner!Next, Owner!Work, Owner!Held

\* Start.
LEMMA OwnerStarts ==
    ASSUME LeaseInv, StartBegin \/ StartStep, NEW g \in Attempts PROVE OwnerStep(g)
<1>1. CASE StartBegin
  <2>1. /\ attempt + 1 \in Attempts /\ owned' = [owned EXCEPT ![attempt + 1] = "starting"]
        /\ UNCHANGED <<ready, stopPc, held>> /\ TypeOK
    BY <1>1, AttemptNumbers, LifecycleAssumption DEF StartBegin, LeaseInv, Attempts
  <2>2. CASE g # attempt + 1
    <3>1. owned'[g] = owned[g] BY <2>1, <2>2 DEF TypeOK
    <3> QED BY <2>1, <3>1, OwnerLeftAlone
  <2>3. CASE g = attempt + 1
    <3>1. g > attempt BY <2>3, AttemptNumbers
    <3>2. owned[g] = "none" /\ owned'[g] = "starting"
      BY <2>1, <2>3, <3>1 DEF LeaseInv, LeaseBooks, TypeOK
    <3> QED BY <3>2, OwnerWorks DEF LeasePhase
  <2> QED BY <2>2, <2>3
<1>2. CASE StartStep
  <2>1. startPc \notin {"none", "rollback"}
    BY <1>2 DEF StartStep, StartInputs, StartDevice, StartOpen, WaitForInitialReadiness, StartAttach
  <2>2. /\ attempt \in Attempts /\ owned[attempt] = "starting" /\ TypeOK /\ LeasePhase(attempt) = "acquiring"
        /\ stopPc[attempt] = "idle"
    BY <2>1, StartLease DEF LeasePhase, StartPlaces
  <2>3. CASE g # attempt
    <3>1. \A k \in Kinds : <<g, k>> \in held' <=> <<g, k>> \in held
      BY <1>2, <2>3 DEF StartStep, StartInputs, StartDevice, StartOpen, WaitForInitialReadiness, StartAttach, Exists
    <3>2. UNCHANGED stopPc \/ stopPc' = [stopPc EXCEPT ![attempt] = "begin"]
      BY <1>2 DEF StartStep, StartInputs, StartDevice, StartOpen, WaitForInitialReadiness, StartAttach, Fail
    <3>3. /\ UNCHANGED owned \/ owned' = [owned EXCEPT ![attempt] = "returned"]
          /\ UNCHANGED ready \/ ready' = [ready EXCEPT ![attempt] = TRUE]
      BY <1>2 DEF StartStep, StartInputs, StartDevice, StartOpen, WaitForInitialReadiness, StartAttach
    <3>4. owned'[g] = owned[g] /\ ready'[g] = ready[g] /\ stopPc'[g] = stopPc[g]
      BY <2>2, <2>3, <3>2, <3>3 DEF TypeOK
    <3> QED BY <3>1, <3>4, OwnerLeftAlone
  <2>4. CASE g = attempt /\ UNCHANGED owned
    <3>1. UNCHANGED LeasePhase(g) BY <2>2, <2>4 DEF LeasePhase
    <3> QED BY <2>2, <2>4, <3>1, OwnerWorks
  <2>5. CASE g = attempt /\ ~UNCHANGED owned
    <3>1. /\ StartAttach /\ owned' = [owned EXCEPT ![attempt] = "returned"]
          /\ ready' = [ready EXCEPT ![attempt] = TRUE] /\ UNCHANGED <<stopPc, attempt>>
      BY <1>2, <2>5 DEF StartStep, StartInputs, StartDevice, StartOpen, WaitForInitialReadiness, StartAttach
    <3>2. LeaseInv' BY <3>1, StartAttachInv
    <3>3. owned'[g] = "returned" /\ ready'[g] = TRUE /\ stopPc'[g] = "idle"
      BY <2>2, <2>5, <3>1 DEF TypeOK
    <3>4. \A k \in Kinds : <<g, k>> \in held' BY <3>2, <3>3 DEF LeaseInv, LeaseBooks
    <3>5. LeaseHolds(g)' = "all"
      <4>1. {k \in Kinds : <<g, k>> \in held'} = Kinds BY <3>4
      <4>2. Kinds # {} BY DEF Kinds
      <4> QED BY <4>1, <4>2 DEF LeaseHolds
    <3>6. LeasePhase(g)' = "ready" BY <3>3 DEF LeasePhase
    <3> QED BY <2>2, <2>5, <3>5, <3>6 DEF OwnerStep, Owner!Next, Owner!Prepared
  <2> QED BY <2>3, <2>4, <2>5
<1> QED BY <1>1, <1>2

\* Stop of this lease.
LEMMA OwnerStops ==
    ASSUME LeaseInv, NEW g \in Attempts, Stop(g) \/ StopStep(g) PROVE OwnerStep(g)
<1>1. TypeOK /\ LeaseBooks(g) BY DEF LeaseInv
<1>2. CASE Stop(g)
  <2>1. LeasePhase(g) \in {"ready", "failed"} BY <1>2 DEF Stop, LeasePhase
  <2>2. stopPc'[g] = "begin" /\ owned'[g] = "returned" BY <1>1, <1>2 DEF Stop, StopTo, TypeOK
  <2>3. LeasePhase(g)' = "stopping" BY <2>2 DEF LeasePhase
  <2>4. UNCHANGED LeaseHolds(g) BY <1>2, HoldsUnchanged DEF Stop
  <2> QED BY <2>1, <2>3, <2>4 DEF OwnerStep, Owner!Next, Owner!Stop
<1>3. CASE StopBegin(g) \/ StopWait(g) \/ StopUndo(g)
  <2>1. /\ stopPc[g] # "idle" /\ UNCHANGED owned
        /\ UNCHANGED stopPc \/ \E place \in {"wait", "undo", "failed"} : stopPc' = [stopPc EXCEPT ![g] = place]
    BY <1>3 DEF StopBegin, StopWait, StopUndo, StopTo
  <2>2. stopPc'[g] # "idle" BY <1>1, <2>1 DEF TypeOK
  <2>3. Live(g) BY <2>1, StoppingIsLive
  <2>4. LeasePhase(g) \in {"acquiring", "stopping"} /\ UNCHANGED LeasePhase(g)
    BY <2>1, <2>2, <2>3 DEF LeasePhase, Live
  <2> QED BY <2>4, OwnerWorks
<1>4. CASE StopFailed(g)
  <2>1. /\ stopPc[g] = "failed" /\ stopPc'[g] = "idle" /\ owned'[g] = "returned" /\ ready'[g] = FALSE
        /\ UNCHANGED held
    BY <1>1, <1>4 DEF StopFailed, StopTo, TypeOK
  <2>2. Live(g) BY <2>1, StoppingIsLive
  <2>3. LeasePhase(g) \in {"acquiring", "stopping"} BY <2>1, <2>2 DEF LeasePhase, Live
  <2>4. LeasePhase(g)' = "failed" BY <2>1 DEF LeasePhase
  <2>5. LeaseHolds(g)' \in {"nothing", "part", "all"} BY DEF LeaseHolds
  <2> QED BY <2>3, <2>4, <2>5 DEF OwnerStep, Owner!Next, Owner!Failed, Owner!StopFails, Owner!Held
<1>5. CASE Rollback(g) \/ Stopped(g)
  <2>1. /\ stopPc[g] = "undo" /\ undo[g] = <<>> /\ owned[g] \in {"starting", "returned"}
        /\ owned'[g] = "gone" /\ UNCHANGED held
    BY <1>1, <1>5 DEF Rollback, Stopped, TypeOK
  <2>2. LeasePhase(g) \in {"acquiring", "stopping"} /\ LeasePhase(g)' = "released"
    BY <2>1 DEF LeasePhase
  <2>3. LeaseHolds(g) = "nothing"
    <3>1. \A k \in Kinds : <<g, k>> \notin held BY <1>1, <2>1, UndoSets DEF LeaseBooks
    <3> QED BY <3>1, HoldsExtremes
  <2>4. UNCHANGED LeaseHolds(g) BY <2>1, HoldsUnchanged
  <2> QED BY <2>2, <2>3, <2>4 DEF OwnerStep, Owner!Next, Owner!NoOwner, Owner!Released
<1> QED BY <1>2, <1>3, <1>4, <1>5 DEF StopStep

\* Stop of a lease leaves the others alone.
LEMMA OwnerOfAnother ==
    ASSUME LeaseInv, NEW h \in Attempts, Stop(h) \/ StopStep(h), NEW g \in Attempts, g # h
    PROVE  OwnerStep(g)
<1>1. \A k \in Kinds : <<g, k>> \in held' <=> <<g, k>> \in held
  BY DEF Stop, StopStep, StopBegin, StopWait, StopUndo, StopFailed, Rollback, Stopped, UndoLast
<1>2. UNCHANGED stopPc \/ \E place : stopPc' = [stopPc EXCEPT ![h] = place]
  BY DEF Stop, StopStep, StopBegin, StopWait, StopUndo, StopFailed, Rollback, Stopped, StopTo
<1>3. /\ UNCHANGED owned \/ \E o : owned' = [owned EXCEPT ![h] = o]
      /\ UNCHANGED ready \/ \E r : ready' = [ready EXCEPT ![h] = r]
  BY DEF Stop, StopStep, StopBegin, StopWait, StopUndo, StopFailed, Rollback, Stopped
<1>4. owned'[g] = owned[g] /\ ready'[g] = ready[g] /\ stopPc'[g] = stopPc[g]
  BY <1>2, <1>3 DEF LeaseInv, TypeOK
<1> QED BY <1>1, <1>4, OwnerLeftAlone

\* Every step of the runtime is, for every lease, a step of RuntimeOwner or none.
LEMMA OwnersStep == LeaseInv /\ [Next]_vars => [\A g \in Attempts : OwnerStep(g)]_vars
<1> SUFFICES ASSUME LeaseInv, Next, NEW g \in Attempts PROVE OwnerStep(g) OBVIOUS
<1>1. CASE UNCHANGED <<owned, ready, stopPc, held>> BY <1>1, OwnerLeftAlone
<1>2. CASE StartBegin \/ StartStep BY <1>2, OwnerStarts
<1>3. ASSUME NEW h \in Attempts, Stop(h) \/ StopStep(h) PROVE OwnerStep(g)
  BY <1>3, OwnerStops, OwnerOfAnother
<1>4. CASE NetworkStep
  <2>1. UNCHANGED <<owned, ready, stopPc, held>>
    BY <1>4 DEF NetworkStep, PrepareNetwork, PrepareReturns, StopNetwork, NetworkStopped, NetworkFrame
  <2> QED BY <1>1, <2>1
<1>5. ASSUME NEW h \in Attempts, MonitorCheck(h) \/ MonitorSleep(h) \/ Cancel(h) PROVE OwnerStep(g)
  <2>1. UNCHANGED <<owned, ready, stopPc, held>> BY <1>5 DEF MonitorCheck, MonitorSleep, Cancel, MonitorFrame
  <2> QED BY <1>1, <2>1
<1> QED BY <1>2, <1>3, <1>4, <1>5 DEF Next

\* Every lease keeps the promise of RuntimeOwner: a Start that returns no lease leaves
\* nothing behind, a lease returned without an error holds everything until it is
\* stopped, a Stop that succeeds leaves nothing, and one that fails can be repeated.
THEOREM LeaseImplementsOwner == Spec => LeaseKeepsPromise
<1>1. Init => \A g \in Attempts : Owner(g)!Init BY OwnerInit
<1>2. LeaseInv /\ [Next]_vars
         => [\A g \in Attempts : Owner(g)!Next \/ UNCHANGED <<LeasePhase(g), LeaseHolds(g)>>]_vars
  BY OwnersStep DEF OwnerStep
<1> QED BY <1>1, <1>2, LeaseAlways, PTL DEF Spec, LeaseKeepsPromise
=============================================================================
