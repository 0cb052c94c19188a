------------------------- MODULE NativeMobileProofs -------------------------
(***************************************************************************)
(* Proofs about NativeMobile, for any number of networks, failures, shells *)
(* and descriptor numbers: whatever exists natively is in the books of an  *)
(* owner, the tunnel is given back last, and every owner implements        *)
(* RuntimeOwner, also when its Connect comes late.                         *)
(***************************************************************************)
EXTENDS NativeMobile, SequenceTheorems, TLAPS

-----------------------------------------------------------------------------
(* The invariant *)

Has(g, k) == <<g, k>> \in held
Working == {"engine", "close", "fail", "panic"} \* Connect has the lock

\* Where PrepareNetwork is, and what the owner has on its undo list by then.
PreparePlaces(g) ==
    /\ preparePc[g] = "none" <=> g > generation
    /\ g < generation => g \in gone
    /\ g \in gone => preparePc[g] = "returned" /\ stopPc[g] = "idle" /\ undo[g] = <<>>
    /\ preparePc[g] \in {"none", "acquire"} => undo[g] = <<>>
    /\ preparePc[g] = "resolver" => undo[g] = <<"tunnel">>
    /\ preparePc[g] = "await" => undo[g] = <<"tunnel", "core">> /\ connectPc[g] # "none"
    /\ preparePc[g] \in {"none", "acquire", "resolver"} => connectPc[g] = "none"
    /\ preparePc[g] # "returned" => stopPc[g] = "idle" /\ g \notin prepared \cup released
    /\ preparePc[g] \in {"resolver", "await"} => Has(g, "tunnel")

\* A Connect that works has its core on the list; one that was left before it took
\* the lock was told so.
ConnectPlaces(g) ==
    /\ connectPc[g] \in Working => undo[g] = <<"tunnel", "core">> /\ state[g] = "PREPARING"
    /\ connectPc[g] \in {"none", "lock"} => state[g] = "IDLE"
    /\ connectPc[g] = "lock" /\ preparePc[g] = "returned" => g \in connectCanceled
    /\ connectPc[g] = "close" => g \in engine
    /\ g \in connectOk => connectPc[g] = "ended"
    /\ g \in connectOk /\ preparePc[g] = "await" => Has(g, "engine") /\ ~Has(g, "file")
    /\ g \in prepared => connectPc[g] = "ended"
    /\ g \in prepared \ gone /\ stopPc[g] = "idle" => Has(g, "tunnel") /\ Has(g, "engine") /\ ~Has(g, "file")

\* What exists, against the books.
NativeBooks(g) ==
    /\ Has(g, "engine") <=> g \in engine
    /\ g \in engine => undo[g] = <<"tunnel", "core">> /\ state[g] # "IDLE"
    /\ Has(g, "tunnel") \/ Has(g, "file") => undo[g] # <<>>
    /\ stopPc[g] = "release" => undo[g] = <<"tunnel">> /\ ~Has(g, "file") /\ g \notin released
    /\ g \in released => ~Has(g, "tunnel") /\ ~Has(g, "file")

\* A number is reserved for the owner that has the descriptor.
Reservations ==
    \A number \in Descriptors, g \in Networks : <<number, g>> \in tunnels => undo[g] # <<>> /\ number = fd[g]
        /\ g \notin released

\* The inductive invariant.
OwnerInv ==
    /\ TypeOK /\ Reservations
    /\ \A g \in Networks : PreparePlaces(g) /\ ConnectPlaces(g) /\ NativeBooks(g)

USE DEF leaseVars, runtimeVars, ownerVars

-----------------------------------------------------------------------------
(* Undo lists *)

\* The lists that an owner can have, as Push and Done build them.
LEMMA UndoLists ==
    /\ <<"tunnel">> # <<>> /\ <<"tunnel", "core">> # <<>> /\ <<"tunnel">> # <<"tunnel", "core">>
    /\ Last(<<"tunnel">>) = "tunnel" /\ Last(<<"tunnel", "core">>) = "core"
    /\ Front(<<"tunnel">>) = <<>> /\ Front(<<"tunnel", "core">>) = <<"tunnel">>
    /\ Append(<<>>, "tunnel") = <<"tunnel">> /\ Append(<<"tunnel">>, "core") = <<"tunnel", "core">>
<1>1. Len(<<"tunnel">>) = 1 /\ Len(<<"tunnel", "core">>) = 2 /\ Len(<<>>) = 0 OBVIOUS
<1>2. <<"tunnel">> # <<>> /\ <<"tunnel", "core">> # <<>> /\ <<"tunnel">> # <<"tunnel", "core">> BY <1>1
<1>3. Last(<<"tunnel">>) = "tunnel" /\ Last(<<"tunnel", "core">>) = "core" BY <1>1 DEF Last
<1>4. Front(<<"tunnel">>) = <<>> BY <1>1 DEF Front
<1>5. Front(<<"tunnel", "core">>) = <<"tunnel">>
  <2> DEFINE s == SubSeq(<<"tunnel", "core">>, 1, 1)
  <2>1. s \in Seq({"tunnel", "core"}) /\ Len(s) = 1 /\ s[1] = "tunnel" BY <1>1
  <2>2. <<"tunnel">> \in Seq({"tunnel", "core"}) /\ \A i \in 1..1 : s[i] = <<"tunnel">>[i] BY <2>1
  <2> HIDE DEF s
  <2>3. s = <<"tunnel">> BY <1>1, <2>1, <2>2, SeqEqual
  <2> QED BY <1>1, <2>3 DEF Front, s
<1>6. Append(<<>>, "tunnel") = <<"tunnel">> OBVIOUS
<1>7. Append(<<"tunnel">>, "core") = <<"tunnel", "core">>
  <2> DEFINE s == Append(<<"tunnel">>, "core")
  <2>1. s \in Seq({"tunnel", "core"}) /\ Len(s) = 2 /\ s[1] = "tunnel" /\ s[2] = "core" BY <1>1
  <2>2. <<"tunnel", "core">> \in Seq({"tunnel", "core"}) /\ \A i \in 1..2 : s[i] = <<"tunnel", "core">>[i]
    BY <2>1
  <2> HIDE DEF s
  <2>3. s = <<"tunnel", "core">> BY <1>1, <2>1, <2>2, SeqEqual
  <2> QED BY <2>3 DEF s
<1> QED BY <1>2, <1>3, <1>4, <1>5, <1>6, <1>7

\* What is on them.
LEMMA UndoSets ==
    ToSet(<<"tunnel">>) = {"tunnel"} /\ ToSet(<<"tunnel", "core">>) = {"tunnel", "core"}
<1>1. ToSet(<<"tunnel">>) = {"tunnel"} BY DEF ToSet
<1>2. DOMAIN <<"tunnel", "core">> = {1, 2} OBVIOUS
<1> QED BY <1>1, <1>2 DEF ToSet

-----------------------------------------------------------------------------
(* Steps *)

\* A step that leaves a network alone.
SameFor(h) ==
    /\ preparePc'[h] = preparePc[h] /\ undo'[h] = undo[h] /\ stopPc'[h] = stopPc[h]
    /\ state'[h] = state[h] /\ connectPc'[h] = connectPc[h]
    /\ h \in gone' <=> h \in gone
    /\ h \in prepared' <=> h \in prepared
    /\ h \in released' <=> h \in released
    /\ h \in engine' <=> h \in engine
    /\ h \in connectOk' <=> h \in connectOk
    /\ h \in connectCanceled' <=> h \in connectCanceled
    /\ \A k \in Kinds : <<h, k>> \in held' <=> <<h, k>> \in held

\* The books of a network that is left alone.
LEMMA SameBooks ==
    ASSUME OwnerInv, NEW h \in Networks, SameFor(h), UNCHANGED generation
    PROVE  PreparePlaces(h)' /\ ConnectPlaces(h)' /\ NativeBooks(h)'
<1>1. PreparePlaces(h) /\ ConnectPlaces(h) /\ NativeBooks(h) BY DEF OwnerInv
<1>2. {"tunnel", "file", "engine"} \subseteq Kinds BY DEF Kinds
<1>3. PreparePlaces(h)' BY <1>1, <1>2 DEF PreparePlaces, SameFor, Has
<1>4. ConnectPlaces(h)' BY <1>1, <1>2 DEF ConnectPlaces, SameFor, Has
<1>5. NativeBooks(h)' BY <1>1, <1>2 DEF NativeBooks, SameFor, Has
<1> QED BY <1>3, <1>4, <1>5

\* A step of one network.
LEMMA OneNetwork ==
    ASSUME OwnerInv, NEW g \in Networks, TypeOK', Reservations', UNCHANGED generation,
           \A h \in Networks : h # g => SameFor(h),
           PreparePlaces(g)', ConnectPlaces(g)', NativeBooks(g)'
    PROVE  OwnerInv'
  BY SameBooks DEF OwnerInv

\* Reservations only change with the tunnels, and go before the list is empty.
LEMMA SameReservations ==
    ASSUME OwnerInv, UNCHANGED <<tunnels, fd, released>>,
           \A h \in Networks : undo[h] # <<>> => undo'[h] # <<>>
    PROVE  Reservations'
  BY DEF OwnerInv, Reservations

\* Networks are the numbers from 1 on; the types of a network's state.
LEMMA NetworkFacts ==
    ASSUME OwnerInv, NEW g \in Networks
    PROVE  /\ g \in Nat /\ g # 0 /\ generation \in Nat
           /\ TypeOK /\ Reservations /\ PreparePlaces(g) /\ ConnectPlaces(g) /\ NativeBooks(g)
           /\ "tunnel" \in Kinds /\ "file" \in Kinds /\ "engine" \in Kinds
<1>1. g \in Nat /\ g # 0 BY MobileAssumption DEF Networks
<1>2. generation \in Nat BY MobileAssumption DEF OwnerInv, TypeOK
<1> QED BY <1>1, <1>2 DEF OwnerInv, Kinds

\* The runtime begins with nothing.
LEMMA OwnerBegins == Init => OwnerInv
<1> SUFFICES ASSUME Init PROVE OwnerInv OBVIOUS
<1> USE DEF Init
<1>1. TypeOK
  <2>1. 0 \in 0..MaxNetworks /\ 0 \in 0..MaxFailures BY MobileAssumption
  <2> QED BY <2>1 DEF TypeOK
<1>2. Reservations BY DEF Reservations
<1>3. ASSUME NEW g \in Networks PROVE PreparePlaces(g) /\ ConnectPlaces(g) /\ NativeBooks(g)
  <2>1. g \in Nat /\ g > 0 BY MobileAssumption DEF Networks
  <2>2. PreparePlaces(g) BY <2>1 DEF PreparePlaces
  <2>3. ConnectPlaces(g) BY DEF ConnectPlaces, Working
  <2>4. NativeBooks(g) BY DEF NativeBooks, Has
  <2> QED BY <2>2, <2>3, <2>4
<1> QED BY <1>1, <1>2, <1>3 DEF OwnerInv

\* The next network is prepared when the one before it is gone.
LEMMA PrepareNetworkInv == ASSUME OwnerInv, PrepareNetwork PROVE OwnerInv'
<1>1. TypeOK /\ Reservations BY DEF OwnerInv
<1>2. generation \in Nat /\ generation + 1 \in 0..MaxNetworks
  BY <1>1, MobileAssumption DEF TypeOK, PrepareNetwork
<1>3. PICK g \in Networks : g = generation + 1 BY <1>2, MobileAssumption DEF Networks, PrepareNetwork
<1>4. /\ generation' = g /\ preparePc' = [preparePc EXCEPT ![g] = "acquire"]
      /\ generation > 0 => generation \in gone
      /\ UNCHANGED <<shell, tunnels, prepared, canceled, undo, stopPc, gone, leaseVars, abandoned, runtimeVars, held, failures>>
  BY <1>3 DEF PrepareNetwork
<1>5. preparePc'[g] = "acquire" /\ \A h \in Networks : h # g => preparePc'[h] = preparePc[h]
  BY <1>1, <1>4 DEF TypeOK
<1>6. TypeOK' BY <1>1, <1>2, <1>3, <1>4 DEF TypeOK
<1>7. Reservations' BY <1>4, SameReservations
<1>8. ASSUME NEW h \in Networks PROVE PreparePlaces(h)' /\ ConnectPlaces(h)' /\ NativeBooks(h)'
  <2>1. h \in Nat /\ h # 0 /\ PreparePlaces(h) /\ ConnectPlaces(h) /\ NativeBooks(h) BY NetworkFacts
  <2>2. NativeBooks(h)' BY <1>4, <2>1 DEF NativeBooks, Has
  <2>3. CASE h = g
    <3>1. preparePc[g] = "none"
      <4>1. g > generation BY <1>2, <1>3
      <4> QED BY <2>1, <2>3, <4>1 DEF PreparePlaces
    <3>2. ~(g > g) /\ ~(g < g) BY <1>2, <1>3
    <3>3. PreparePlaces(g)' BY <1>4, <1>5, <2>1, <2>3, <3>1, <3>2 DEF PreparePlaces, Has
    <3>4. ConnectPlaces(g)' BY <1>4, <1>5, <2>1, <2>3, <3>1 DEF ConnectPlaces, PreparePlaces, Has
    <3> QED BY <2>2, <2>3, <3>3, <3>4
  <2>4. CASE h # g
    <3>1. (h > g <=> h > generation) /\ (h < g => h < generation \/ h = generation)
      BY <1>2, <1>3, <2>1, <2>4
    <3>2. h = generation => h \in gone BY <1>2, <1>4, <2>1
    <3>3. h < g => h \in gone BY <2>1, <3>1, <3>2 DEF PreparePlaces
    <3>4. PreparePlaces(h)' BY <1>4, <1>5, <2>1, <2>4, <3>1, <3>3 DEF PreparePlaces, Has
    <3>5. ConnectPlaces(h)' BY <1>4, <1>5, <2>1, <2>4 DEF ConnectPlaces, Has
    <3> QED BY <2>2, <3>4, <3>5
  <2> QED BY <2>3, <2>4
<1> QED BY <1>6, <1>7, <1>8 DEF OwnerInv

\* PrepareNetwork gets no tunnel, one that is pending, or a descriptor: of a number that
\* nobody else has reserved.
LEMMA AcquireInv ==
    ASSUME OwnerInv, NEW g \in Networks, AcquireNothing(g) \/ AcquirePending(g) \/ AcquireTunnel(g)
    PROVE  OwnerInv'
<1>1. /\ preparePc[g] = "acquire"
      /\ UNCHANGED <<shell, generation, abandoned, prepared, canceled, stopPc, gone, closed, closeErr, released,
                     runtimeVars, failures>>
  BY DEF AcquireNothing, AcquirePending, AcquireTunnel, AcquireFrame
<1>2. TypeOK /\ PreparePlaces(g) /\ ConnectPlaces(g) /\ NativeBooks(g) BY NetworkFacts
<1>3. /\ undo[g] = <<>> /\ g \notin gone \cup prepared \cup released /\ stopPc[g] = "idle"
      /\ connectPc[g] = "none" /\ ~(g > generation)
      /\ g \notin engine /\ g \notin connectOk /\ ~Has(g, "tunnel") /\ ~Has(g, "file") /\ ~Has(g, "engine")
      /\ state[g] = "IDLE"
  BY <1>1, <1>2, UndoLists DEF PreparePlaces, ConnectPlaces, NativeBooks
<1>4. tunnels = {}
  <2>1. ASSUME NEW e \in tunnels PROVE FALSE
    <3>1. PICK number \in Descriptors, h \in Networks : e = <<number, h>> BY <1>2, <2>1 DEF TypeOK
    <3>2. undo[h] # <<>> BY <2>1, <3>1 DEF OwnerInv, Reservations
    <3>3. h # g BY <1>3, <3>2
    <3>4. h \in Nat /\ g \in Nat /\ generation \in Nat /\ PreparePlaces(h) BY NetworkFacts
    <3>5. ~(h < generation) /\ h # 0 BY <3>2, <3>4, NetworkFacts DEF PreparePlaces
    <3>6. ~(h > generation) BY <3>2, <3>4 DEF PreparePlaces
    <3>7. ~(g < generation) BY <1>2, <1>3 DEF PreparePlaces
    <3> QED BY <1>3, <3>3, <3>4, <3>5, <3>6, <3>7
  <2> QED BY <2>1
\* What the three have in common.
<1>5. ASSUME NEW u \in {<<>>, <<"tunnel">>}, NEW pc \in {"resolver", "returned"}, NEW more \in SUBSET {"tunnel", "file"},
             NEW f \in [Networks -> Descriptors \cup {NoShell}],
             undo' = [undo EXCEPT ![g] = u], preparePc' = [preparePc EXCEPT ![g] = pc],
             held' = held \cup {<<g, k>> : k \in more}, fd' = f,
             leaseShell' \in [Networks -> Shells \cup {NoShell}],
             tunnels' = {} \/ (u = <<"tunnel">> /\ f[g] \in Descriptors /\ tunnels' = {<<f[g], g>>}),
             u = <<>> => more = {}, pc = "resolver" => u = <<"tunnel">> /\ "tunnel" \in more
      PROVE  OwnerInv'
  <2>1. undo'[g] = u /\ preparePc'[g] = pc
        /\ \A h \in Networks : h # g => undo'[h] = undo[h] /\ preparePc'[h] = preparePc[h]
    BY <1>2, <1>5 DEF TypeOK
  <2>2. /\ Has(g, "tunnel")' <=> "tunnel" \in more
        /\ Has(g, "file")' <=> "file" \in more
        /\ ~Has(g, "engine")'
        /\ \A h \in Networks : h # g => \A k \in Kinds : <<h, k>> \in held' <=> <<h, k>> \in held
    BY <1>3, <1>5 DEF Has
  <2>3. \A h \in Networks : h # g => SameFor(h) BY <1>1, <2>1, <2>2 DEF SameFor
  <2>4. TypeOK'
    <3>1. undo' \in [Networks -> {<<>>, <<"tunnel">>, <<"tunnel", "core">>}] BY <1>2, <1>5 DEF TypeOK
    <3>2. held' \subseteq Networks \X Kinds BY <1>2, <1>5 DEF TypeOK, Kinds
    <3>3. tunnels' \subseteq Descriptors \X Networks BY <1>5
    <3> QED BY <1>1, <1>2, <1>5, <3>1, <3>2, <3>3 DEF TypeOK
  <2>5. Reservations' BY <1>1, <1>3, <1>5, <2>1, UndoLists DEF Reservations
  <2>6. PreparePlaces(g)' BY <1>1, <1>2, <1>3, <1>5, <2>1, <2>2 DEF PreparePlaces
  <2>7. ConnectPlaces(g)' BY <1>1, <1>3, <2>1 DEF ConnectPlaces, Working
  <2>8. NativeBooks(g)' BY <1>1, <1>3, <1>5, <2>1, <2>2, UndoLists DEF NativeBooks
  <2> QED BY <1>1, <2>3, <2>4, <2>5, <2>6, <2>7, <2>8, OneNetwork
<1>6. undo = [undo EXCEPT ![g] = <<>>] BY <1>2, <1>3 DEF TypeOK
<1>7. fd \in [Networks -> Descriptors \cup {NoShell}] /\ leaseShell \in [Networks -> Shells \cup {NoShell}]
      /\ shell \in Shells \cup {NoShell}
  BY <1>2 DEF TypeOK
<1>8. CASE AcquireNothing(g)
  <2>1. /\ preparePc' = [preparePc EXCEPT ![g] = "returned"] /\ UNCHANGED <<tunnels, undo, leaseShell, fd, held>>
    BY <1>8 DEF AcquireNothing, Return
  <2>2. held' = held \cup {<<g, k>> : k \in {}} BY <2>1
  <2> QED BY <1>4, <1>5, <1>6, <1>7, <2>1, <2>2
<1>9. CASE AcquirePending(g)
  <2>1. /\ preparePc' = [preparePc EXCEPT ![g] = "returned"] /\ UNCHANGED <<tunnels, fd>>
        /\ undo' = [undo EXCEPT ![g] = <<"tunnel">>]
        /\ leaseShell' = [leaseShell EXCEPT ![g] = shell]
        /\ held' \in {held, held \cup {<<g, "tunnel">>}}
    BY <1>3, <1>9, UndoLists DEF AcquirePending, Return, LeaseWithError, Push
  <2>2. \E more \in {{}, {"tunnel"}} : held' = held \cup {<<g, k>> : k \in more} BY <2>1
  <2>3. leaseShell' \in [Networks -> Shells \cup {NoShell}] BY <1>7, <2>1
  <2> QED BY <1>4, <1>5, <1>7, <2>1, <2>2, <2>3
<1>10. CASE AcquireTunnel(g)
  <2>1. PICK number \in Descriptors \ OpenNumbers :
         /\ fd' = [fd EXCEPT ![g] = number]
         /\ IF Reserved(number)
            THEN Return(g) /\ UNCHANGED <<tunnels, undo, leaseShell>>
            ELSE /\ tunnels' = tunnels \cup {<<number, g>>}
                 /\ Push(g, "tunnel") /\ leaseShell' = [leaseShell EXCEPT ![g] = shell]
                 /\ preparePc' = [preparePc EXCEPT ![g] = "resolver"]
    BY <1>10 DEF AcquireTunnel
  <2>2. ~Reserved(number) BY <1>4 DEF Reserved
  <2>3. /\ tunnels' = {<<number, g>>} /\ undo' = [undo EXCEPT ![g] = <<"tunnel">>]
        /\ leaseShell' = [leaseShell EXCEPT ![g] = shell] /\ preparePc' = [preparePc EXCEPT ![g] = "resolver"]
    BY <1>3, <1>4, <2>1, <2>2, UndoLists DEF Push
  <2>4. fd' \in [Networks -> Descriptors \cup {NoShell}] /\ fd'[g] = number BY <1>7, <2>1
  <2>5. leaseShell' \in [Networks -> Shells \cup {NoShell}] BY <1>7, <2>3
  <2>6. held' = held \cup {<<g, k>> : k \in {"tunnel", "file"}} BY <1>10 DEF AcquireTunnel
  <2> QED BY <1>5, <2>3, <2>4, <2>5, <2>6
<1> QED BY <1>8, <1>9, <1>10

\* The resolver: an error, or the core with its cleanup entry and its Connect.
LEMMA ConfigureResolverInv ==
    ASSUME OwnerInv, NEW g \in Networks, ConfigureResolver(g) PROVE OwnerInv'
<1>1. /\ preparePc[g] = "resolver"
      /\ UNCHANGED <<shell, tunnels, generation, abandoned, prepared, canceled, stopPc, gone, leaseVars, state,
                     engine, tunOwned, connectCanceled, connectOk, held, failures>>
  BY DEF ConfigureResolver
<1>2. TypeOK /\ PreparePlaces(g) /\ ConnectPlaces(g) /\ NativeBooks(g) BY NetworkFacts
<1>3. undo[g] = <<"tunnel">> /\ connectPc[g] = "none" /\ g \notin engine /\ stopPc[g] = "idle" /\ g \notin connectOk
  BY <1>1, <1>2, UndoLists DEF PreparePlaces, ConnectPlaces, NativeBooks
<1>4. \/ /\ preparePc' = [preparePc EXCEPT ![g] = "returned"] /\ UNCHANGED <<undo, connectPc>>
      \/ /\ undo' = [undo EXCEPT ![g] = <<"tunnel", "core">>]
         /\ preparePc' = [preparePc EXCEPT ![g] = "await"]
         /\ connectPc' = [connectPc EXCEPT ![g] = "lock"]
  BY <1>3, UndoLists DEF ConfigureResolver, Return, Push
<1>5. /\ \/ preparePc'[g] = "returned" /\ undo'[g] = <<"tunnel">> /\ connectPc'[g] = "none"
         \/ preparePc'[g] = "await" /\ undo'[g] = <<"tunnel", "core">> /\ connectPc'[g] = "lock"
      /\ \A h \in Networks : h # g =>
            preparePc'[h] = preparePc[h] /\ undo'[h] = undo[h] /\ connectPc'[h] = connectPc[h]
  BY <1>2, <1>3, <1>4 DEF TypeOK
<1>6. TypeOK' BY <1>1, <1>2, <1>4 DEF TypeOK
<1>7. Reservations' BY <1>1, <1>3, <1>5, UndoLists, SameReservations
<1>8. \A h \in Networks : h # g => SameFor(h) BY <1>1, <1>5 DEF SameFor
<1>9. PreparePlaces(g)' BY <1>1, <1>2, <1>5 DEF PreparePlaces, Has
<1>10. ConnectPlaces(g)' BY <1>1, <1>2, <1>3, <1>5 DEF ConnectPlaces, PreparePlaces, Working
<1>11. NativeBooks(g)' BY <1>1, <1>2, <1>3, <1>5, UndoLists DEF NativeBooks, Has
<1> QED BY <1>1, <1>6, <1>7, <1>8, <1>9, <1>10, <1>11, OneNetwork

\* PrepareNetwork returns: with the result of Connect, or after it told Connect to stop.
LEMMA ConnectContextInv ==
    ASSUME OwnerInv, NEW g \in Networks, ConnectContext(g) PROVE OwnerInv'
<1>1. /\ preparePc[g] = "await" /\ preparePc' = [preparePc EXCEPT ![g] = "returned"]
      /\ UNCHANGED <<shell, tunnels, generation, abandoned, canceled, undo, stopPc, gone, leaseVars, state, engine,
                     tunOwned, connectPc, connectOk, held, failures>>
      /\ \/ connectPc[g] = "ended" /\ UNCHANGED <<connectCanceled, prepared>>
         \/ /\ connectPc[g] = "ended" /\ g \in connectOk
            /\ prepared' = prepared \cup {g} /\ UNCHANGED connectCanceled
         \/ connectCanceled' = connectCanceled \cup {g} /\ UNCHANGED prepared
  BY DEF ConnectContext, Return, LeaveConnect, CancelConnect
<1>2. TypeOK /\ PreparePlaces(g) /\ ConnectPlaces(g) /\ NativeBooks(g) BY NetworkFacts
<1>3. preparePc'[g] = "returned" /\ \A h \in Networks : h # g => preparePc'[h] = preparePc[h]
  BY <1>1, <1>2 DEF TypeOK
<1>4. TypeOK'
  <2>1. prepared' \subseteq Networks /\ connectCanceled' \subseteq Networks BY <1>1, <1>2 DEF TypeOK
  <2> QED BY <1>1, <1>2, <2>1 DEF TypeOK
<1>5. Reservations' BY <1>1, SameReservations
<1>6. \A h \in Networks : h # g => SameFor(h)
  <2>1. \A h \in Networks : h # g => (h \in prepared' <=> h \in prepared)
                                    /\ (h \in connectCanceled' <=> h \in connectCanceled)
    BY <1>1
  <2> QED BY <1>1, <1>3, <2>1 DEF SameFor
<1>7. PreparePlaces(g)' BY <1>1, <1>2, <1>3 DEF PreparePlaces, Has
<1>8. ConnectPlaces(g)' BY <1>1, <1>2, <1>3 DEF ConnectPlaces, PreparePlaces, Has
<1>9. NativeBooks(g)' BY <1>1, <1>2 DEF NativeBooks, Has
<1> QED BY <1>1, <1>4, <1>5, <1>6, <1>7, <1>8, <1>9, OneNetwork

-----------------------------------------------------------------------------
(* Connect *)

\* A step of Connect, or of the cleanup, only changes the runtime of its network.
LEMMA ConnectOnly ==
    ASSUME OwnerInv, NEW g \in Networks, TypeOK',
           UNCHANGED <<tunnels, generation, preparePc, gone, fd, released, connectCanceled>>,
           \A h \in Networks : h # g =>
               /\ undo'[h] = undo[h] /\ stopPc'[h] = stopPc[h] /\ (h \in prepared' <=> h \in prepared)
               /\ state'[h] = state[h] /\ connectPc'[h] = connectPc[h]
               /\ (h \in engine' <=> h \in engine) /\ (h \in connectOk' <=> h \in connectOk)
               /\ \A k \in Kinds : <<h, k>> \in held' <=> <<h, k>> \in held,
           undo[g] # <<>> => undo'[g] # <<>>,
           PreparePlaces(g)', ConnectPlaces(g)', NativeBooks(g)'
    PROVE  OwnerInv'
<1>1. Reservations' BY SameReservations
<1>2. \A h \in Networks : h # g => SameFor(h) BY DEF SameFor
<1> QED BY <1>1, <1>2, OneNetwork

\* Connect takes the lock: one that was told to stop touches nothing.
LEMMA ConnectLockInv == ASSUME OwnerInv, NEW g \in Networks, ConnectLock(g) PROVE OwnerInv'
<1>1. /\ connectPc[g] = "lock" /\ state[g] = "IDLE"
      /\ \/ /\ state' = [state EXCEPT ![g] = "FAILED"] /\ connectPc' = [connectPc EXCEPT ![g] = "ended"]
            /\ UNCHANGED tunOwned
         \/ /\ state' = [state EXCEPT ![g] = "PREPARING"] /\ connectPc' = [connectPc EXCEPT ![g] = "engine"]
            /\ tunOwned' = tunOwned \cup {g} /\ g \notin connectCanceled
      /\ UNCHANGED <<engine, connectOk, closed, closeErr, held, failures>>
      /\ UNCHANGED <<shell, tunnels, generation, abandoned, ownerVars, leaseShell, fd, released, connectCanceled>>
  BY DEF ConnectLock, ConnectWasCanceled, StateTo, ConnectTo, ConnectFrame
<1>2. TypeOK /\ PreparePlaces(g) /\ ConnectPlaces(g) /\ NativeBooks(g) BY NetworkFacts
<1>3. g \notin engine /\ g \notin connectOk /\ g \notin prepared BY <1>1, <1>2 DEF ConnectPlaces, NativeBooks
<1>4. /\ \/ state'[g] = "FAILED" /\ connectPc'[g] = "ended"
         \/ state'[g] = "PREPARING" /\ connectPc'[g] = "engine" /\ g \notin connectCanceled
      /\ \A h \in Networks : h # g => state'[h] = state[h] /\ connectPc'[h] = connectPc[h]
  BY <1>1, <1>2 DEF TypeOK
<1>5. g \notin connectCanceled => preparePc[g] = "await"
  BY <1>1, <1>2 DEF ConnectPlaces, PreparePlaces, TypeOK
<1>6. TypeOK'
  <2>1. tunOwned' \subseteq Networks BY <1>1, <1>2 DEF TypeOK
  <2> QED BY <1>1, <1>2, <2>1 DEF TypeOK
<1>7. PreparePlaces(g)' BY <1>1, <1>2, <1>4 DEF PreparePlaces, Has
<1>8. ConnectPlaces(g)'
  <2>1. connectPc'[g] = "engine" => undo[g] = <<"tunnel", "core">> BY <1>2, <1>4, <1>5 DEF PreparePlaces
  <2> QED BY <1>1, <1>2, <1>3, <1>4, <2>1 DEF ConnectPlaces, Working
<1>9. NativeBooks(g)' BY <1>1, <1>2, <1>3 DEF NativeBooks, Has
<1> QED BY <1>1, <1>4, <1>6, <1>7, <1>8, <1>9, ConnectOnly

\* An engine that exists is in the runtime's books, with an error or without.
LEMMA ConnectEngineInv == ASSUME OwnerInv, NEW g \in Networks, ConnectEngine(g) PROVE OwnerInv'
<1>1. /\ connectPc[g] = "engine"
      /\ UNCHANGED <<state, tunOwned, connectOk, closed, closeErr, failures>>
      /\ UNCHANGED <<shell, tunnels, generation, ownerVars, leaseShell, fd, released, connectCanceled>>
  BY DEF ConnectEngine, ConnectFrame
<1>2. PICK exists, ok \in BOOLEAN :
         /\ ok => exists
         /\ exists => <<g, "file">> \in held /\ ~EngineBusy
         /\ held' = IF exists THEN held \cup {<<g, "engine">>} ELSE held
         /\ engine' = IF Booked(g, exists, ok) THEN engine \cup {g} ELSE engine
         /\ \/ ConnectTo(g, IF ok THEN "close" ELSE "fail") /\ UNCHANGED abandoned
            \/ /\ ~exists /\ ConnectTo(g, "panic")
               /\ abandoned' \in {abandoned, ~EngineBusy \/ abandoned}
  BY DEF ConnectEngine
<1>3. \E place \in {"close", "fail", "panic"} :
         connectPc' = [connectPc EXCEPT ![g] = place] /\ (place = "close" => exists)
  BY <1>2 DEF ConnectTo
<1>4. PICK place \in {"close", "fail", "panic"} :
         connectPc' = [connectPc EXCEPT ![g] = place] /\ (place = "close" => exists)
  BY <1>3
<1>5. TypeOK /\ PreparePlaces(g) /\ ConnectPlaces(g) /\ NativeBooks(g) /\ "engine" \in Kinds BY NetworkFacts
<1>6. /\ undo[g] = <<"tunnel", "core">> /\ state[g] = "PREPARING" /\ g \notin connectOk /\ g \notin prepared
  BY <1>1, <1>5 DEF ConnectPlaces, Working
<1>7. connectPc'[g] = place /\ \A h \in Networks : h # g => connectPc'[h] = connectPc[h]
  BY <1>4, <1>5 DEF TypeOK
<1>8. /\ g \in engine' <=> (exists \/ g \in engine)
      /\ Has(g, "engine")' <=> (exists \/ Has(g, "engine"))
      /\ \A k \in {"tunnel", "file"} : Has(g, k)' <=> Has(g, k)
      /\ \A h \in Networks : h # g => (h \in engine' <=> h \in engine)
                                      /\ \A k \in Kinds : <<h, k>> \in held' <=> <<h, k>> \in held
  BY <1>2 DEF Booked, Has
<1>9. TypeOK'
  <2>1. engine' \subseteq Networks /\ held' \subseteq Networks \X Kinds BY <1>2, <1>5 DEF TypeOK, Booked
  <2>2. abandoned' \in BOOLEAN
    <3>1. CASE abandoned' = abandoned BY <1>5, <3>1 DEF TypeOK
    <3>2. CASE abandoned' = (~EngineBusy \/ abandoned) BY <3>2
    <3> QED BY <1>2, <3>1, <3>2
  <2> QED BY <1>1, <1>4, <1>5, <2>1, <2>2 DEF TypeOK
<1>10. PreparePlaces(g)' BY <1>1, <1>5, <1>7, <1>8 DEF PreparePlaces
<1>11. ConnectPlaces(g)' BY <1>1, <1>4, <1>5, <1>6, <1>7, <1>8 DEF ConnectPlaces, Working
<1>12. NativeBooks(g)' BY <1>1, <1>5, <1>6, <1>8 DEF NativeBooks
<1> QED BY <1>1, <1>7, <1>8, <1>9, <1>10, <1>11, <1>12, ConnectOnly

\* Counted failures stay within their bound.
LEMMA CountedFailures ==
    ASSUME OwnerInv, NEW ok \in CloseOutcomes, NEW error, error => ~ok, Counted(error)
    PROVE  failures' \in 0..MaxFailures
<1>1. failures \in Nat /\ failures \in 0..MaxFailures BY MobileAssumption DEF OwnerInv, TypeOK
<1>2. error => failures < MaxFailures BY DEF CloseOutcomes, MayFail
<1> QED BY <1>1, <1>2, MobileAssumption DEF Counted

\* Go's descriptor is closed once the engine has its own.
LEMMA ConnectCloseInv == ASSUME OwnerInv, NEW g \in Networks, ConnectClose(g) PROVE OwnerInv'
<1>1. connectPc[g] = "close" /\ UNCHANGED engine
      /\ UNCHANGED <<shell, tunnels, generation, abandoned, ownerVars, leaseShell, fd, released, connectCanceled>>
  BY DEF ConnectClose, ConnectFrame
<1>2. TypeOK /\ PreparePlaces(g) /\ ConnectPlaces(g) /\ NativeBooks(g) BY NetworkFacts
<1>3. /\ undo[g] = <<"tunnel", "core">> /\ state[g] = "PREPARING" /\ g \in engine /\ g \notin connectOk
      /\ g \notin prepared
  BY <1>1, <1>2 DEF ConnectPlaces, Working
<1>4. CASE connectPc' = [connectPc EXCEPT ![g] = "fail"] /\ UNCHANGED <<state, tunOwned, connectOk, closed, closeErr, held, failures>>
  <2>1. connectPc'[g] = "fail" /\ \A h \in Networks : h # g => connectPc'[h] = connectPc[h]
    BY <1>2, <1>4 DEF TypeOK
  <2>2. TypeOK' BY <1>1, <1>2, <1>4 DEF TypeOK
  <2>3. PreparePlaces(g)' BY <1>1, <1>2, <1>4, <2>1 DEF PreparePlaces, Has
  <2>4. ConnectPlaces(g)' BY <1>1, <1>2, <1>3, <1>4, <2>1 DEF ConnectPlaces, Working
  <2>5. NativeBooks(g)' BY <1>1, <1>2, <1>4 DEF NativeBooks, Has
  <2> QED BY <1>1, <1>4, <2>1, <2>2, <2>3, <2>4, <2>5, ConnectOnly
<1>5. CASE ~(g \in connectCanceled)
  <2>1. PICK ok \in CloseOutcomes :
           /\ CloseFile(g, ok) /\ Counted(~ok) /\ held' = held \ {<<g, "file">>}
           /\ IF ok THEN /\ tunOwned' = tunOwned \ {g} /\ StateTo(g, "CONNECTED")
                         /\ connectOk' = connectOk \cup {g} /\ ConnectTo(g, "ended")
                    ELSE ConnectTo(g, "fail") /\ UNCHANGED <<state, tunOwned, connectOk>>
    BY <1>5 DEF ConnectClose
  <2>2. \/ /\ state' = [state EXCEPT ![g] = "CONNECTED"] /\ connectOk' = connectOk \cup {g}
           /\ connectPc' = [connectPc EXCEPT ![g] = "ended"] /\ tunOwned' = tunOwned \ {g}
        \/ connectPc' = [connectPc EXCEPT ![g] = "fail"] /\ UNCHANGED <<state, tunOwned, connectOk>>
    BY <2>1 DEF StateTo, ConnectTo
  <2>3. /\ \/ state'[g] = "CONNECTED" /\ connectPc'[g] = "ended" /\ g \in connectOk'
           \/ state'[g] = "PREPARING" /\ connectPc'[g] = "fail" /\ g \notin connectOk'
        /\ \A h \in Networks : h # g =>
              state'[h] = state[h] /\ connectPc'[h] = connectPc[h] /\ (h \in connectOk' <=> h \in connectOk)
    BY <1>2, <1>3, <2>2 DEF TypeOK
  <2>4. /\ ~Has(g, "file")' /\ \A k \in {"tunnel", "engine"} : Has(g, k)' <=> Has(g, k)
        /\ \A h \in Networks : h # g => \A k \in Kinds : <<h, k>> \in held' <=> <<h, k>> \in held
    BY <2>1 DEF Has
  <2>5. TypeOK'
    <3>1. failures' \in 0..MaxFailures BY <2>1, CountedFailures
    <3>2. closed' \subseteq Networks /\ closeErr' \subseteq Networks BY <1>2, <2>1 DEF TypeOK, CloseFile
    <3>3. held' \subseteq Networks \X Kinds BY <1>2, <2>1 DEF TypeOK
    <3>4. /\ tunOwned' \subseteq Networks /\ connectOk' \subseteq Networks
          /\ state' \in [Networks -> {"IDLE", "PREPARING", "CONNECTED", "FAILED"}]
          /\ connectPc' \in [Networks -> {"none", "lock", "engine", "close", "fail", "panic", "ended"}]
      BY <1>2, <2>2 DEF TypeOK
    <3> QED BY <1>1, <1>2, <3>1, <3>2, <3>3, <3>4 DEF TypeOK
  <2>6. PreparePlaces(g)' BY <1>1, <1>2, <2>3, <2>4 DEF PreparePlaces
  <2>7. ConnectPlaces(g)' BY <1>1, <1>2, <1>3, <2>3, <2>4 DEF ConnectPlaces, NativeBooks, Working
  <2>8. NativeBooks(g)' BY <1>1, <1>2, <1>3, <2>3, <2>4 DEF NativeBooks
  <2> QED BY <1>1, <2>3, <2>4, <2>5, <2>6, <2>7, <2>8, ConnectOnly
<1> QED BY <1>4, <1>5 DEF ConnectClose, ConnectTo

\* cleanupResourcesLocked releases from the engine to the descriptor, keeps what it could not
\* release in the books, and does not touch the tunnel or another network.
LEMMA CleanupEffect ==
    ASSUME OwnerInv, NEW g \in Networks, NEW error \in BOOLEAN, CleanupResources(g, error)
    PROVE  /\ engine' \subseteq Networks /\ tunOwned' \subseteq Networks /\ closed' \subseteq Networks
           /\ closeErr' \subseteq Networks /\ failures' \in 0..MaxFailures /\ held' \subseteq held
           /\ g \in engine' => g \in engine
           /\ ~error => g \notin engine'
           /\ Has(g, "engine")' <=> g \in engine'
           /\ Has(g, "tunnel")' <=> Has(g, "tunnel")
           /\ \A h \in Networks : h # g => /\ h \in engine' <=> h \in engine
                                           /\ \A k \in Kinds : <<h, k>> \in held' <=> <<h, k>> \in held
<1>1. TypeOK /\ NativeBooks(g) BY NetworkFacts
<1>2. CASE g \in engine /\ MayFail /\ Failure /\ error /\ UNCHANGED <<engine, tunOwned, closed, closeErr, held>>
  <2>1. failures' \in 0..MaxFailures BY <1>1, <1>2, MobileAssumption DEF TypeOK, MayFail, Failure
  <2> QED BY <1>1, <1>2, <2>1 DEF TypeOK, NativeBooks, Has
<1>3. CASE /\ engine' = engine \ {g} /\ g \in tunOwned
           /\ \E ok \in CloseOutcomes :
                 /\ CloseFile(g, ok) /\ Counted(~ok /\ g \notin closed)
                 /\ tunOwned' = IF CloseError(g, ok) THEN tunOwned ELSE tunOwned \ {g}
                 /\ held' = held \ {<<g, "engine">>, <<g, "file">>}
                 /\ error = CloseError(g, ok)
  <2>1. PICK ok \in CloseOutcomes :
                 /\ CloseFile(g, ok) /\ Counted(~ok /\ g \notin closed)
                 /\ tunOwned' = IF CloseError(g, ok) THEN tunOwned ELSE tunOwned \ {g}
                 /\ held' = held \ {<<g, "engine">>, <<g, "file">>}
    BY <1>3
  <2>2. failures' \in 0..MaxFailures BY <2>1, CountedFailures
  <2>3. closed' \subseteq Networks /\ closeErr' \subseteq Networks BY <1>1, <2>1 DEF TypeOK, CloseFile
  <2>4. tunOwned' \subseteq Networks BY <1>1, <2>1 DEF TypeOK
  <2> QED BY <1>1, <1>3, <2>1, <2>2, <2>3, <2>4 DEF TypeOK, Has
<1>4. CASE /\ engine' = engine \ {g} /\ held' = held \ {<<g, "engine">>} /\ ~error
           /\ UNCHANGED <<tunOwned, closed, closeErr, failures>>
  BY <1>1, <1>4 DEF TypeOK, Has
<1> QED BY <1>2, <1>3, <1>4 DEF CleanupResources

\* A Connect that fails or panics takes its engine down, or leaves it in the books.
LEMMA ConnectRollbackInv == ASSUME OwnerInv, NEW g \in Networks, ConnectRollback(g) PROVE OwnerInv'
<1>1. /\ connectPc[g] \in {"fail", "panic"} /\ connectPc' = [connectPc EXCEPT ![g] = "ended"]
      /\ UNCHANGED connectOk
      /\ UNCHANGED <<shell, tunnels, generation, abandoned, ownerVars, leaseShell, fd, released, connectCanceled>>
  BY DEF ConnectRollback, ConnectTo, ConnectFrame
<1>2. PICK error \in BOOLEAN :
         /\ CleanupResources(g, error)
         /\ StateTo(g, IF error \/ connectPc[g] = "fail" THEN "FAILED" ELSE "IDLE")
  BY DEF ConnectRollback
<1>3. TypeOK /\ PreparePlaces(g) /\ ConnectPlaces(g) /\ NativeBooks(g) BY NetworkFacts
<1>4. undo[g] = <<"tunnel", "core">> /\ g \notin connectOk /\ g \notin prepared
  BY <1>1, <1>3 DEF ConnectPlaces, Working
<1>5. /\ engine' \subseteq Networks /\ tunOwned' \subseteq Networks /\ closed' \subseteq Networks
      /\ closeErr' \subseteq Networks /\ failures' \in 0..MaxFailures /\ held' \subseteq held
      /\ ~error => g \notin engine'
      /\ Has(g, "engine")' <=> g \in engine'
      /\ Has(g, "tunnel")' <=> Has(g, "tunnel")
      /\ \A h \in Networks : h # g => /\ h \in engine' <=> h \in engine
                                      /\ \A k \in Kinds : <<h, k>> \in held' <=> <<h, k>> \in held
  BY <1>2, CleanupEffect
<1>6. state' = [state EXCEPT ![g] = IF error \/ connectPc[g] = "fail" THEN "FAILED" ELSE "IDLE"]
  BY <1>2 DEF StateTo
<1>7. /\ connectPc'[g] = "ended" /\ (error => state'[g] = "FAILED")
      /\ \A h \in Networks : h # g => connectPc'[h] = connectPc[h] /\ state'[h] = state[h]
  BY <1>1, <1>3, <1>6 DEF TypeOK
<1>8. TypeOK' BY <1>1, <1>3, <1>5, <1>6 DEF TypeOK
<1>9. PreparePlaces(g)' BY <1>1, <1>3, <1>5, <1>7 DEF PreparePlaces
<1>10. ConnectPlaces(g)' BY <1>1, <1>4, <1>7 DEF ConnectPlaces, Working
<1>11. Has(g, "file")' => Has(g, "file") BY <1>5 DEF Has
<1>12. NativeBooks(g)' BY <1>1, <1>3, <1>4, <1>5, <1>7, <1>11 DEF NativeBooks
<1> QED BY <1>1, <1>5, <1>7, <1>8, <1>9, <1>10, <1>12, ConnectOnly

-----------------------------------------------------------------------------
(* Stop *)

\* The manager begins a Stop.
LEMMA StopInv == ASSUME OwnerInv, NEW g \in Networks, Stop(g) PROVE OwnerInv'
<1>1. /\ preparePc[g] = "returned" /\ stopPc[g] = "idle" /\ g \notin gone
      /\ stopPc' = [stopPc EXCEPT ![g] = "undo"]
      /\ UNCHANGED <<shell, tunnels, generation, abandoned, preparePc, prepared, canceled, undo, gone, leaseVars,
                     runtimeVars, held, failures>>
  BY DEF Stop
<1>2. TypeOK /\ PreparePlaces(g) /\ ConnectPlaces(g) /\ NativeBooks(g) BY NetworkFacts
<1>3. stopPc'[g] = "undo" /\ \A h \in Networks : h # g => stopPc'[h] = stopPc[h]
  BY <1>1, <1>2 DEF TypeOK
<1>4. TypeOK' BY <1>1, <1>2 DEF TypeOK
<1>5. PreparePlaces(g)' BY <1>1, <1>2, <1>3 DEF PreparePlaces, Has
<1>6. ConnectPlaces(g)' BY <1>1, <1>2, <1>3 DEF ConnectPlaces, Has
<1>7. NativeBooks(g)' BY <1>1, <1>2, <1>3 DEF NativeBooks, Has
<1> QED BY <1>1, <1>3, <1>4, <1>5, <1>6, <1>7, ConnectOnly

\* An owner that is being stopped: its PrepareNetwork has returned.
LEMMA StoppingFacts ==
    ASSUME OwnerInv, NEW g \in Networks, stopPc[g] # "idle"
    PROVE  preparePc[g] = "returned" /\ g \notin gone
<1>1. PreparePlaces(g) BY NetworkFacts
<1> QED BY <1>1 DEF PreparePlaces

\* Disconnect waits for Connect's lock: its entry goes when there is no engine.
LEMMA StopCoreInv == ASSUME OwnerInv, NEW g \in Networks, StopCore(g) PROVE OwnerInv'
<1>1. /\ stopPc[g] = "undo" /\ undo[g] # <<>> /\ Last(undo[g]) = "core" /\ connectPc[g] \notin Working
      /\ UNCHANGED <<gone, tunnels, leaseShell, fd, released, connectCanceled, connectPc, connectOk>>
      /\ UNCHANGED <<shell, generation, abandoned, preparePc, canceled>>
  BY DEF StopCore, Undoing, NextEntry, LockFree, Working, StopFrame
<1>2. TypeOK /\ PreparePlaces(g) /\ ConnectPlaces(g) /\ NativeBooks(g) BY NetworkFacts
<1>3. undo[g] = <<"tunnel", "core">> /\ preparePc[g] = "returned" /\ g \notin gone
  BY <1>1, <1>2, UndoLists, StoppingFacts DEF TypeOK
<1>4. Done(g) => undo' = [undo EXCEPT ![g] = <<"tunnel">>] BY <1>3, UndoLists DEF Done
<1>5. CASE state[g] = "IDLE"
  <2>1. /\ undo' = [undo EXCEPT ![g] = <<"tunnel">>] /\ UNCHANGED <<stopPc, prepared, state, engine, tunOwned>>
        /\ UNCHANGED <<closed, closeErr, held, failures>>
    BY <1>4, <1>5 DEF StopCore
  <2>2. undo'[g] = <<"tunnel">> /\ \A h \in Networks : h # g => undo'[h] = undo[h]
    BY <1>2, <2>1 DEF TypeOK
  <2>3. TypeOK' BY <1>1, <1>2, <2>1 DEF TypeOK
  <2>4. PreparePlaces(g)' BY <1>1, <1>2, <1>3, <2>1 DEF PreparePlaces, Has
  <2>5. ConnectPlaces(g)' BY <1>1, <1>2, <1>3, <2>1 DEF ConnectPlaces, Has
  <2>6. NativeBooks(g)' BY <1>1, <1>2, <1>5, <2>1, <2>2, UndoLists DEF NativeBooks, Has
  <2> QED BY <1>1, <2>1, <2>2, <2>3, <2>4, <2>5, <2>6, UndoLists, ConnectOnly
<1>6. CASE state[g] # "IDLE"
  <2>1. PICK error \in BOOLEAN :
              /\ CleanupResources(g, error)
              /\ IF error THEN StateTo(g, "FAILED") /\ StopFails(g)
                 ELSE StateTo(g, "IDLE") /\ Done(g) /\ UNCHANGED <<stopPc, prepared>>
    BY <1>6 DEF StopCore
  <2>2. /\ engine' \subseteq Networks /\ tunOwned' \subseteq Networks /\ closed' \subseteq Networks
        /\ closeErr' \subseteq Networks /\ failures' \in 0..MaxFailures /\ held' \subseteq held
        /\ ~error => g \notin engine'
        /\ Has(g, "engine")' <=> g \in engine'
        /\ Has(g, "tunnel")' <=> Has(g, "tunnel")
        /\ \A h \in Networks : h # g => /\ h \in engine' <=> h \in engine
                                        /\ \A k \in Kinds : <<h, k>> \in held' <=> <<h, k>> \in held
    BY <2>1, CleanupEffect
  <2>3. /\ error => /\ state' = [state EXCEPT ![g] = "FAILED"] /\ stopPc' = [stopPc EXCEPT ![g] = "idle"]
                    /\ prepared' = prepared \ {g} /\ UNCHANGED undo
        /\ ~error => /\ state' = [state EXCEPT ![g] = "IDLE"] /\ undo' = [undo EXCEPT ![g] = <<"tunnel">>]
                     /\ UNCHANGED <<stopPc, prepared>>
    BY <1>4, <2>1 DEF StateTo, StopFails, StopTo
  <2>4. /\ error => /\ state'[g] = "FAILED" /\ stopPc'[g] = "idle" /\ g \notin prepared'
                    /\ undo'[g] = <<"tunnel", "core">>
        /\ ~error => undo'[g] = <<"tunnel">> /\ stopPc'[g] = "undo" /\ state'[g] = "IDLE"
                     /\ (g \in prepared' <=> g \in prepared)
        /\ \A h \in Networks : h # g => /\ state'[h] = state[h] /\ stopPc'[h] = stopPc[h] /\ undo'[h] = undo[h]
                                        /\ (h \in prepared' <=> h \in prepared)
    BY <1>1, <1>2, <1>3, <2>3 DEF TypeOK
  <2>5. TypeOK'
    <3>1. /\ prepared' \subseteq Networks /\ undo' \in [Networks -> {<<>>, <<"tunnel">>, <<"tunnel", "core">>}]
          /\ stopPc' \in [Networks -> {"idle", "undo", "release"}]
          /\ state' \in [Networks -> {"IDLE", "PREPARING", "CONNECTED", "FAILED"}]
      BY <1>2, <2>3 DEF TypeOK
    <3> QED BY <1>1, <1>2, <2>2, <3>1 DEF TypeOK
  <2>6. PreparePlaces(g)' BY <1>1, <1>2, <1>3 DEF PreparePlaces
  <2>7. connectPc[g] = "ended" BY <1>1, <1>2, <1>6 DEF ConnectPlaces, TypeOK, Working
  <2>8. ConnectPlaces(g)' BY <1>1, <1>3, <2>4, <2>7 DEF ConnectPlaces, Working
  <2>9. Has(g, "file")' => Has(g, "file") BY <2>2 DEF Has
  <2>10. NativeBooks(g)' BY <1>1, <1>2, <2>2, <2>4, <2>9, UndoLists DEF NativeBooks
  <2> QED BY <1>1, <2>2, <2>4, <2>5, <2>6, <2>8, <2>10, UndoLists, ConnectOnly
<1> QED BY <1>5, <1>6

\* The tunnel's entry: the descriptor goes before the tunnel.
LEMMA StopTunnelInv == ASSUME OwnerInv, NEW g \in Networks, StopTunnel(g) PROVE OwnerInv'
<1>1. /\ stopPc[g] = "undo" /\ undo[g] # <<>> /\ Last(undo[g]) = "tunnel"
      /\ UNCHANGED <<gone, tunnels, leaseShell, fd, released, runtimeVars>>
      /\ UNCHANGED <<shell, generation, abandoned, preparePc, canceled>>
  BY DEF StopTunnel, Undoing, NextEntry, StopFrame
<1>2. TypeOK /\ Reservations /\ PreparePlaces(g) /\ ConnectPlaces(g) /\ NativeBooks(g) BY NetworkFacts
<1>3. /\ undo[g] = <<"tunnel">> /\ preparePc[g] = "returned" /\ g \notin gone
      /\ g \notin engine /\ connectPc[g] \notin Working
  BY <1>1, <1>2, UndoLists, StoppingFacts DEF TypeOK, NativeBooks, ConnectPlaces
<1>4. CASE g \in released
  <2>1. /\ UNCHANGED <<closed, closeErr, held, failures>>
        /\ \/ stopPc' = [stopPc EXCEPT ![g] = "idle"] /\ prepared' = prepared \ {g} /\ UNCHANGED undo
           \/ undo' = [undo EXCEPT ![g] = <<>>] /\ UNCHANGED <<stopPc, prepared>>
    BY <1>3, <1>4, UndoLists DEF StopTunnel, StopFails, StopTo, Done
  <2>2. /\ \/ stopPc'[g] = "idle" /\ g \notin prepared' /\ undo'[g] = <<"tunnel">>
           \/ stopPc'[g] = "undo" /\ undo'[g] = <<>> /\ (g \in prepared' <=> g \in prepared)
        /\ \A h \in Networks : h # g => /\ stopPc'[h] = stopPc[h] /\ undo'[h] = undo[h]
                                        /\ (h \in prepared' <=> h \in prepared)
    BY <1>1, <1>2, <1>3, <2>1 DEF TypeOK
  <2>3. TypeOK'
    <3>1. prepared' \subseteq Networks BY <1>2, <2>1 DEF TypeOK
    <3> QED BY <1>1, <1>2, <2>1, <3>1 DEF TypeOK
  <2>4. Reservations' BY <1>1, <1>2, <1>4, <2>2 DEF Reservations
  <2>5. \A h \in Networks : h # g => SameFor(h) BY <1>1, <2>1, <2>2 DEF SameFor
  <2>6. PreparePlaces(g)' BY <1>1, <1>2, <1>3 DEF PreparePlaces
  <2>7. ConnectPlaces(g)' BY <1>1, <1>2, <1>3, <2>1, <2>2 DEF ConnectPlaces, Has
  <2>8. NativeBooks(g)' BY <1>1, <1>2, <1>3, <1>4, <2>1, <2>2 DEF NativeBooks, Has
  <2> QED BY <1>1, <2>3, <2>4, <2>5, <2>6, <2>7, <2>8, OneNetwork
<1>5. CASE g \notin released
  <2>1. PICK ok \in IF g \in closed \/ fd[g] = NoShell THEN {TRUE} ELSE CloseOutcomes :
              /\ CloseFile(g, ok) /\ Counted(~ok) /\ held' = held \ {<<g, "file">>}
              /\ StopTo(g, "release") /\ UNCHANGED <<undo, prepared>>
    BY <1>5 DEF StopTunnel
  <2>2. ok \in CloseOutcomes BY <2>1 DEF CloseOutcomes
  <2>3. failures' \in 0..MaxFailures BY <2>1, <2>2, CountedFailures
  <2>4. closed' \subseteq Networks /\ closeErr' \subseteq Networks BY <1>2, <2>1 DEF TypeOK, CloseFile
  <2>5. stopPc' = [stopPc EXCEPT ![g] = "release"] BY <2>1 DEF StopTo
  <2>6. stopPc'[g] = "release" /\ \A h \in Networks : h # g => stopPc'[h] = stopPc[h] BY <1>2, <2>5 DEF TypeOK
  <2>7. /\ ~Has(g, "file")' /\ \A k \in {"tunnel", "engine"} : Has(g, k)' <=> Has(g, k)
        /\ \A h \in Networks : h # g => \A k \in Kinds : <<h, k>> \in held' <=> <<h, k>> \in held
    BY <2>1 DEF Has
  <2>8. TypeOK'
    <3>1. held' \subseteq Networks \X Kinds BY <1>2, <2>1 DEF TypeOK
    <3>2. UNCHANGED <<undo, prepared>> BY <2>1
    <3> QED BY <1>1, <1>2, <2>3, <2>4, <2>5, <3>1, <3>2 DEF TypeOK
  <2>9. PreparePlaces(g)' BY <1>1, <1>2, <1>3, <2>1 DEF PreparePlaces
  <2>10. ConnectPlaces(g)' BY <1>1, <1>2, <1>3, <2>1, <2>6 DEF ConnectPlaces
  <2>11. NativeBooks(g)' BY <1>1, <1>2, <1>3, <1>5, <2>1, <2>6, <2>7 DEF NativeBooks
  <2>12. UNCHANGED <<undo, prepared>> BY <2>1
  <2> QED BY <1>1, <2>6, <2>7, <2>8, <2>9, <2>10, <2>11, <2>12, ConnectOnly
<1> QED BY <1>4, <1>5

\* ReleaseTunnel: the number is free when the tunnel is gone.
LEMMA StopReleaseInv == ASSUME OwnerInv, NEW g \in Networks, StopRelease(g) PROVE OwnerInv'
<1>1. /\ stopPc[g] = "release"
      /\ UNCHANGED <<gone, leaseShell, fd, closed, closeErr, runtimeVars>>
      /\ UNCHANGED <<shell, generation, abandoned, preparePc, canceled>>
  BY DEF StopRelease, StopFrame
<1>2. TypeOK /\ Reservations /\ PreparePlaces(g) /\ ConnectPlaces(g) /\ NativeBooks(g) BY NetworkFacts
<1>3. /\ undo[g] = <<"tunnel">> /\ preparePc[g] = "returned" /\ g \notin gone /\ ~Has(g, "file")
      /\ g \notin engine /\ connectPc[g] \notin Working
  BY <1>1, <1>2, UndoLists, StoppingFacts DEF NativeBooks, ConnectPlaces
<1>4. CASE MayFail /\ Failure /\ StopFails(g) /\ UNCHANGED <<tunnels, released, held>>
  <2>1. stopPc' = [stopPc EXCEPT ![g] = "idle"] /\ prepared' = prepared \ {g} /\ UNCHANGED undo
    BY <1>4 DEF StopFails, StopTo
  <2>2. failures' \in 0..MaxFailures BY <1>2, <1>4, MobileAssumption DEF TypeOK, MayFail, Failure
  <2>3. /\ stopPc'[g] = "idle" /\ g \notin prepared'
        /\ \A h \in Networks : h # g => stopPc'[h] = stopPc[h] /\ (h \in prepared' <=> h \in prepared)
    BY <1>2, <2>1 DEF TypeOK
  <2>4. TypeOK'
    <3>1. prepared' \subseteq Networks BY <1>2, <2>1 DEF TypeOK
    <3> QED BY <1>1, <1>2, <1>4, <2>1, <2>2, <3>1 DEF TypeOK
  <2>5. PreparePlaces(g)' BY <1>1, <1>2, <1>3 DEF PreparePlaces
  <2>6. ConnectPlaces(g)' BY <1>1, <1>2, <1>3, <2>3 DEF ConnectPlaces
  <2>7. NativeBooks(g)' BY <1>1, <1>2, <1>4, <2>1, <2>3 DEF NativeBooks, Has
  <2> QED BY <1>1, <1>4, <2>1, <2>3, <2>4, <2>5, <2>6, <2>7, ConnectOnly
<1>5. CASE /\ held' = held \ {<<g, "tunnel">>} /\ UNCHANGED failures
           /\ tunnels' = tunnels \ {<<fd[g], g>>} /\ released' = released \cup {g}
           /\ \/ stopPc' = [stopPc EXCEPT ![g] = "idle"] /\ prepared' = prepared \ {g} /\ UNCHANGED undo
              \/ /\ undo' = [undo EXCEPT ![g] = <<>>] /\ stopPc' = [stopPc EXCEPT ![g] = "undo"]
                 /\ UNCHANGED prepared
  <2>1. /\ \/ stopPc'[g] = "idle" /\ g \notin prepared' /\ undo'[g] = <<"tunnel">>
           \/ stopPc'[g] = "undo" /\ undo'[g] = <<>> /\ (g \in prepared' <=> g \in prepared)
        /\ \A h \in Networks : h # g => /\ stopPc'[h] = stopPc[h] /\ undo'[h] = undo[h]
                                        /\ (h \in prepared' <=> h \in prepared)
                                        /\ (h \in released' <=> h \in released)
        /\ g \in released'
    BY <1>2, <1>3, <1>5 DEF TypeOK
  <2>2. /\ ~Has(g, "file")' /\ ~Has(g, "tunnel")' /\ (Has(g, "engine")' <=> Has(g, "engine"))
        /\ \A h \in Networks : h # g => \A k \in Kinds : <<h, k>> \in held' <=> <<h, k>> \in held
    BY <1>3, <1>5 DEF Has
  <2>3. TypeOK'
    <3>1. /\ prepared' \subseteq Networks /\ released' \subseteq Networks /\ held' \subseteq Networks \X Kinds
          /\ tunnels' \subseteq Descriptors \X Networks
      BY <1>2, <1>5 DEF TypeOK
    <3>2. /\ undo' \in [Networks -> {<<>>, <<"tunnel">>, <<"tunnel", "core">>}]
          /\ stopPc' \in [Networks -> {"idle", "undo", "release"}]
      BY <1>2, <1>5 DEF TypeOK
    <3> QED BY <1>1, <1>2, <1>5, <3>1, <3>2 DEF TypeOK
  <2>4. Reservations'
    <3> SUFFICES ASSUME NEW number \in Descriptors, NEW h \in Networks, <<number, h>> \in tunnels'
                 PROVE  undo'[h] # <<>> /\ number = fd'[h] /\ h \notin released'
      BY DEF Reservations
    <3>1. <<number, h>> \in tunnels /\ <<number, h>> # <<fd[g], g>> BY <1>5
    <3>2. undo[h] # <<>> /\ number = fd[h] /\ h \notin released BY <1>2, <3>1 DEF Reservations
    <3>3. h # g BY <3>1, <3>2
    <3> QED BY <1>1, <2>1, <3>2, <3>3
  <2>5. \A h \in Networks : h # g => SameFor(h) BY <1>1, <2>1, <2>2 DEF SameFor
  <2>6. PreparePlaces(g)' BY <1>1, <1>2, <1>3 DEF PreparePlaces
  <2>7. ConnectPlaces(g)' BY <1>1, <1>2, <1>3, <2>1 DEF ConnectPlaces
  <2>8. NativeBooks(g)' BY <1>1, <1>2, <1>3, <2>1, <2>2 DEF NativeBooks
  <2> QED BY <1>1, <2>3, <2>4, <2>5, <2>6, <2>7, <2>8, OneNetwork
<1> QED BY <1>3, <1>4, <1>5, UndoLists DEF StopRelease, ReleaseShell, Unreserved, StopFails, StopTo, Done

\* Stop is done when its list is empty.
LEMMA StoppedInv == ASSUME OwnerInv, NEW g \in Networks, Stopped(g) PROVE OwnerInv'
<1>1. /\ stopPc[g] = "undo" /\ undo[g] = <<>> /\ stopPc' = [stopPc EXCEPT ![g] = "idle"] /\ gone' = gone \cup {g}
      /\ UNCHANGED <<tunnels, prepared, undo, leaseVars, abandoned, runtimeVars, held, failures>>
      /\ UNCHANGED <<shell, generation, abandoned, preparePc, canceled>>
  BY DEF Stopped, StopTo, StopFrame
<1>2. TypeOK /\ PreparePlaces(g) /\ ConnectPlaces(g) /\ NativeBooks(g) BY NetworkFacts
<1>3. stopPc'[g] = "idle" /\ \A h \in Networks : h # g => stopPc'[h] = stopPc[h] /\ (h \in gone' <=> h \in gone)
  BY <1>1, <1>2 DEF TypeOK
<1>4. TypeOK'
  <2>1. gone' \subseteq Networks BY <1>1, <1>2 DEF TypeOK
  <2> QED BY <1>1, <1>2, <2>1 DEF TypeOK
<1>5. Reservations' BY <1>1, SameReservations
<1>6. \A h \in Networks : h # g => SameFor(h) BY <1>1, <1>3 DEF SameFor
<1>7. PreparePlaces(g)' BY <1>1, <1>2, <1>3, StoppingFacts DEF PreparePlaces, Has
<1>8. ConnectPlaces(g)' BY <1>1, <1>2, <1>3 DEF ConnectPlaces, Has
<1>9. NativeBooks(g)' BY <1>1, <1>2, <1>3 DEF NativeBooks, Has
<1> QED BY <1>1, <1>4, <1>5, <1>6, <1>7, <1>8, <1>9, OneNetwork

-----------------------------------------------------------------------------
(* All steps *)

\* The shell is replaced, or an attempt canceled, or nothing happens.
LEMMA EnvironmentInv ==
    ASSUME OwnerInv, shell' \in Shells \cup {NoShell}, canceled' \subseteq Networks, EnvironmentFrame
    PROVE  OwnerInv'
<1> USE DEF EnvironmentFrame
<1>1. TypeOK /\ Reservations BY DEF OwnerInv
<1>2. TypeOK' BY <1>1 DEF TypeOK
<1>3. Reservations' BY <1>1 DEF Reservations
<1>4. \A h \in Networks : SameFor(h) BY DEF SameFor
<1> QED BY <1>2, <1>3, <1>4, SameBooks DEF OwnerInv

\* A step of one network.
NetworkStep(g) ==
    PrepareStep(g) \/ ConnectStep(g) \/ ConnectEngine(g) \/ Stop(g) \/ StopStep(g)

\* It keeps the invariant.
LEMMA NetworkStepInv == ASSUME OwnerInv, NEW g \in Networks, NetworkStep(g) PROVE OwnerInv'
<1>1. CASE PrepareStep(g) BY <1>1, AcquireInv, ConfigureResolverInv, ConnectContextInv DEF PrepareStep
<1>2. CASE ConnectStep(g) BY <1>2, ConnectLockInv, ConnectCloseInv, ConnectRollbackInv DEF ConnectStep
<1>3. CASE StopStep(g) BY <1>3, StopCoreInv, StopTunnelInv, StopReleaseInv, StoppedInv DEF StopStep
<1> QED BY <1>1, <1>2, <1>3, ConnectEngineInv, StopInv DEF NetworkStep

\* Every step keeps the invariant.
LEMMA OwnerStepInv == OwnerInv /\ [Next]_vars => OwnerInv'
<1> SUFFICES ASSUME OwnerInv, [Next]_vars PROVE OwnerInv' OBVIOUS
<1>1. shell \in Shells \cup {NoShell} /\ canceled \subseteq Networks BY DEF OwnerInv, TypeOK
<1>2. CASE PrepareNetwork BY <1>2, PrepareNetworkInv
<1>3. ASSUME NEW s \in Shells \cup {NoShell}, SetPlatformCallbacks(s) PROVE OwnerInv'
  BY <1>1, <1>3, EnvironmentInv DEF SetPlatformCallbacks
<1>4. ASSUME NEW g \in Networks, Cancel(g) PROVE OwnerInv'
  BY <1>1, <1>4, EnvironmentInv DEF Cancel
<1>5. CASE UNCHANGED vars BY <1>1, <1>5, EnvironmentInv DEF vars, EnvironmentFrame
<1> QED BY <1>2, <1>3, <1>4, <1>5, NetworkStepInv DEF Next, NetworkStep

\* The inductive invariant holds throughout.
LEMMA OwnerAlways == Spec => []OwnerInv
  BY OwnerBegins, OwnerStepInv, PTL DEF Spec

\* The books that the runs check follow.
LEMMA OwnerGives == OwnerInv => MobileInv
<1> SUFFICES ASSUME OwnerInv PROVE MobileInv OBVIOUS
<1>1. ASSUME NEW p \in held
      PROVE  /\ p[1] \notin gone
             /\ IF p[2] = "engine" THEN p[1] \in engine /\ Last(undo[p[1]]) = "core"
                ELSE "tunnel" \in ToSet(undo[p[1]])
  <2>1. PICK g \in Networks, k \in Kinds : p = <<g, k>> BY <1>1 DEF OwnerInv, TypeOK
  <2>2. TypeOK /\ PreparePlaces(g) /\ NativeBooks(g) BY NetworkFacts
  <2>3. Has(g, k) BY <1>1, <2>1 DEF Has
  <2>4. k = "engine" => g \in engine /\ undo[g] = <<"tunnel", "core">> BY <2>2, <2>3 DEF NativeBooks
  <2>5. k # "engine" => undo[g] \in {<<"tunnel">>, <<"tunnel", "core">>}
    BY <2>2, <2>3 DEF NativeBooks, TypeOK, Kinds
  <2>6. undo[g] # <<>> BY <2>4, <2>5, UndoLists
  <2>7. g \notin gone BY <2>2, <2>6 DEF PreparePlaces
  <2> QED BY <2>1, <2>4, <2>5, <2>7, UndoLists, UndoSets
<1>2. NothingUnowned BY <1>1 DEF NothingUnowned
<1> QED BY <1>2 DEF MobileInv, OwnerInv

\* Whatever the shell or the engine made, also together with an error, is in the books of
\* an owner that the manager will stop, and no number of a descriptor is ever refused:
\* through cancellations, failed Stops and a Connect that comes late.
THEOREM NothingIsUnowned == Spec => []MobileInv
  BY OwnerAlways, OwnerGives, PTL

\* A tunnel only goes in StopRelease, after the descriptor and the engine.
LEMMA TunnelStep ==
    OwnerInv /\ [Next]_vars
        => [\A p \in held \ held' : p[2] = "tunnel" => \A q \in held : q[1] = p[1] => q = p]_vars
<1> SUFFICES ASSUME OwnerInv, Next, NEW p \in held, p \notin held', p[2] = "tunnel",
                    NEW q \in held, q[1] = p[1]
             PROVE  q = p
  OBVIOUS
<1>1. ~UNCHANGED held OBVIOUS
<1>2. PICK g \in Networks : NetworkStep(g)
  BY <1>1 DEF Next, NetworkStep, PrepareNetwork, SetPlatformCallbacks, Cancel, EnvironmentFrame
<1>3. PICK h \in Networks : p = <<h, "tunnel">> BY DEF OwnerInv, TypeOK
<1>4. StopRelease(g)
  <2>1. CASE PrepareStep(g)
    BY <2>1 DEF PrepareStep, AcquireNothing, AcquirePending, AcquireTunnel, ConfigureResolver, ConnectContext
  <2>2. CASE ConnectLock(g) \/ ConnectEngine(g) BY <2>2 DEF ConnectLock, ConnectEngine
  <2>3. CASE ConnectClose(g)
    <3>1. UNCHANGED held \/ held' = held \ {<<g, "file">>} BY <2>3 DEF ConnectClose
    <3> QED BY <1>3, <3>1
  <2>4. CASE ConnectRollback(g) \/ StopCore(g)
    <3>1. \/ UNCHANGED held
          \/ \E error \in BOOLEAN : CleanupResources(g, error)
      BY <2>4 DEF ConnectRollback, StopCore
    <3>2. \/ UNCHANGED held \/ held' = held \ {<<g, "engine">>}
          \/ held' = held \ {<<g, "engine">>, <<g, "file">>}
      BY <3>1 DEF CleanupResources
    <3> QED BY <1>3, <3>2
  <2>5. CASE StopTunnel(g)
    <3>1. UNCHANGED held \/ held' = held \ {<<g, "file">>} BY <2>5 DEF StopTunnel
    <3> QED BY <1>3, <3>1
  <2>6. CASE Stop(g) \/ Stopped(g) BY <2>6 DEF Stop, Stopped
  <2> QED BY <1>2, <2>1, <2>2, <2>3, <2>4, <2>5, <2>6 DEF NetworkStep, ConnectStep, StopStep
<1>5. h = g
  <2>1. UNCHANGED held \/ held' = held \ {<<g, "tunnel">>} BY <1>4 DEF StopRelease
  <2> QED BY <1>3, <2>1
<1>6. ~Has(g, "file") /\ ~Has(g, "engine")
  <2>1. stopPc[g] = "release" /\ NativeBooks(g) BY <1>4, NetworkFacts DEF StopRelease
  <2> QED BY <2>1, UndoLists DEF NativeBooks
<1>7. PICK k \in Kinds : q = <<g, k>> BY <1>3, <1>5 DEF OwnerInv, TypeOK
<1> QED BY <1>3, <1>5, <1>6, <1>7 DEF Has, Kinds

\* The shell gets its tunnel back only when no engine and no descriptor of Go's uses it.
THEOREM TunnelGoesLast == Spec => TunnelLast
<1>1. OwnerInv /\ [Next]_vars
         => [\A p \in held \ held' : p[2] = "tunnel" => \A q \in held : q[1] = p[1] => q = p]_vars
  BY TunnelStep
<1> QED BY <1>1, OwnerAlways, PTL DEF Spec, TunnelLast

-----------------------------------------------------------------------------
(* Every owner implements RuntimeOwner *)

PromiseStep(g) == Owner(g)!Next \/ UNCHANGED <<OwnerPhase(g), OwnerHolds(g)>>

\* What an owner holds depends on its own resources.
LEMMA HoldsUnchanged ==
    ASSUME NEW g \in Networks, \A k \in Kinds : <<g, k>> \in held' <=> <<g, k>> \in held
    PROVE  UNCHANGED OwnerHolds(g)
<1>1. {k \in Kinds : <<g, k>> \in held'} = {k \in Kinds : <<g, k>> \in held} OBVIOUS
<1> QED BY <1>1 DEF OwnerHolds

\* The promise before a network is prepared.
LEMMA PromiseBegins == ASSUME Init, NEW g \in Networks PROVE Owner(g)!Init
<1>1. OwnerPhase(g) = "acquiring" BY DEF Init, OwnerPhase
<1>2. OwnerHolds(g) = "nothing" BY DEF Init, OwnerHolds
<1> QED BY <1>1, <1>2 DEF Owner!Init

\* A step of another network, or of none.
LEMMA PromiseLeftAlone == ASSUME NEW g \in Networks, SameFor(g) PROVE PromiseStep(g)
<1>1. UNCHANGED OwnerHolds(g) BY HoldsUnchanged DEF SameFor
<1>2. UNCHANGED OwnerPhase(g) BY DEF SameFor, OwnerPhase
<1> QED BY <1>1, <1>2 DEF PromiseStep

\* Acquisition, rollback and cleanup may change what is held.
LEMMA PromiseWorks ==
    ASSUME NEW g \in Networks, OwnerPhase(g) \in {"acquiring", "failed", "stopping"}, UNCHANGED OwnerPhase(g)
    PROVE  PromiseStep(g)
<1>1. OwnerHolds(g)' \in {"nothing", "part", "all"} BY DEF OwnerHolds
<1> QED BY <1>1 DEF PromiseStep, Owner!Next, Owner!Work, Owner!Held

\* The step of an owner that is not this one.
LEMMA OthersAlone ==
    ASSUME OwnerInv, NEW g \in Networks, NetworkStep(g), NEW h \in Networks, h # g
    PROVE  UNCHANGED OwnerPhase(h) /\ UNCHANGED OwnerHolds(h)
<1>1. TypeOK BY DEF OwnerInv
<1>2. \A k \in Kinds : <<h, k>> \in held' <=> <<h, k>> \in held
  <2>1. CASE PrepareStep(g)
    BY <2>1 DEF PrepareStep, AcquireNothing, AcquirePending, AcquireTunnel, ConfigureResolver, ConnectContext
  <2>2. CASE ConnectLock(g) \/ ConnectEngine(g) BY <2>2 DEF ConnectLock, ConnectEngine
  <2>3. CASE ConnectClose(g) BY <2>3 DEF ConnectClose
  <2>4. CASE ConnectRollback(g) \/ StopCore(g)
    <3>1. UNCHANGED held \/ \E error \in BOOLEAN : CleanupResources(g, error)
      BY <2>4 DEF ConnectRollback, StopCore
    <3> QED BY <3>1, CleanupEffect
  <2>5. CASE StopTunnel(g) \/ StopRelease(g) BY <2>5 DEF StopTunnel, StopRelease
  <2>6. CASE Stop(g) \/ Stopped(g) BY <2>6 DEF Stop, Stopped
  <2> QED BY <2>1, <2>2, <2>3, <2>4, <2>5, <2>6 DEF NetworkStep, ConnectStep, StopStep
<1>3. /\ UNCHANGED preparePc \/ \E pc : preparePc' = [preparePc EXCEPT ![g] = pc]
      /\ UNCHANGED stopPc \/ \E pc : stopPc' = [stopPc EXCEPT ![g] = pc]
      /\ prepared' \in {prepared, prepared \cup {g}, prepared \ {g}}
      /\ gone' \in {gone, gone \cup {g}}
  <2>1. CASE PrepareStep(g)
    BY <2>1 DEF PrepareStep, AcquireNothing, AcquirePending, AcquireTunnel, ConfigureResolver, ConnectContext,
                AcquireFrame, Return
  <2>2. CASE ConnectStep(g) \/ ConnectEngine(g)
    BY <2>2 DEF ConnectStep, ConnectLock, ConnectEngine, ConnectClose, ConnectRollback, ConnectFrame
  <2>3. CASE Stop(g) \/ StopStep(g)
    BY <2>3 DEF Stop, StopStep, StopCore, StopTunnel, StopRelease, Stopped, StopFails, StopTo, StopFrame
  <2> QED BY <2>1, <2>2, <2>3 DEF NetworkStep
<1>4. preparePc'[h] = preparePc[h] /\ stopPc'[h] = stopPc[h] BY <1>1, <1>3 DEF TypeOK
<1>5. (h \in prepared' <=> h \in prepared) /\ (h \in gone' <=> h \in gone) BY <1>3
<1>6. UNCHANGED OwnerHolds(h) BY <1>2, HoldsUnchanged
<1> QED BY <1>4, <1>5, <1>6 DEF OwnerPhase

\* PrepareNetwork returns an owner that holds everything, or one with an error.
LEMMA PromisePrepare ==
    ASSUME OwnerInv, NEW g \in Networks, PrepareStep(g) PROVE PromiseStep(g)
<1>1. preparePc[g] \in {"acquire", "resolver", "await"}
  BY DEF PrepareStep, AcquireNothing, AcquirePending, AcquireTunnel, ConfigureResolver, ConnectContext
<1>2. TypeOK /\ PreparePlaces(g) /\ ConnectPlaces(g) BY NetworkFacts
<1>3. stopPc[g] = "idle" /\ g \notin gone /\ g \notin prepared BY <1>1, <1>2 DEF PreparePlaces
<1>4. UNCHANGED <<stopPc, gone>>
  BY DEF PrepareStep, AcquireNothing, AcquirePending, AcquireTunnel, ConfigureResolver, ConnectContext, AcquireFrame
<1>5. OwnerPhase(g) = "acquiring" BY <1>1, <1>3 DEF OwnerPhase
<1>6. OwnerHolds(g)' \in {"nothing", "part", "all"} BY DEF OwnerHolds
<1>7. CASE g \notin prepared'
  <2>1. OwnerPhase(g)' \in {"acquiring", "failed"} BY <1>3, <1>4, <1>7 DEF OwnerPhase
  <2>2. CASE OwnerPhase(g)' = "acquiring" BY <1>5, <2>2, PromiseWorks
  <2>3. CASE OwnerPhase(g)' = "failed"
    BY <1>5, <1>6, <2>3 DEF PromiseStep, Owner!Next, Owner!Failed, Owner!Held
  <2> QED BY <2>1, <2>2, <2>3
<1>8. CASE g \in prepared'
  <2>1. /\ preparePc[g] = "await" /\ g \in connectOk /\ UNCHANGED held
        /\ preparePc' = [preparePc EXCEPT ![g] = "returned"]
    BY <1>3, <1>8 DEF PrepareStep, AcquireNothing, AcquirePending, AcquireTunnel, ConfigureResolver,
                      ConnectContext, AcquireFrame, Return
  <2>2. Has(g, "tunnel") /\ Has(g, "engine") /\ ~Has(g, "file") BY <1>2, <2>1 DEF PreparePlaces, ConnectPlaces
  <2>3. {k \in Kinds : <<g, k>> \in held'} = {"tunnel", "engine"} BY <2>1, <2>2 DEF Has, Kinds
  <2>4. OwnerHolds(g)' = "all" BY <2>3 DEF OwnerHolds
  <2>5. preparePc'[g] = "returned" BY <1>2, <2>1 DEF TypeOK
  <2>6. OwnerPhase(g)' = "ready" BY <1>3, <1>4, <1>8, <2>5 DEF OwnerPhase
  <2> QED BY <1>5, <2>4, <2>6 DEF PromiseStep, Owner!Next, Owner!Prepared
<1> QED BY <1>7, <1>8

\* Connect only changes something while its owner is neither ready nor released.
LEMMA PromiseConnect ==
    ASSUME OwnerInv, NEW g \in Networks, ConnectStep(g) \/ ConnectEngine(g) PROVE PromiseStep(g)
<1>1. UNCHANGED <<preparePc, prepared, stopPc, gone>>
  BY DEF ConnectStep, ConnectLock, ConnectEngine, ConnectClose, ConnectRollback, ConnectFrame
<1>2. UNCHANGED OwnerPhase(g) BY <1>1 DEF OwnerPhase
<1>3. CASE ConnectLock(g)
  <2>1. UNCHANGED OwnerHolds(g) BY <1>3, HoldsUnchanged DEF ConnectLock
  <2> QED BY <1>2, <2>1 DEF PromiseStep
<1>4. CASE ConnectEngine(g) \/ ConnectClose(g) \/ ConnectRollback(g)
  <2>1. connectPc[g] \in Working BY <1>4 DEF ConnectEngine, ConnectClose, ConnectRollback, Working
  <2>2. ConnectPlaces(g) /\ PreparePlaces(g) BY NetworkFacts
  <2>3. undo[g] # <<>> /\ g \notin prepared BY <2>1, <2>2, UndoLists DEF ConnectPlaces, Working
  <2>4. g \notin gone BY <2>2, <2>3 DEF PreparePlaces
  <2>5. OwnerPhase(g) \in {"acquiring", "failed", "stopping"} BY <2>3, <2>4 DEF OwnerPhase
  <2> QED BY <1>2, <2>5, PromiseWorks
<1> QED BY <1>3, <1>4 DEF ConnectStep

\* Stop, and its end with nothing left.
LEMMA PromiseStop ==
    ASSUME OwnerInv, NEW g \in Networks, Stop(g) \/ StopStep(g) PROVE PromiseStep(g)
<1>1. TypeOK /\ PreparePlaces(g) /\ NativeBooks(g) BY NetworkFacts
<1>2. OwnerHolds(g)' \in {"nothing", "part", "all"} BY DEF OwnerHolds
<1>3. CASE Stop(g)
  <2>1. OwnerPhase(g) \in {"ready", "failed"} BY <1>3 DEF Stop, OwnerPhase
  <2>2. stopPc'[g] = "undo" /\ g \notin gone' BY <1>1, <1>3 DEF Stop, TypeOK
  <2>3. OwnerPhase(g)' = "stopping" BY <2>2 DEF OwnerPhase
  <2>4. UNCHANGED OwnerHolds(g) BY <1>3, HoldsUnchanged DEF Stop
  <2> QED BY <2>1, <2>3, <2>4 DEF PromiseStep, Owner!Next, Owner!Stop
<1>4. CASE StopCore(g) \/ StopTunnel(g) \/ StopRelease(g)
  <2>1. stopPc[g] # "idle" BY <1>4 DEF StopCore, StopTunnel, StopRelease, Undoing
  <2>2. preparePc[g] = "returned" /\ g \notin gone BY <2>1, StoppingFacts
  <2>3. UNCHANGED <<preparePc, gone>> BY <1>4 DEF StopCore, StopTunnel, StopRelease, StopFrame
  <2>4. OwnerPhase(g) = "stopping" BY <2>1, <2>2 DEF OwnerPhase
  <2>5. \/ stopPc'[g] # "idle"
        \/ stopPc'[g] = "idle" /\ g \notin prepared'
    <3>1. \/ UNCHANGED stopPc
          \/ \E pc \in {"undo", "release"} : stopPc' = [stopPc EXCEPT ![g] = pc]
          \/ stopPc' = [stopPc EXCEPT ![g] = "idle"] /\ prepared' = prepared \ {g}
      BY <1>4 DEF StopCore, StopTunnel, StopRelease, StopFails, StopTo
    <3> QED BY <1>1, <2>1, <3>1 DEF TypeOK
  <2>6. CASE stopPc'[g] # "idle"
    <3>1. OwnerPhase(g)' = "stopping" BY <2>2, <2>3, <2>6 DEF OwnerPhase
    <3> QED BY <2>4, <3>1, PromiseWorks
  <2>7. CASE stopPc'[g] = "idle" /\ g \notin prepared'
    <3>1. OwnerPhase(g)' = "failed" BY <2>2, <2>3, <2>7 DEF OwnerPhase
    <3> QED BY <1>2, <2>4, <3>1 DEF PromiseStep, Owner!Next, Owner!StopFails, Owner!Held
  <2> QED BY <2>5, <2>6, <2>7
<1>5. CASE Stopped(g)
  <2>1. stopPc[g] = "undo" /\ undo[g] = <<>> /\ gone' = gone \cup {g} /\ UNCHANGED held BY <1>5 DEF Stopped
  <2>2. g \notin gone BY <2>1, StoppingFacts
  <2>3. OwnerPhase(g) = "stopping" /\ OwnerPhase(g)' = "released" BY <2>1, <2>2 DEF OwnerPhase
  <2>4. ~Has(g, "tunnel") /\ ~Has(g, "file") /\ ~Has(g, "engine") BY <1>1, <2>1, UndoLists DEF NativeBooks
  <2>5. {k \in Kinds : <<g, k>> \in held} = {} BY <2>4 DEF Has, Kinds
  <2>6. OwnerHolds(g) = "nothing" BY <2>5 DEF OwnerHolds
  <2>7. UNCHANGED OwnerHolds(g) BY <2>1, HoldsUnchanged
  <2> QED BY <2>3, <2>6, <2>7 DEF PromiseStep, Owner!Next, Owner!Released
<1> QED BY <1>3, <1>4, <1>5 DEF StopStep

\* Every step is, for every owner, a step of RuntimeOwner or none.
LEMMA PromiseSteps == OwnerInv /\ [Next]_vars => [\A g \in Networks : PromiseStep(g)]_vars
<1> SUFFICES ASSUME OwnerInv, Next, NEW g \in Networks PROVE PromiseStep(g) OBVIOUS
<1>1. CASE PrepareNetwork
  <2>1. TypeOK /\ PreparePlaces(g) /\ g \in Nat /\ generation \in Nat BY NetworkFacts
  <2>2. /\ preparePc' = [preparePc EXCEPT ![generation + 1] = "acquire"]
        /\ UNCHANGED <<prepared, stopPc, gone, held>>
    BY <1>1 DEF PrepareNetwork
  <2>3. UNCHANGED OwnerHolds(g) BY <2>2, HoldsUnchanged
  <2>4. CASE g = generation + 1
    <3>1. preparePc[g] = "none" BY <2>1, <2>4 DEF PreparePlaces
    <3>2. preparePc'[g] = "acquire" BY <2>1, <2>2, <2>4 DEF TypeOK
    <3>3. UNCHANGED OwnerPhase(g) BY <2>2, <3>1, <3>2 DEF OwnerPhase
    <3> QED BY <2>3, <3>3 DEF PromiseStep
  <2>5. CASE g # generation + 1
    <3>1. preparePc'[g] = preparePc[g] BY <2>1, <2>2, <2>5 DEF TypeOK
    <3>2. UNCHANGED OwnerPhase(g) BY <2>2, <3>1 DEF OwnerPhase
    <3> QED BY <2>3, <3>2 DEF PromiseStep
  <2> QED BY <2>4, <2>5
<1>2. ASSUME EnvironmentFrame PROVE PromiseStep(g)
  <2>1. SameFor(g) BY <1>2 DEF EnvironmentFrame, SameFor
  <2> QED BY <2>1, PromiseLeftAlone
<1>3. ASSUME NEW h \in Networks, NetworkStep(h) PROVE PromiseStep(g)
  <2>1. CASE h = g BY <1>3, <2>1, PromisePrepare, PromiseConnect, PromiseStop DEF NetworkStep
  <2>2. CASE h # g BY <1>3, <2>2, OthersAlone DEF PromiseStep
  <2> QED BY <2>1, <2>2
<1> QED BY <1>1, <1>2, <1>3 DEF Next, NetworkStep, SetPlatformCallbacks, Cancel

\* The mobile network owner keeps the promise of RuntimeOwner: ready means that the engine
\* has its own descriptor and Go's is closed; released that nothing exists, and that a
\* Connect which was left behind will not bring anything back.
THEOREM MobileImplementsOwner == Spec => MobileKeepsPromise
<1>1. Init => \A g \in Networks : Owner(g)!Init BY PromiseBegins
<1>2. OwnerInv /\ [Next]_vars
         => [\A g \in Networks : Owner(g)!Next \/ UNCHANGED <<OwnerPhase(g), OwnerHolds(g)>>]_vars
  BY PromiseSteps DEF PromiseStep
<1> QED BY <1>1, <1>2, OwnerAlways, PTL DEF Spec, MobileKeepsPromise
=============================================================================
