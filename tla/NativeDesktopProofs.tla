------------------------ MODULE NativeDesktopProofs ------------------------
(***************************************************************************)
(* Proofs about NativeDesktop.  The model has no constants, so the run     *)
(* desktop_owner is exhaustive; the proofs say why the owner is right:     *)
(* which races cannot happen, and on which facts each release rests.       *)
(***************************************************************************)
EXTENDS NativeDesktop, SequenceTheorems, TLAPS

-----------------------------------------------------------------------------
(* The invariant *)

Platforms == {Linux, MacOS, Windows}

\* What Plan.leases can be on a platform: the routing resources in the order of acquisition.
Leases(P) ==
    IF P = Linux THEN {<<>>, <<"guard">>, <<"guard", "rules">>, <<"guard", "rules", "dns">>}
    ELSE IF P = MacOS
    THEN {<<>>, <<"physical">>, <<"physical", "routes">>, <<"physical", "routes", "dns">>}
    ELSE {<<>>, <<"routes">>}

\* What is left of the cleanup list.
Cleanups(P) ==
    IF P = Linux THEN {<<"engine", "plan", "tun">>, <<"plan", "tun">>, <<"tun">>, <<>>}
    ELSE {<<"plan", "engine">>, <<"engine">>, <<>>}

\* The books of leases L, cleanup C and native resources H: a routing resource exists exactly
\* while its lease is recorded, the others only while their entry is there, and nobody
\* outlives what it uses.
BooksOf(P, L, C, H) ==
    /\ L \in Leases(P) /\ C \in Cleanups(P) /\ H \subseteq ToSet(P.acquire)
    /\ \A r \in P.plan : r \in H <=> r \in ToSet(L)
    /\ \A r \in H \ P.plan : r \in ToSet(C)
    /\ L # <<>> => "plan" \in ToSet(C)
    /\ P = Linux /\ ("rules" \in H \/ "engine" \in H) => "tun" \in H
    /\ P # Linux /\ "routes" \in H => "engine" \in H

\* What exists when the first n resources were acquired.
StageOf(P, n, L, H) ==
    IF P = Linux
    THEN \/ n = 0 /\ L = <<>> /\ H = {}
         \/ n = 1 /\ L = <<"guard">> /\ H = {"guard"}
         \/ n = 2 /\ L = <<"guard">> /\ H = {"guard", "tun"}
         \/ n = 3 /\ L = <<"guard">> /\ H = {"guard", "tun", "engine"}
         \/ n = 4 /\ L = <<"guard", "rules">> /\ H = {"guard", "tun", "engine", "rules"}
         \/ n = 5 /\ L = <<"guard", "rules", "dns">> /\ H = {"guard", "tun", "engine", "rules", "dns"}
    ELSE IF P = MacOS
    THEN \/ n = 0 /\ L = <<>> /\ H = {}
         \/ n = 1 /\ L = <<"physical">> /\ H = {"physical"}
         \/ n = 2 /\ L = <<"physical">> /\ H = {"physical", "engine"}
         \/ n = 3 /\ L = <<"physical", "routes">> /\ H = {"physical", "engine", "routes"}
         \/ n = 4 /\ L = <<"physical", "routes", "dns">> /\ H = {"physical", "engine", "routes", "dns"}
    ELSE \/ n = 0 /\ L = <<>> /\ H = {}
         \/ n = 1 /\ L = <<>> /\ H = {"engine"}
         \/ n = 2 /\ L = <<"routes">> /\ H = {"engine", "routes"}

\* The types of the variables the books say nothing about, and what a cleanup error names.
Types ==
    /\ platform \in Platforms /\ state \in {"IDLE", "PREPARING", "CONNECTED", "STOPPING", "FAILED"}
    /\ done \in BOOLEAN /\ doneClosed \in BOOLEAN /\ coreCanceled \in BOOLEAN /\ locked \in BOOLEAN
    /\ cleanupErr \in BOOLEAN /\ runErr \in BOOLEAN /\ connectErr \in BOOLEAN
    /\ canceled \in BOOLEAN /\ linked \in BOOLEAN /\ netCanceled \in BOOLEAN /\ stopping \in BOOLEAN
    /\ runPc \in {"none", "begin", "acquire", "maintain", "cleanup", "finish", "close", "ended"}
    /\ acquired \in 0..Len(platform.acquire) /\ initResult \in {"empty", "ok", "error", "taken"}
    /\ connectPc \in {"start", "select", "publish", "stopFailed", "stopCanceled",
                      "waitFailed", "waitCanceled", "returned"}
    /\ preparePc \in {"wait", "canceled", "settled", "check", "returned"}
    /\ prepared \in {"acquiring", "ready", "failed", "released"}
    /\ disconnect \in [Callers -> {"idle", "begin", "close", "wait", "idle?", "ok", "failed", "done"}]
    /\ cleanupErr /\ ~locked /\ runPc # "cleanup" => cleanup # <<>>

Books == BooksOf(platform, leases, cleanup, held)
Over == runPc \in {"close", "ended"} \* the run goroutine no longer touches anything

\* The run goroutine: what it owns at each place, and what its errors mean.
RunPlaces ==
    /\ done <=> runPc \in {"begin", "acquire", "maintain", "cleanup", "finish"}
    /\ doneClosed <=> runPc = "ended"
    /\ runPc \in {"none", "begin"} => acquired = 0 /\ cleanup = <<>> /\ leases = <<>> /\ held = {}
    /\ runPc \in {"acquire", "maintain"} => cleanup = platform.cleanup /\ StageOf(platform, acquired, leases, held)
    /\ runPc = "maintain" => acquired = Len(platform.acquire)
    /\ runPc \in {"finish", "close", "ended"} /\ (~runErr \/ ~cleanupErr) => cleanup = <<>>

\* Connect: its result tells of a run that goes on until somebody cancels it.
ConnectPlaces ==
    /\ runPc = "none" <=> connectPc = "start"
    /\ runPc = "none" => state = "IDLE" /\ ~coreCanceled
    /\ runPc \in {"none", "begin", "acquire"} => initResult = "empty" /\ connectPc # "publish"
    /\ (initResult = "ok" \/ connectPc = "publish") /\ ~RunCanceled => runPc = "maintain"
    /\ connectPc = "returned" /\ ~connectErr /\ ~RunCanceled => runPc = "maintain"
    /\ state = "IDLE" /\ runPc # "none" => Over /\ cleanup = <<>>

\* Disconnect: it only closes what the run has left, and success means that nothing is left.
DisconnectPlaces ==
    /\ locked <=> disconnect["prepare"] = "close" \/ disconnect["stop"] = "close"
    /\ locked => Over
    /\ \A c \in Callers : disconnect[c] = "idle?" => runPc = "ended" /\ cleanup = <<>>
    /\ disconnect["stop"] = "ok" => Over /\ cleanup = <<>>
    /\ disconnect["stop"] # "done"
    /\ disconnect["stop"] # "idle" => disconnect["prepare"] \in {"idle", "done"}

\* PrepareNetwork and Stop.
OwnerPlaces ==
    /\ stopping <=> disconnect["stop"] # "idle"
    /\ stopping => prepared \in {"ready", "failed"}
    /\ prepared = "acquiring" <=> preparePc # "returned"
    /\ preparePc = "wait" => disconnect["prepare"] = "idle"
    /\ preparePc = "canceled" => disconnect["prepare"] \notin {"idle", "done"}
    /\ preparePc \in {"settled", "check", "returned"} => connectPc = "returned" /\ disconnect["prepare"] \in {"idle", "done"}
    /\ prepared = "released" => Over /\ cleanup = <<>>
    /\ prepared \in {"acquiring", "ready"} /\ ~stopping /\ disconnect["prepare"] = "idle" /\ coreCanceled
          => connectPc \in {"waitFailed", "waitCanceled"} \/ (connectPc = "returned" /\ connectErr)
    /\ netCanceled /\ prepared \in {"acquiring", "ready"} => canceled
    /\ preparePc \in {"check", "returned"} /\ linked => canceled
    /\ prepared = "ready" => ~canceled /\ ~connectErr /\ disconnect["prepare"] = "idle"

\* The inductive invariant.
OwnerInv == Types /\ Books /\ RunPlaces /\ ConnectPlaces /\ DisconnectPlaces /\ OwnerPlaces

-----------------------------------------------------------------------------
(* Lists *)

\* What the operations on a list of one, two or three entries make of it.
One(a) ==
    /\ <<a>> # <<>> /\ Append(<<>>, a) = <<a>> /\ Last(<<a>>) = a /\ Front(<<a>>) = <<>>
    /\ Head(<<a>>) = a /\ Tail(<<a>>) = <<>> /\ ToSet(<<a>>) = {a}
Two(a, b) ==
    /\ <<a, b>> # <<>> /\ Append(<<a>>, b) = <<a, b>> /\ Last(<<a, b>>) = b /\ Front(<<a, b>>) = <<a>>
    /\ Head(<<a, b>>) = a /\ Tail(<<a, b>>) = <<b>> /\ ToSet(<<a, b>>) = {a, b} /\ <<a, b>> # <<a>>
Three(a, b, c) ==
    /\ <<a, b, c>> # <<>> /\ Append(<<a, b>>, c) = <<a, b, c>> /\ Last(<<a, b, c>>) = c
    /\ Front(<<a, b, c>>) = <<a, b>> /\ Head(<<a, b, c>>) = a /\ Tail(<<a, b, c>>) = <<b, c>>
    /\ ToSet(<<a, b, c>>) = {a, b, c} /\ <<a, b, c>> # <<a, b>> /\ <<a, b, c>> # <<a>>

\* The lists of one.
LEMMA Ones == ASSUME NEW a PROVE One(a)
<1>1. Len(<<a>>) = 1 /\ Len(<<>>) = 0 OBVIOUS
<1>2. <<a>> # <<>> BY <1>1
<1>3. Append(<<>>, a) = <<a>> /\ Head(<<a>>) = a /\ Tail(<<a>>) = <<>> OBVIOUS
<1>4. Last(<<a>>) = a BY <1>1 DEF Last
<1>5. Front(<<a>>) = <<>> BY <1>1 DEF Front
<1>6. ToSet(<<a>>) = {a} BY DEF ToSet
<1> QED BY <1>2, <1>3, <1>4, <1>5, <1>6 DEF One

\* The lists of two.
LEMMA Twos == ASSUME NEW a, NEW b PROVE Two(a, b)
<1>1. Len(<<a, b>>) = 2 /\ Len(<<a>>) = 1 /\ Len(<<b>>) = 1 /\ Len(<<>>) = 0 OBVIOUS
<1>2. <<a, b>> # <<>> /\ <<a, b>> # <<a>> BY <1>1
<1>3. <<a>> \in Seq({a, b}) /\ <<b>> \in Seq({a, b}) /\ <<a, b>> \in Seq({a, b}) OBVIOUS
<1>4. Append(<<a>>, b) = <<a, b>>
  <2> DEFINE s == Append(<<a>>, b)
  <2>1. s \in Seq({a, b}) /\ Len(s) = 2 /\ s[1] = a /\ s[2] = b BY <1>1, <1>3
  <2>2. \A i \in 1..2 : s[i] = <<a, b>>[i] BY <2>1
  <2> HIDE DEF s
  <2>3. s = <<a, b>> BY <1>1, <1>3, <2>1, <2>2, SeqEqual
  <2> QED BY <2>3 DEF s
<1>5. Last(<<a, b>>) = b /\ Head(<<a, b>>) = a BY <1>1 DEF Last
<1>6. Front(<<a, b>>) = <<a>>
  <2> DEFINE s == SubSeq(<<a, b>>, 1, 1)
  <2>1. s \in Seq({a, b}) /\ Len(s) = 1 /\ s[1] = a BY <1>1, <1>3
  <2>2. \A i \in 1..1 : s[i] = <<a>>[i] BY <2>1
  <2> HIDE DEF s
  <2>3. s = <<a>> BY <1>1, <1>3, <2>1, <2>2, SeqEqual
  <2> QED BY <1>1, <2>3 DEF Front, s
<1>7. Tail(<<a, b>>) = <<b>>
  <2> DEFINE s == Tail(<<a, b>>)
  <2>1. s \in Seq({a, b}) /\ Len(s) = 1 /\ s[1] = b BY <1>1, <1>2, <1>3
  <2>2. \A i \in 1..1 : s[i] = <<b>>[i] BY <2>1
  <2> HIDE DEF s
  <2>3. s = <<b>> BY <1>1, <1>3, <2>1, <2>2, SeqEqual
  <2> QED BY <2>3 DEF s
<1>8. ToSet(<<a, b>>) = {a, b}
  <2>1. DOMAIN <<a, b>> = {1, 2} OBVIOUS
  <2> QED BY <2>1 DEF ToSet
<1> QED BY <1>2, <1>4, <1>5, <1>6, <1>7, <1>8 DEF Two

\* The lists of three.
LEMMA Threes == ASSUME NEW a, NEW b, NEW c PROVE Three(a, b, c)
<1>1. /\ Len(<<a, b, c>>) = 3 /\ Len(<<a, b>>) = 2 /\ Len(<<b, c>>) = 2 /\ Len(<<a>>) = 1 /\ Len(<<>>) = 0
  OBVIOUS
<1>2. <<a, b, c>> # <<>> /\ <<a, b, c>> # <<a, b>> /\ <<a, b, c>> # <<a>> BY <1>1
<1>3. <<a, b>> \in Seq({a, b, c}) /\ <<b, c>> \in Seq({a, b, c}) /\ <<a, b, c>> \in Seq({a, b, c}) OBVIOUS
<1>4. Append(<<a, b>>, c) = <<a, b, c>>
  <2> DEFINE s == Append(<<a, b>>, c)
  <2>1. s \in Seq({a, b, c}) /\ Len(s) = 3 /\ s[1] = a /\ s[2] = b /\ s[3] = c BY <1>1, <1>3
  <2>2. \A i \in 1..3 : s[i] = <<a, b, c>>[i] BY <2>1
  <2> HIDE DEF s
  <2>3. s = <<a, b, c>> BY <1>1, <1>3, <2>1, <2>2, SeqEqual
  <2> QED BY <2>3 DEF s
<1>5. Last(<<a, b, c>>) = c /\ Head(<<a, b, c>>) = a BY <1>1 DEF Last
<1>6. Front(<<a, b, c>>) = <<a, b>>
  <2> DEFINE s == SubSeq(<<a, b, c>>, 1, 2)
  <2>1. s \in Seq({a, b, c}) /\ Len(s) = 2 /\ s[1] = a /\ s[2] = b BY <1>1, <1>3
  <2>2. \A i \in 1..2 : s[i] = <<a, b>>[i] BY <2>1
  <2> HIDE DEF s
  <2>3. s = <<a, b>> BY <1>1, <1>3, <2>1, <2>2, SeqEqual
  <2> QED BY <1>1, <2>3 DEF Front, s
<1>7. Tail(<<a, b, c>>) = <<b, c>>
  <2> DEFINE s == Tail(<<a, b, c>>)
  <2>1. s \in Seq({a, b, c}) /\ Len(s) = 2 /\ s[1] = b /\ s[2] = c BY <1>1, <1>2, <1>3
  <2>2. \A i \in 1..2 : s[i] = <<b, c>>[i] BY <2>1
  <2> HIDE DEF s
  <2>3. s = <<b, c>> BY <1>1, <1>3, <2>1, <2>2, SeqEqual
  <2> QED BY <2>3 DEF s
<1>8. ToSet(<<a, b, c>>) = {a, b, c}
  <2>1. DOMAIN <<a, b, c>> = {1, 2, 3} OBVIOUS
  <2> QED BY <2>1 DEF ToSet
<1> QED BY <1>2, <1>4, <1>5, <1>6, <1>7, <1>8 DEF Three

\* The cleanup lists: what comes first, and what is left then.
LEMMA CleanupLists ==
    /\ Three("engine", "plan", "tun") /\ Two("plan", "tun") /\ One("tun")
    /\ Two("plan", "engine") /\ One("engine") /\ ToSet(<<>>) = {}
    /\ <<"engine", "plan", "tun">> \in Seq({"plan", "engine", "tun"})
    /\ <<"plan", "tun">> \in Seq({"plan", "engine", "tun"}) /\ <<"tun">> \in Seq({"plan", "engine", "tun"})
    /\ <<"plan", "engine">> \in Seq({"plan", "engine", "tun"}) /\ <<"engine">> \in Seq({"plan", "engine", "tun"})
    /\ <<>> \in Seq({"plan", "engine", "tun"})
<1>1. ToSet(<<>>) = {} BY DEF ToSet
<1>2. /\ <<"engine", "plan", "tun">> \in Seq({"plan", "engine", "tun"})
      /\ <<"plan", "tun">> \in Seq({"plan", "engine", "tun"}) /\ <<"tun">> \in Seq({"plan", "engine", "tun"})
      /\ <<"plan", "engine">> \in Seq({"plan", "engine", "tun"}) /\ <<"engine">> \in Seq({"plan", "engine", "tun"})
      /\ <<>> \in Seq({"plan", "engine", "tun"})
  OBVIOUS
<1>3. Three("engine", "plan", "tun") BY Threes
<1>4. Two("plan", "tun") /\ Two("plan", "engine") BY Twos
<1>5. One("tun") /\ One("engine") BY Ones
<1> QED BY <1>1, <1>2, <1>3, <1>4, <1>5

\* The lists of routing leases.
LEMMA LeaseLists ==
    /\ One("guard") /\ Two("guard", "rules") /\ Three("guard", "rules", "dns")
    /\ One("physical") /\ Two("physical", "routes") /\ Three("physical", "routes", "dns")
    /\ One("routes") /\ ToSet(<<>>) = {}
<1>1. One("guard") /\ One("physical") /\ One("routes") BY Ones
<1>2. Two("guard", "rules") /\ Two("physical", "routes") BY Twos
<1>3. Three("guard", "rules", "dns") /\ Three("physical", "routes", "dns") BY Threes
<1> QED BY <1>1, <1>2, <1>3 DEF ToSet

\* The three platforms.
LEMMA PlatformFacts ==
    /\ Linux # MacOS /\ Linux # Windows /\ MacOS # Windows
    /\ Linux.plan = {"guard", "rules", "dns"} /\ Linux.cleanup = <<"engine", "plan", "tun">>
    /\ MacOS.plan = {"physical", "routes", "dns"} /\ MacOS.cleanup = <<"plan", "engine">>
    /\ Windows.plan = {"routes"} /\ Windows.cleanup = <<"plan", "engine">>
    /\ Len(Linux.acquire) = 5 /\ Linux.acquire[1] = "guard" /\ Linux.acquire[2] = "tun"
    /\ Linux.acquire[3] = "engine" /\ Linux.acquire[4] = "rules" /\ Linux.acquire[5] = "dns"
    /\ Len(MacOS.acquire) = 4 /\ MacOS.acquire[1] = "physical" /\ MacOS.acquire[2] = "engine"
    /\ MacOS.acquire[3] = "routes" /\ MacOS.acquire[4] = "dns"
    /\ Len(Windows.acquire) = 2 /\ Windows.acquire[1] = "engine" /\ Windows.acquire[2] = "routes"
    /\ ToSet(Linux.acquire) = {"guard", "tun", "engine", "rules", "dns"}
    /\ ToSet(MacOS.acquire) = {"physical", "engine", "routes", "dns"}
    /\ ToSet(Windows.acquire) = {"engine", "routes"}
<1>1. /\ Linux.plan = {"guard", "rules", "dns"} /\ Linux.cleanup = <<"engine", "plan", "tun">>
      /\ Linux.acquire = <<"guard", "tun", "engine", "rules", "dns">>
  BY DEF Linux
<1>2. /\ MacOS.plan = {"physical", "routes", "dns"} /\ MacOS.cleanup = <<"plan", "engine">>
      /\ MacOS.acquire = <<"physical", "engine", "routes", "dns">>
  BY DEF MacOS
<1>3. /\ Windows.plan = {"routes"} /\ Windows.cleanup = <<"plan", "engine">>
      /\ Windows.acquire = <<"engine", "routes">>
  BY DEF Windows
<1>4. Linux # MacOS /\ Linux # Windows /\ MacOS # Windows BY <1>1, <1>2, <1>3
<1>5. /\ Len(Linux.acquire) = 5 /\ Linux.acquire[1] = "guard" /\ Linux.acquire[2] = "tun"
      /\ Linux.acquire[3] = "engine" /\ Linux.acquire[4] = "rules" /\ Linux.acquire[5] = "dns"
      /\ DOMAIN Linux.acquire = {1, 2, 3, 4, 5}
  BY <1>1
<1>6. /\ Len(MacOS.acquire) = 4 /\ MacOS.acquire[1] = "physical" /\ MacOS.acquire[2] = "engine"
      /\ MacOS.acquire[3] = "routes" /\ MacOS.acquire[4] = "dns" /\ DOMAIN MacOS.acquire = {1, 2, 3, 4}
  BY <1>2
<1>7. /\ Len(Windows.acquire) = 2 /\ Windows.acquire[1] = "engine" /\ Windows.acquire[2] = "routes"
      /\ DOMAIN Windows.acquire = {1, 2}
  BY <1>3
<1>8. ToSet(Linux.acquire) = {"guard", "tun", "engine", "rules", "dns"} BY <1>5 DEF ToSet
<1>9. ToSet(MacOS.acquire) = {"physical", "engine", "routes", "dns"} BY <1>6 DEF ToSet
<1>10. ToSet(Windows.acquire) = {"engine", "routes"} BY <1>7 DEF ToSet
<1> QED BY <1>1, <1>2, <1>3, <1>4, <1>5, <1>6, <1>7, <1>8, <1>9, <1>10

-----------------------------------------------------------------------------
(* The books *)

\* What the books give: nothing is forgotten, users go first, and an empty cleanup list
\* means that nothing exists.
LEMMA BooksGive ==
    ASSUME NEW P \in Platforms, NEW L, NEW C, NEW H, BooksOf(P, L, C, H)
    PROVE  /\ C \in Seq({"plan", "engine", "tun"}) /\ L \in Seq(P.plan) /\ H \subseteq ToSet(P.acquire)
           /\ \A r \in H : r \in ToSet(C) \/ (r \in ToSet(L) /\ "plan" \in ToSet(C))
           /\ C = <<>> => H = {}
           /\ "rules" \in H => {"guard", "tun"} \subseteq H
           /\ "routes" \in H => "engine" \in H
           /\ "routes" \in H /\ P = MacOS => "physical" \in H
           /\ "dns" \in H => H \cap {"rules", "routes"} # {}
           /\ "engine" \in H /\ P = Linux => "tun" \in H
<1>1. C \in Seq({"plan", "engine", "tun"}) BY CleanupLists DEF BooksOf, Cleanups
<1>2. \A r \in H : r \in ToSet(C) \/ (r \in ToSet(L) /\ "plan" \in ToSet(C))
  <2>1. ASSUME NEW r \in H, r \in P.plan PROVE r \in ToSet(L) /\ "plan" \in ToSet(C)
    <3>1. r \in ToSet(L) BY <2>1 DEF BooksOf
    <3>2. L # <<>> BY <3>1, LeaseLists
    <3> QED BY <3>1, <3>2 DEF BooksOf
  <2> QED BY <2>1 DEF BooksOf
<1>3. C = <<>> => H = {} BY <1>2, CleanupLists
<1>4. CASE P = Linux
  <2>1. /\ L \in {<<>>, <<"guard">>, <<"guard", "rules">>, <<"guard", "rules", "dns">>}
        /\ P.plan = {"guard", "rules", "dns"} /\ H \subseteq {"guard", "tun", "engine", "rules", "dns"}
    BY <1>4, PlatformFacts DEF BooksOf, Leases
  <2>2. L \in Seq(P.plan)
    <3>1. /\ <<>> \in Seq({"guard", "rules", "dns"})
          /\ <<"guard">> \in Seq({"guard", "rules", "dns"})
          /\ <<"guard", "rules">> \in Seq({"guard", "rules", "dns"})
          /\ <<"guard", "rules", "dns">> \in Seq({"guard", "rules", "dns"})
      OBVIOUS
    <3> QED BY <2>1, <3>1
  <2>3. \A r \in {"guard", "rules", "dns"} : r \in H <=> r \in ToSet(L) BY <2>1 DEF BooksOf
  <2>4. ("rules" \in ToSet(L) => "guard" \in ToSet(L)) /\ ("dns" \in ToSet(L) => "rules" \in ToSet(L))
    BY <2>1, LeaseLists DEF One, Two, Three
  <2>5. "rules" \in H \/ "engine" \in H => "tun" \in H BY <1>4 DEF BooksOf
  <2> QED BY <1>1, <1>2, <1>3, <1>4, <2>1, <2>2, <2>3, <2>4, <2>5, PlatformFacts
<1>5. CASE P = MacOS
  <2>1. /\ L \in {<<>>, <<"physical">>, <<"physical", "routes">>, <<"physical", "routes", "dns">>}
        /\ P.plan = {"physical", "routes", "dns"} /\ H \subseteq {"physical", "engine", "routes", "dns"}
    BY <1>5, PlatformFacts DEF BooksOf, Leases
  <2>2. L \in Seq(P.plan)
    <3>1. /\ <<>> \in Seq({"physical", "routes", "dns"})
          /\ <<"physical">> \in Seq({"physical", "routes", "dns"})
          /\ <<"physical", "routes">> \in Seq({"physical", "routes", "dns"})
          /\ <<"physical", "routes", "dns">> \in Seq({"physical", "routes", "dns"})
      OBVIOUS
    <3> QED BY <2>1, <3>1
  <2>3. \A r \in {"physical", "routes", "dns"} : r \in H <=> r \in ToSet(L) BY <2>1 DEF BooksOf
  <2>4. ("routes" \in ToSet(L) => "physical" \in ToSet(L)) /\ ("dns" \in ToSet(L) => "routes" \in ToSet(L))
    BY <2>1, LeaseLists DEF One, Two, Three
  <2>5. "routes" \in H => "engine" \in H BY <1>5, PlatformFacts DEF BooksOf
  <2> QED BY <1>1, <1>2, <1>3, <1>5, <2>1, <2>2, <2>3, <2>4, <2>5, PlatformFacts
<1>6. CASE P = Windows
  <2>1. L \in {<<>>, <<"routes">>} /\ P.plan = {"routes"} /\ H \subseteq {"engine", "routes"}
    BY <1>6, PlatformFacts DEF BooksOf, Leases
  <2>2. L \in Seq(P.plan)
    <3>1. /\ <<>> \in Seq({"routes"})
          /\ <<"routes">> \in Seq({"routes"})
      OBVIOUS
    <3> QED BY <2>1, <3>1
  <2>3. "routes" \in H => "engine" \in H BY <1>6, PlatformFacts DEF BooksOf
  <2> QED BY <1>1, <1>2, <1>3, <1>6, <2>1, <2>2, <2>3, PlatformFacts
<1> QED BY <1>4, <1>5, <1>6 DEF Platforms

\* The last lease is released, while the plan's entry is the first one.
LEMMA BooksCloseLease ==
    ASSUME NEW P \in Platforms, NEW L, NEW C, NEW H, BooksOf(P, L, C, H), C # <<>>, Head(C) = "plan", L # <<>>
    PROVE  BooksOf(P, Front(L), C, H \ {Last(L)})
<1>1. "plan" \in ToSet(C) BY DEF BooksOf
<1>2. CASE P = Linux
  <2>1. L \in {<<"guard">>, <<"guard", "rules">>, <<"guard", "rules", "dns">>} BY <1>2 DEF BooksOf, Leases
  <2>2. /\ Front(L) \in {<<>>, <<"guard">>, <<"guard", "rules">>}
        /\ \A r \in {"guard", "rules", "dns"} : r \in ToSet(Front(L)) <=> r \in ToSet(L) /\ r # Last(L)
        /\ Last(L) \in {"guard", "rules", "dns"}
    BY <2>1, LeaseLists DEF One, Two, Three
  <2> QED BY <1>1, <1>2, <2>2, PlatformFacts DEF BooksOf, Leases
<1>3. CASE P = MacOS
  <2>1. L \in {<<"physical">>, <<"physical", "routes">>, <<"physical", "routes", "dns">>}
    BY <1>3, PlatformFacts DEF BooksOf, Leases
  <2>2. /\ Front(L) \in {<<>>, <<"physical">>, <<"physical", "routes">>}
        /\ \A r \in {"physical", "routes", "dns"} : r \in ToSet(Front(L)) <=> r \in ToSet(L) /\ r # Last(L)
        /\ Last(L) \in {"physical", "routes", "dns"}
    BY <2>1, LeaseLists DEF One, Two, Three
  <2> QED BY <1>1, <1>3, <2>2, PlatformFacts DEF BooksOf, Leases
<1>4. CASE P = Windows
  <2>1. L = <<"routes">> BY <1>4, PlatformFacts DEF BooksOf, Leases
  <2>2. Front(L) = <<>> /\ Last(L) = "routes" /\ ToSet(<<>>) = {} BY <2>1, LeaseLists DEF One
  <2> QED BY <1>1, <1>4, <2>2, PlatformFacts DEF BooksOf, Leases
<1> QED BY <1>2, <1>3, <1>4 DEF Platforms

\* The first entry is released; the plan's when it has no lease left.
LEMMA BooksCloseEntry ==
    ASSUME NEW P \in Platforms, NEW L, NEW C, NEW H, BooksOf(P, L, C, H), C # <<>>,
           Head(C) = "plan" => L = <<>>
    PROVE  BooksOf(P, L, Tail(C), H \ {Head(C)})
<1>1. CASE P = Linux
  <2>1. /\ C \in {<<"engine", "plan", "tun">>, <<"plan", "tun">>, <<"tun">>}
        /\ H \subseteq {"guard", "tun", "engine", "rules", "dns"} /\ P.plan = {"guard", "rules", "dns"}
    BY <1>1, PlatformFacts DEF BooksOf, Cleanups
  <2>2. /\ Tail(C) \in {<<"plan", "tun">>, <<"tun">>, <<>>}
        /\ \A r : r \in ToSet(Tail(C)) <=> r \in ToSet(C) /\ r # Head(C)
        /\ Head(C) \in {"engine", "plan", "tun"}
        /\ Head(C) = "tun" => ToSet(C) = {"tun"}
        /\ Head(C) = "plan" => ToSet(C) = {"plan", "tun"}
        /\ Head(C) = "engine" => ToSet(C) = {"engine", "plan", "tun"}
    BY <2>1, CleanupLists DEF One, Two, Three
  <2>3. L # <<>> => "plan" \in ToSet(Tail(C)) BY <2>2 DEF BooksOf
  <2>4. Head(C) = "tun" => "rules" \notin H /\ "engine" \notin H
    <3>1. Head(C) = "tun" => "plan" \notin ToSet(C) /\ "engine" \notin ToSet(C) BY <2>2
    <3>2. Head(C) = "tun" => L = <<>> BY <3>1 DEF BooksOf
    <3>3. Head(C) = "tun" => "rules" \notin H BY <2>1, <3>2, LeaseLists DEF BooksOf
    <3>4. Head(C) = "tun" => "engine" \notin H BY <2>1, <3>1 DEF BooksOf
    <3> QED BY <3>3, <3>4
  <2>5. \A r \in P.plan : r # Head(C) BY <2>1, <2>2
  <2> QED BY <1>1, <2>1, <2>2, <2>3, <2>4, <2>5 DEF BooksOf, Cleanups
<1>2. CASE P # Linux
  <2>1. /\ C \in {<<"plan", "engine">>, <<"engine">>} BY <1>2 DEF BooksOf, Cleanups
  <2>2. /\ Tail(C) \in {<<"engine">>, <<>>}
        /\ \A r : r \in ToSet(Tail(C)) <=> r \in ToSet(C) /\ r # Head(C)
        /\ Head(C) \in {"engine", "plan"}
        /\ Head(C) = "engine" => ToSet(C) = {"engine"}
    BY <2>1, CleanupLists DEF One, Two
  <2>3. L # <<>> => "plan" \in ToSet(Tail(C)) BY <2>2 DEF BooksOf
  <2>4. P.plan \in {{"physical", "routes", "dns"}, {"routes"}} BY <1>2, PlatformFacts DEF Platforms
  <2>5. Head(C) = "engine" => "routes" \notin H
    <3>1. Head(C) = "engine" => L = <<>> BY <2>2 DEF BooksOf
    <3> QED BY <2>4, <3>1, LeaseLists DEF BooksOf
  <2>6. \A r \in P.plan : r # Head(C) BY <2>2, <2>4
  <2> QED BY <1>2, <2>2, <2>3, <2>5, <2>6 DEF BooksOf, Cleanups
<1> QED BY <1>1, <1>2

\* The books of a run that acquires: everything is recorded.
LEMMA BooksOfStage ==
    ASSUME NEW P \in Platforms, NEW n, NEW L, NEW H, StageOf(P, n, L, H)
    PROVE  /\ BooksOf(P, L, P.cleanup, H) /\ n \in 0..Len(P.acquire)
           /\ n = Len(P.acquire) => H = ToSet(P.acquire)
<1>1. CASE P = Linux
  <2>1. ToSet(P.cleanup) = {"engine", "plan", "tun"} /\ P.cleanup = <<"engine", "plan", "tun">>
    BY <1>1, PlatformFacts, CleanupLists DEF Three
  <2>2. L \in Leases(P) BY <1>1 DEF StageOf, Leases
  <2>3. \A r \in {"guard", "rules", "dns"} : r \in H <=> r \in ToSet(L)
    BY <1>1, LeaseLists DEF StageOf, One, Two, Three
  <2>4. n \in 0..5 /\ (n = 5 => H = {"guard", "tun", "engine", "rules", "dns"}) BY <1>1 DEF StageOf
  <2>5. H \subseteq {"guard", "tun", "engine", "rules", "dns"} /\ ("rules" \in H \/ "engine" \in H => "tun" \in H)
    BY <1>1 DEF StageOf
  <2> QED BY <1>1, <2>1, <2>2, <2>3, <2>4, <2>5, PlatformFacts DEF BooksOf, Cleanups
<1>2. CASE P = MacOS
  <2>0. P # Linux BY <1>2, PlatformFacts
  <2>1. ToSet(P.cleanup) = {"plan", "engine"} /\ P.cleanup = <<"plan", "engine">>
    BY <1>2, PlatformFacts, CleanupLists DEF Two
  <2>2. L \in Leases(P) BY <1>2, <2>0 DEF StageOf, Leases
  <2>3. \A r \in {"physical", "routes", "dns"} : r \in H <=> r \in ToSet(L)
    BY <1>2, <2>0, LeaseLists DEF StageOf, One, Two, Three
  <2>4. n \in 0..4 /\ (n = 4 => H = {"physical", "engine", "routes", "dns"}) BY <1>2, <2>0 DEF StageOf
  <2>5. H \subseteq {"physical", "engine", "routes", "dns"} /\ ("routes" \in H => "engine" \in H)
    BY <1>2, <2>0 DEF StageOf
  <2> QED BY <1>2, <2>0, <2>1, <2>2, <2>3, <2>4, <2>5, PlatformFacts DEF BooksOf, Cleanups
<1>3. CASE P = Windows
  <2>0. P # Linux /\ P # MacOS BY <1>3, PlatformFacts
  <2>1. ToSet(P.cleanup) = {"plan", "engine"} /\ P.cleanup = <<"plan", "engine">>
    BY <1>3, PlatformFacts, CleanupLists DEF Two
  <2>2. L \in Leases(P) BY <2>0 DEF StageOf, Leases
  <2>3. "routes" \in H <=> "routes" \in ToSet(L) BY <2>0, LeaseLists DEF StageOf, One
  <2>4. n \in 0..2 /\ (n = 2 => H = {"engine", "routes"}) BY <2>0 DEF StageOf
  <2>5. H \subseteq {"engine", "routes"} /\ ("routes" \in H => "engine" \in H) BY <2>0 DEF StageOf
  <2> QED BY <1>3, <2>0, <2>1, <2>2, <2>3, <2>4, <2>5, PlatformFacts DEF BooksOf, Cleanups
<1> QED BY <1>1, <1>2, <1>3 DEF Platforms

\* The next resource is acquired.
LEMMA NextStage ==
    ASSUME NEW P \in Platforms, NEW n, NEW L, NEW H, StageOf(P, n, L, H), n < Len(P.acquire),
           NEW r, r = P.acquire[n + 1]
    PROVE  StageOf(P, n + 1, IF r \in P.plan THEN Append(L, r) ELSE L, H \cup {r})
<1>1. CASE P = Linux
  <2>1. CASE n = 0 /\ L = <<>> /\ H = {} BY <1>1, <2>1, PlatformFacts, LeaseLists DEF StageOf, One
  <2>2. CASE n = 1 /\ L = <<"guard">> /\ H = {"guard"} BY <1>1, <2>2, PlatformFacts DEF StageOf
  <2>3. CASE n = 2 /\ L = <<"guard">> /\ H = {"guard", "tun"} BY <1>1, <2>3, PlatformFacts DEF StageOf
  <2>4. CASE n = 3 /\ L = <<"guard">> /\ H = {"guard", "tun", "engine"}
    BY <1>1, <2>4, PlatformFacts, LeaseLists DEF StageOf, Two
  <2>5. CASE n = 4 /\ L = <<"guard", "rules">> /\ H = {"guard", "tun", "engine", "rules"}
    BY <1>1, <2>5, PlatformFacts, LeaseLists DEF StageOf, Three
  <2> QED BY <1>1, <2>1, <2>2, <2>3, <2>4, <2>5, PlatformFacts DEF StageOf
<1>2. CASE P = MacOS
  <2>0. P # Linux BY <1>2, PlatformFacts
  <2>1. CASE n = 0 /\ L = <<>> /\ H = {} BY <1>2, <2>0, <2>1, PlatformFacts, LeaseLists DEF StageOf, One
  <2>2. CASE n = 1 /\ L = <<"physical">> /\ H = {"physical"} BY <1>2, <2>0, <2>2, PlatformFacts DEF StageOf
  <2>3. CASE n = 2 /\ L = <<"physical">> /\ H = {"physical", "engine"}
    BY <1>2, <2>0, <2>3, PlatformFacts, LeaseLists DEF StageOf, Two
  <2>4. CASE n = 3 /\ L = <<"physical", "routes">> /\ H = {"physical", "engine", "routes"}
    BY <1>2, <2>0, <2>4, PlatformFacts, LeaseLists DEF StageOf, Three
  <2> QED BY <1>2, <2>0, <2>1, <2>2, <2>3, <2>4, PlatformFacts DEF StageOf
<1>3. CASE P = Windows
  <2>0. P # Linux /\ P # MacOS BY <1>3, PlatformFacts
  <2>1. CASE n = 0 /\ L = <<>> /\ H = {} BY <1>3, <2>0, <2>1, PlatformFacts DEF StageOf
  <2>2. CASE n = 1 /\ L = <<>> /\ H = {"engine"} BY <1>3, <2>0, <2>2, PlatformFacts, LeaseLists DEF StageOf, One
  <2> QED BY <1>3, <2>0, <2>1, <2>2, PlatformFacts DEF StageOf
<1> QED BY <1>1, <1>2, <1>3 DEF Platforms

-----------------------------------------------------------------------------
(* The run goroutine *)

\* What a step of the run goroutine inside App leaves alone.
OutsideRun ==
    /\ platform' = platform /\ state' = state /\ done' = done /\ coreCanceled' = coreCanceled
    /\ locked' = locked /\ connectPc' = connectPc /\ connectErr' = connectErr
    /\ canceled' = canceled /\ linked' = linked /\ netCanceled' = netCanceled
    /\ preparePc' = preparePc /\ prepared' = prepared /\ stopping' = stopping
    /\ disconnect' = disconnect /\ doneClosed' = doneClosed

\* App.Run's frame, variable by variable.
LEMMA RunFrameIs == ASSUME RunFrame PROVE OutsideRun
BY DEF RunFrame, OutsideRun, coreVars, connectVars, prepareVars

\* As long as the run goroutine works, nobody else closes and nobody was told that all is gone;
\* so its steps leave the books of Disconnect and of the owner alone.
LEMMA RunAlone ==
    ASSUME OwnerInv, OutsideRun, ~Over, runPc # "none", runPc' \notin {"none", "ended"}
    PROVE  DisconnectPlaces' /\ OwnerPlaces'
<1>1. runPc \notin {"close", "ended"} BY DEF Over
<1>2. ~locked /\ disconnect["stop"] # "ok" /\ prepared # "released" /\ \A c \in Callers : disconnect[c] # "idle?"
  BY <1>1 DEF OwnerInv, DisconnectPlaces, OwnerPlaces, Over
<1>3. DisconnectPlaces' BY <1>2 DEF OwnerInv, OutsideRun, DisconnectPlaces
<1>4. OwnerPlaces' BY <1>2 DEF OwnerInv, OutsideRun, OwnerPlaces
<1> QED BY <1>3, <1>4

\* Before setCleanup the run owns nothing; with it, cleanup knows all that will follow.
LEMMA RunBeginKeeps == ASSUME OwnerInv, RunBegin PROVE OwnerInv'
<1>1. /\ Types /\ Books /\ RunPlaces /\ ConnectPlaces BY DEF OwnerInv
<1>2. /\ runPc = "begin" /\ OutsideRun /\ acquired' = acquired /\ leases' = leases /\ held' = held
      /\ cleanupErr' = cleanupErr
      /\ \/ /\ runPc' = "cleanup" /\ runErr' = TRUE /\ cleanup' = cleanup
            /\ initResult' = IF initResult = "empty" THEN "error" ELSE initResult
         \/ /\ runPc' = "acquire" /\ runErr' = runErr /\ cleanup' = platform.cleanup /\ initResult' = initResult
  BY RunFrameIs DEF RunBegin, RunFail, SignalInit, appVars
<1>3. acquired = 0 /\ cleanup = <<>> /\ leases = <<>> /\ held = {} /\ initResult = "empty"
  BY <1>1, <1>2 DEF RunPlaces, ConnectPlaces
<1>4. platform \in Platforms BY <1>1 DEF Types
<1>5. StageOf(platform, 0, <<>>, {}) BY PlatformFacts DEF StageOf
<1>6. BooksOf(platform, leases, platform.cleanup, held) BY <1>3, <1>4, <1>5, BooksOfStage
<1>7. Books' BY <1>1, <1>2, <1>6 DEF Books, OutsideRun
<1>8. platform.cleanup # <<>> BY <1>4, PlatformFacts, CleanupLists DEF Platforms, Two, Three
<1>9. Types'
  <2>1. runPc' # "cleanup" => cleanup' # <<>> BY <1>2, <1>8
  <2>2. runPc' \in {"cleanup", "acquire"} /\ runErr' \in BOOLEAN /\ initResult' \in {"empty", "error"}
    BY <1>1, <1>2, <1>3 DEF Types
  <2> QED BY <1>1, <1>2, <2>1, <2>2 DEF Types, OutsideRun
<1>10. RunPlaces' BY <1>1, <1>2, <1>3, <1>5 DEF RunPlaces, OutsideRun
<1>11. ConnectPlaces' BY <1>1, <1>2, <1>3 DEF ConnectPlaces, OutsideRun, RunCanceled, Over
<1>12. DisconnectPlaces' /\ OwnerPlaces' BY <1>2, RunAlone DEF Over
<1> QED BY <1>7, <1>9, <1>10, <1>11, <1>12 DEF OwnerInv

\* A resource is acquired, or fails to be; what it left behind is recorded either way.
LEMMA RunAcquireKeeps == ASSUME OwnerInv, RunAcquire PROVE OwnerInv'
<1>1. /\ Types /\ Books /\ RunPlaces /\ ConnectPlaces BY DEF OwnerInv
<1>2. PICK exists, ok \in BOOLEAN :
        /\ ok => exists
        /\ held' = IF exists THEN held \cup {platform.acquire[acquired + 1]} ELSE held
        /\ leases' = IF Recorded(platform.acquire[acquired + 1], exists, ok)
                     THEN Append(leases, platform.acquire[acquired + 1]) ELSE leases
        /\ IF ok THEN acquired' = acquired + 1 /\ UNCHANGED <<runPc, runErr, initResult>> ELSE RunFail
        /\ UNCHANGED <<cleanup, cleanupErr>>
  BY DEF RunAcquire
<1>3. runPc = "acquire" /\ acquired < Len(platform.acquire) /\ OutsideRun BY RunFrameIs DEF RunAcquire
<1>4. /\ cleanup' = cleanup /\ cleanupErr' = cleanupErr
      /\ \/ /\ ok /\ exists /\ acquired' = acquired + 1 /\ runPc' = runPc /\ runErr' = runErr /\ initResult' = initResult
         \/ /\ acquired' = acquired /\ runPc' = "cleanup" /\ runErr' = TRUE
            /\ initResult' = IF initResult = "empty" THEN "error" ELSE initResult
  BY <1>2 DEF RunFail, SignalInit
<1>5. /\ platform \in Platforms /\ acquired \in 0..Len(platform.acquire) BY <1>1 DEF Types
<1>6. /\ cleanup = platform.cleanup /\ StageOf(platform, acquired, leases, held) /\ initResult = "empty"
  BY <1>1, <1>3 DEF RunPlaces, ConnectPlaces
<1> DEFINE r == platform.acquire[acquired + 1]
           L == IF r \in platform.plan THEN Append(leases, r) ELSE leases
<1>7. StageOf(platform, acquired + 1, L, held \cup {r}) BY <1>3, <1>5, <1>6, NextStage
<1>8. exists => leases' = L /\ held' = held \cup {r} BY <1>2 DEF Recorded
<1>9. ~exists => leases' = leases /\ held' = held BY <1>2 DEF Recorded
<1> HIDE DEF L, r
<1>10. BooksOf(platform, L, platform.cleanup, held \cup {r}) BY <1>5, <1>7, BooksOfStage
<1>11. Books' BY <1>1, <1>3, <1>4, <1>6, <1>8, <1>9, <1>10 DEF Books, OutsideRun
<1>12. Len(platform.acquire) \in Nat BY <1>5, PlatformFacts DEF Platforms
<1>13. Types'
  <2>1. acquired' \in 0..Len(platform.acquire) BY <1>3, <1>4, <1>5, <1>12
  <2>2. runPc' \in {"cleanup", "acquire"} /\ runErr' \in BOOLEAN /\ initResult' \in {"empty", "error"}
    BY <1>1, <1>3, <1>4, <1>6 DEF Types
  <2>3. cleanupErr' /\ ~locked' /\ runPc' # "cleanup" => cleanup' # <<>>
    BY <1>1, <1>3, <1>4 DEF Types, OutsideRun
  <2> QED BY <1>1, <1>3, <2>1, <2>2, <2>3, <1>4 DEF Types, OutsideRun
<1>14. runPc' = "acquire" => StageOf(platform, acquired', leases', held') BY <1>3, <1>4, <1>7, <1>8
<1>15. RunPlaces' BY <1>1, <1>3, <1>4, <1>14 DEF RunPlaces, OutsideRun
<1>16. ConnectPlaces' BY <1>1, <1>3, <1>4, <1>6 DEF ConnectPlaces, OutsideRun, RunCanceled, Over
<1>17. DisconnectPlaces' /\ OwnerPlaces' BY <1>3, <1>4, RunAlone DEF Over
<1> QED BY <1>11, <1>13, <1>15, <1>16, <1>17 DEF OwnerInv

\* Everything is acquired: the result says so and the maintenance loop begins.
LEMMA RunReadyKeeps == ASSUME OwnerInv, RunReady PROVE OwnerInv'
<1>1. /\ Types /\ Books /\ RunPlaces /\ ConnectPlaces BY DEF OwnerInv
<1>2. /\ runPc = "acquire" /\ acquired = Len(platform.acquire) /\ runPc' = "maintain" /\ OutsideRun
      /\ acquired' = acquired /\ runErr' = runErr /\ cleanup' = cleanup /\ cleanupErr' = cleanupErr
      /\ leases' = leases /\ held' = held /\ initResult' = IF initResult = "empty" THEN "ok" ELSE initResult
  BY RunFrameIs DEF RunReady, SignalInit, appVars
<1>3. Books' BY <1>1, <1>2 DEF Books, OutsideRun
<1>4. Types' BY <1>1, <1>2 DEF Types, OutsideRun
<1>5. RunPlaces' BY <1>1, <1>2 DEF RunPlaces, OutsideRun
<1>6. ConnectPlaces' BY <1>1, <1>2 DEF ConnectPlaces, OutsideRun, RunCanceled, Over
<1>7. DisconnectPlaces' /\ OwnerPlaces' BY <1>2, RunAlone DEF Over
<1> QED BY <1>3, <1>4, <1>5, <1>6, <1>7 DEF OwnerInv

\* The loop ends, and only with its context.
LEMMA RunCancelKeeps == ASSUME OwnerInv, RunCancel PROVE OwnerInv'
<1>1. /\ Types /\ Books /\ RunPlaces /\ ConnectPlaces BY DEF OwnerInv
<1>2. /\ runPc = "maintain" /\ (netCanceled \/ coreCanceled) /\ runPc' = "cleanup" /\ OutsideRun
      /\ acquired' = acquired /\ runErr' = runErr /\ cleanup' = cleanup /\ cleanupErr' = cleanupErr
      /\ leases' = leases /\ held' = held /\ initResult' = initResult
  BY RunFrameIs DEF RunCancel, RunCanceled, appVars
<1>3. Books' BY <1>1, <1>2 DEF Books, OutsideRun
<1>4. Types' BY <1>1, <1>2 DEF Types, OutsideRun
<1>5. RunPlaces' BY <1>1, <1>2 DEF RunPlaces, OutsideRun
<1>6. ConnectPlaces' BY <1>1, <1>2 DEF ConnectPlaces, OutsideRun, RunCanceled, Over
<1>7. DisconnectPlaces' /\ OwnerPlaces' BY <1>2, RunAlone DEF Over
<1> QED BY <1>3, <1>4, <1>5, <1>6, <1>7 DEF OwnerInv

\* Close goes on by a lease or by an entry; the books stay right.
LEMMA CloseKeepsBooks ==
    ASSUME Types, Books, platform' = platform, CloseLease \/ CloseEntry
    PROVE  Books' /\ cleanupErr' = cleanupErr
<1>1. platform \in Platforms BY DEF Types
<1>2. CASE CloseLease
  <2>1. /\ cleanup # <<>> /\ Head(cleanup) = "plan" /\ leases # <<>> /\ cleanup' = cleanup
        /\ leases' = Front(leases) /\ held' = held \ {Last(leases)} /\ cleanupErr' = cleanupErr
    BY <1>2 DEF CloseLease, CloseLast
  <2>2. BooksOf(platform, Front(leases), cleanup, held \ {Last(leases)})
    BY <1>1, <2>1, BooksCloseLease DEF Books
  <2> QED BY <2>1, <2>2 DEF Books
<1>3. CASE CloseEntry
  <2>1. /\ cleanup # <<>> /\ (Head(cleanup) = "plan" => leases = <<>>) /\ cleanup' = Tail(cleanup)
        /\ leases' = leases /\ held' = held \ {Head(cleanup)} /\ cleanupErr' = cleanupErr
    BY <1>3 DEF CloseEntry
  <2>2. BooksOf(platform, leases, Tail(cleanup), held \ {Head(cleanup)})
    BY <1>1, <2>1, BooksCloseEntry DEF Books
  <2> QED BY <2>1, <2>2 DEF Books
<1> QED BY <1>2, <1>3

\* The four outcomes of a step of Close: it goes on, it fails, or it is done.
LEMMA CloseOutcomes ==
    /\ CloseLease \/ CloseEntry => cleanup # <<>>
    /\ CloseFails => cleanup # <<>> /\ cleanupErr' = TRUE /\ cleanup' = cleanup /\ leases' = leases /\ held' = held
    /\ CloseDone => cleanup = <<>> /\ cleanupErr' = FALSE /\ cleanup' = cleanup /\ leases' = leases /\ held' = held
BY DEF CloseLease, CloseEntry, CloseFails, CloseDone

\* finishCleanup: an error is remembered by the run and by Close, or nothing is left.
LEMMA RunCleanupKeeps == ASSUME OwnerInv, RunCleanup PROVE OwnerInv'
<1>1. /\ Types /\ Books /\ RunPlaces /\ ConnectPlaces BY DEF OwnerInv
<1>2. /\ runPc = "cleanup" /\ OutsideRun /\ acquired' = acquired /\ initResult' = initResult
      /\ \/ (CloseLease \/ CloseEntry) /\ runPc' = "cleanup" /\ runErr' = runErr
         \/ CloseFails /\ runPc' = "finish" /\ runErr' = TRUE
         \/ CloseDone /\ runPc' = "finish" /\ runErr' = runErr
  BY RunFrameIs DEF RunCleanup
<1>3. platform' = platform BY <1>2 DEF OutsideRun
<1>4. Books'
  <2>1. CASE CloseLease \/ CloseEntry BY <1>1, <1>3, <2>1, CloseKeepsBooks
  <2>2. CASE CloseFails \/ CloseDone BY <1>1, <1>3, <2>2, CloseOutcomes DEF Books
  <2> QED BY <1>2, <2>1, <2>2
<1>5. /\ runPc' \in {"cleanup", "finish"} /\ runErr' \in BOOLEAN /\ cleanupErr' \in BOOLEAN
      /\ runPc' = "finish" => \/ runErr' /\ cleanupErr' /\ cleanup' # <<>>
                              \/ ~cleanupErr' /\ cleanup' = <<>>
  <2>1. CASE (CloseLease \/ CloseEntry) /\ runPc' = "cleanup" /\ runErr' = runErr
    BY <1>1, <1>3, <2>1, CloseKeepsBooks DEF Types
  <2>2. CASE CloseFails /\ runPc' = "finish" /\ runErr' = TRUE BY <2>2, CloseOutcomes
  <2>3. CASE CloseDone /\ runPc' = "finish" /\ runErr' = runErr BY <1>1, <2>3, CloseOutcomes DEF Types
  <2> QED BY <1>2, <2>1, <2>2, <2>3
<1>6. Types' BY <1>1, <1>2, <1>5 DEF Types, OutsideRun
<1>7. RunPlaces' BY <1>1, <1>2, <1>5 DEF RunPlaces, OutsideRun
<1>8. ConnectPlaces' BY <1>1, <1>2, <1>5 DEF ConnectPlaces, OutsideRun, RunCanceled, Over
<1>9. DisconnectPlaces' /\ OwnerPlaces' BY <1>2, <1>5, RunAlone DEF Over
<1> QED BY <1>4, <1>6, <1>7, <1>8, <1>9 DEF OwnerInv

\* What steps leave alone: in App, in the run goroutine, in PrepareNetwork and Stop.
AppSame == cleanup' = cleanup /\ cleanupErr' = cleanupErr /\ leases' = leases /\ held' = held
RunSame ==
    /\ runPc' = runPc /\ acquired' = acquired /\ runErr' = runErr /\ doneClosed' = doneClosed
OwnerSame ==
    /\ canceled' = canceled /\ linked' = linked /\ netCanceled' = netCanceled
    /\ preparePc' = preparePc /\ prepared' = prepared /\ stopping' = stopping

\* finishRun: the runtime is idle again only when nothing is left.
LEMMA FinishRunKeeps == ASSUME OwnerInv, FinishRun PROVE OwnerInv'
<1>1. Types /\ Books /\ RunPlaces /\ ConnectPlaces /\ DisconnectPlaces /\ OwnerPlaces BY DEF OwnerInv
<1>2. /\ runPc = "finish" /\ ~locked /\ done' = FALSE /\ runPc' = "close" /\ AppSame /\ OwnerSame
      /\ state' = IF state = "STOPPING" /\ ~runErr THEN "IDLE" ELSE "FAILED"
      /\ coreCanceled' = coreCanceled /\ platform' = platform /\ locked' = locked /\ acquired' = acquired
      /\ runErr' = runErr /\ doneClosed' = doneClosed /\ initResult' = initResult
      /\ connectPc' = connectPc /\ connectErr' = connectErr /\ disconnect' = disconnect
  BY DEF FinishRun, AppSame, OwnerSame, appVars, connectVars, prepareVars
<1>3. Books' BY <1>1, <1>2 DEF Books, AppSame
<1>4. Types'
  <2>1. state' \in {"IDLE", "FAILED"} BY <1>2
  <2>2. /\ runPc = "finish" /\ done' = FALSE /\ runPc' = "close" /\ AppSame /\ OwnerSame
        /\ coreCanceled' = coreCanceled /\ platform' = platform /\ locked' = locked /\ acquired' = acquired
        /\ runErr' = runErr /\ doneClosed' = doneClosed /\ initResult' = initResult
        /\ connectPc' = connectPc /\ connectErr' = connectErr /\ disconnect' = disconnect
    BY <1>2
  <2>3. cleanupErr' /\ ~locked' => cleanup' # <<>> BY <1>1, <2>2 DEF Types, AppSame
  <2>4. done' \in BOOLEAN BY <2>2
  <2> QED BY <1>1, <2>1, <2>2, <2>3, <2>4 DEF Types, AppSame, OwnerSame
<1>5. RunPlaces' BY <1>1, <1>2 DEF RunPlaces, AppSame
<1>6. state' = "IDLE" => cleanup' = <<>> BY <1>1, <1>2 DEF RunPlaces, AppSame
<1>7. ConnectPlaces' BY <1>1, <1>2, <1>6 DEF ConnectPlaces, AppSame, OwnerSame, RunCanceled, Over
<1>8. DisconnectPlaces' BY <1>1, <1>2 DEF DisconnectPlaces, AppSame, Over
<1>9. OwnerPlaces' BY <1>1, <1>2 DEF OwnerPlaces, AppSame, OwnerSame, Over
<1> QED BY <1>3, <1>4, <1>5, <1>7, <1>8, <1>9 DEF OwnerInv

\* close(done).
LEMMA RunCloseKeeps == ASSUME OwnerInv, RunClose PROVE OwnerInv'
<1>1. Types /\ Books /\ RunPlaces /\ ConnectPlaces /\ DisconnectPlaces /\ OwnerPlaces BY DEF OwnerInv
<1>2. /\ runPc = "close" /\ doneClosed' = TRUE /\ runPc' = "ended" /\ AppSame /\ OwnerSame
      /\ state' = state /\ done' = done /\ coreCanceled' = coreCanceled /\ platform' = platform
      /\ locked' = locked /\ acquired' = acquired /\ runErr' = runErr /\ initResult' = initResult
      /\ connectPc' = connectPc /\ connectErr' = connectErr /\ disconnect' = disconnect
  BY DEF RunClose, AppSame, OwnerSame, appVars, coreVars, connectVars, prepareVars
<1>3. Books' BY <1>1, <1>2 DEF Books, AppSame
<1>4. Types' BY <1>1, <1>2 DEF Types, AppSame, OwnerSame
<1>5. RunPlaces' BY <1>1, <1>2 DEF RunPlaces, AppSame
<1>6. ConnectPlaces' BY <1>1, <1>2 DEF ConnectPlaces, AppSame, OwnerSame, RunCanceled, Over
<1>7. DisconnectPlaces' BY <1>1, <1>2 DEF DisconnectPlaces, AppSame, Over
<1>8. OwnerPlaces' BY <1>1, <1>2 DEF OwnerPlaces, AppSame, OwnerSame, Over
<1> QED BY <1>3, <1>4, <1>5, <1>6, <1>7, <1>8 DEF OwnerInv

-----------------------------------------------------------------------------
(* Connect *)

\* What Connect leaves alone.
OutsideConnect ==
    /\ platform' = platform /\ locked' = locked /\ disconnect' = disconnect /\ AppSame /\ OwnerSame

\* Connect's frame, variable by variable.
LEMMA ConnectFrameIs == ASSUME ConnectFrame PROVE OutsideConnect
BY DEF ConnectFrame, OutsideConnect, AppSame, OwnerSame, appVars, prepareVars

\* After it has started the run, Connect touches neither the books nor the places of the others.
LEMMA ConnectAlone ==
    ASSUME OwnerInv, OutsideConnect, RunSame, done' = done
    PROVE  Books' /\ RunPlaces' /\ DisconnectPlaces'
<1>1. Books /\ RunPlaces /\ DisconnectPlaces BY DEF OwnerInv
<1>2. Books' BY <1>1 DEF Books, OutsideConnect, AppSame
<1>3. RunPlaces' BY <1>1 DEF RunPlaces, OutsideConnect, AppSame, RunSame
<1>4. DisconnectPlaces' BY <1>1 DEF DisconnectPlaces, OutsideConnect, AppSame, RunSame, Over
<1> QED BY <1>2, <1>3, <1>4

\* Connect starts the run goroutine.
LEMMA ConnectBeginKeeps == ASSUME OwnerInv, ConnectBegin PROVE OwnerInv'
<1>1. Types /\ Books /\ RunPlaces /\ ConnectPlaces /\ DisconnectPlaces /\ OwnerPlaces BY DEF OwnerInv
<1>2. /\ connectPc = "start" /\ ~locked /\ state' = "PREPARING" /\ done' = TRUE /\ runPc' = "begin"
      /\ connectPc' = "select" /\ coreCanceled' = coreCanceled /\ acquired' = acquired /\ runErr' = runErr
      /\ doneClosed' = doneClosed /\ initResult' = initResult /\ connectErr' = connectErr /\ OutsideConnect
  BY ConnectFrameIs DEF ConnectBegin
<1>3. runPc = "none" /\ ~coreCanceled /\ initResult = "empty" BY <1>1, <1>2 DEF ConnectPlaces
<1>4. /\ disconnect["stop"] # "ok" /\ prepared # "released" /\ \A c \in Callers : disconnect[c] # "idle?"
  BY <1>1, <1>3 DEF DisconnectPlaces, OwnerPlaces, Over
<1>5. Books' BY <1>1, <1>2 DEF Books, OutsideConnect, AppSame
<1>6. Types' BY <1>1, <1>2, <1>3 DEF Types, OutsideConnect, AppSame, OwnerSame
<1>7. RunPlaces' BY <1>1, <1>2, <1>3 DEF RunPlaces, OutsideConnect, AppSame
<1>8. ConnectPlaces' BY <1>1, <1>2, <1>3 DEF ConnectPlaces, OutsideConnect, AppSame, OwnerSame, RunCanceled, Over
<1>9. DisconnectPlaces' BY <1>1, <1>2, <1>4 DEF DisconnectPlaces, OutsideConnect, AppSame
<1>10. OwnerPlaces' BY <1>1, <1>2, <1>3, <1>4 DEF OwnerPlaces, OutsideConnect, AppSame, OwnerSame
<1> QED BY <1>5, <1>6, <1>7, <1>8, <1>9, <1>10 DEF OwnerInv

\* Connect takes the result, the cancellation or the timeout.
LEMMA ConnectSelectKeeps == ASSUME OwnerInv, ConnectSelect PROVE OwnerInv'
<1>1. Types /\ Books /\ RunPlaces /\ ConnectPlaces /\ DisconnectPlaces /\ OwnerPlaces BY DEF OwnerInv
<1>2. /\ connectPc = "select" /\ OutsideConnect /\ RunSame /\ state' = state /\ done' = done
      /\ coreCanceled' = coreCanceled /\ connectErr' = connectErr
      /\ connectPc' \in {"publish", "stopFailed", "stopCanceled"} /\ initResult' \in {initResult, "taken"}
      /\ connectPc' = "publish" => initResult = "ok"
      /\ initResult' = "taken" => initResult # "empty"
  BY <1>1, ConnectFrameIs DEF ConnectSelect, RunSame, coreVars, Types
<1>3. Books' /\ RunPlaces' /\ DisconnectPlaces' BY <1>2, ConnectAlone
<1>4. Types' BY <1>1, <1>2 DEF Types, OutsideConnect, AppSame, OwnerSame, RunSame
<1>5. ConnectPlaces'
  BY <1>1, <1>2 DEF Types, ConnectPlaces, OutsideConnect, AppSame, OwnerSame, RunSame, RunCanceled, Over
<1>6. OwnerPlaces' BY <1>1, <1>2 DEF OwnerPlaces, OutsideConnect, AppSame, OwnerSame, RunSame, Over
<1> QED BY <1>3, <1>4, <1>5, <1>6 DEF OwnerInv

\* Connect publishes a connection that nobody has stopped meanwhile.
LEMMA ConnectPublishKeeps == ASSUME OwnerInv, ConnectPublish PROVE OwnerInv'
<1>1. Types /\ Books /\ RunPlaces /\ ConnectPlaces /\ DisconnectPlaces /\ OwnerPlaces BY DEF OwnerInv
<1>2. /\ connectPc = "publish" /\ connectPc' = "returned" /\ OutsideConnect /\ RunSame /\ done' = done
      /\ coreCanceled' = coreCanceled /\ initResult' = initResult
      /\ connectErr' \in BOOLEAN /\ state' \in {state, "CONNECTED"}
  BY ConnectFrameIs DEF ConnectPublish, RunSame, runVars
<1>3. Books' /\ RunPlaces' /\ DisconnectPlaces' BY <1>2, ConnectAlone
<1>4. Types' BY <1>1, <1>2 DEF Types, OutsideConnect, AppSame, OwnerSame, RunSame
<1>5. ConnectPlaces'
  BY <1>1, <1>2 DEF Types, ConnectPlaces, OutsideConnect, AppSame, OwnerSame, RunSame, RunCanceled, Over
<1>6. prepared = "acquiring" /\ preparePc \in {"wait", "canceled"}
  BY <1>1, <1>2 DEF OwnerPlaces, Types
<1>7. OwnerPlaces' BY <1>1, <1>2, <1>6 DEF OwnerPlaces, OutsideConnect, AppSame, OwnerSame, RunSame, Over
<1> QED BY <1>3, <1>4, <1>5, <1>7 DEF OwnerInv

\* stopAndWait cancels the run.
LEMMA StopAndWaitKeeps == ASSUME OwnerInv, StopAndWait PROVE OwnerInv'
<1>1. Types /\ Books /\ RunPlaces /\ ConnectPlaces /\ DisconnectPlaces /\ OwnerPlaces BY DEF OwnerInv
<1>2. /\ connectPc \in {"stopFailed", "stopCanceled"} /\ connectPc' \in {"waitFailed", "waitCanceled"}
      /\ OutsideConnect /\ RunSame /\ done' = done /\ coreCanceled' \in BOOLEAN /\ (coreCanceled => coreCanceled')
      /\ initResult' = initResult /\ connectErr' = connectErr /\ state' = "STOPPING"
  BY <1>1, ConnectFrameIs DEF StopAndWait, RunSame, runVars, Types
<1>3. Books' /\ RunPlaces' /\ DisconnectPlaces' BY <1>2, ConnectAlone
<1>4. Types' BY <1>1, <1>2 DEF Types, OutsideConnect, AppSame, OwnerSame, RunSame
<1>5. ConnectPlaces'
  BY <1>1, <1>2 DEF Types, ConnectPlaces, OutsideConnect, AppSame, OwnerSame, RunSame, RunCanceled, Over
<1>6. OwnerPlaces' BY <1>1, <1>2 DEF OwnerPlaces, OutsideConnect, AppSame, OwnerSame, RunSame, Over
<1> QED BY <1>3, <1>4, <1>5, <1>6 DEF OwnerInv

\* Connect returns an error after its wait.
LEMMA ConnectReturnsKeeps == ASSUME OwnerInv, ConnectReturns PROVE OwnerInv'
<1>1. Types /\ Books /\ RunPlaces /\ ConnectPlaces /\ DisconnectPlaces /\ OwnerPlaces BY DEF OwnerInv
<1>2. /\ connectPc \in {"waitFailed", "waitCanceled"} /\ connectPc' = "returned" /\ connectErr' = TRUE
      /\ OutsideConnect /\ RunSame /\ done' = done /\ coreCanceled' = coreCanceled
      /\ initResult' = initResult /\ state' \in {state, "FAILED"}
  BY ConnectFrameIs DEF ConnectReturns, RunSame, runVars
<1>3. Books' /\ RunPlaces' /\ DisconnectPlaces' BY <1>2, ConnectAlone
<1>4. Types' BY <1>1, <1>2 DEF Types, OutsideConnect, AppSame, OwnerSame, RunSame
<1>5. ConnectPlaces'
  BY <1>1, <1>2 DEF Types, ConnectPlaces, OutsideConnect, AppSame, OwnerSame, RunSame, RunCanceled, Over
<1>6. prepared = "acquiring" /\ preparePc \in {"wait", "canceled"}
  BY <1>1, <1>2 DEF OwnerPlaces, Types
<1>7. OwnerPlaces' BY <1>1, <1>2, <1>6 DEF OwnerPlaces, OutsideConnect, AppSame, OwnerSame, RunSame, Over
<1> QED BY <1>3, <1>4, <1>5, <1>7 DEF OwnerInv

-----------------------------------------------------------------------------
(* Disconnect *)

\* What Disconnect leaves alone.
OutsideDisconnect ==
    /\ platform' = platform /\ connectPc' = connectPc /\ connectErr' = connectErr
    /\ initResult' = initResult /\ RunSame /\ OwnerSame

\* Disconnect's frame, variable by variable.
LEMMA DisconnectFrameIs == ASSUME DisconnectFrame PROVE OutsideDisconnect
BY DEF DisconnectFrame, OutsideDisconnect, RunSame, OwnerSame, runVars, connectVars, prepareVars

\* One caller of Disconnect moves, the other one stays where it is.
Moved(c, v) == disconnect'[c] = v /\ \A d \in Callers \ {c} : disconnect'[d] = disconnect[d]

\* Return records where the caller is.
LEMMA ReturnMoves ==
    ASSUME Types, NEW c \in Callers,
           NEW v \in {"idle", "begin", "close", "wait", "idle?", "ok", "failed", "done"}, Return(c, v)
    PROVE  /\ Moved(c, v)
           /\ disconnect' \in [Callers -> {"idle", "begin", "close", "wait", "idle?", "ok", "failed", "done"}]
BY DEF Types, Return, Moved

\* Who is in Disconnect: PrepareNetwork until its Connect has returned, Stop only afterwards,
\* and never both.
LEMMA OneCaller ==
    ASSUME OwnerInv, NEW c \in Callers, disconnect[c] \in {"begin", "close", "wait", "idle?"}
    PROVE  /\ \A d \in Callers \ {c} : disconnect[d] \notin {"begin", "close", "wait", "idle?", "ok", "failed"}
           /\ c = "prepare" => preparePc = "canceled" /\ ~stopping /\ prepared = "acquiring" /\ disconnect["stop"] = "idle"
           /\ c = "stop" => stopping /\ runPc # "none" /\ connectPc = "returned" /\ preparePc = "returned"
<1>1. Types /\ ConnectPlaces /\ DisconnectPlaces /\ OwnerPlaces BY DEF OwnerInv
<1>2. CASE c = "prepare"
  <2>1. disconnect["stop"] = "idle" BY <1>1, <1>2 DEF DisconnectPlaces
  <2>2. ~stopping BY <1>1, <2>1 DEF OwnerPlaces
  <2>3. preparePc = "canceled" BY <1>1, <1>2 DEF OwnerPlaces, Types
  <2>4. prepared = "acquiring" BY <1>1, <2>3 DEF OwnerPlaces
  <2> QED BY <1>2, <2>1, <2>2, <2>3, <2>4 DEF Callers
<1>3. CASE c = "stop"
  <2>1. disconnect["prepare"] \in {"idle", "done"} BY <1>1, <1>3 DEF DisconnectPlaces
  <2>2. stopping BY <1>1, <1>3 DEF OwnerPlaces
  <2>3. prepared \in {"ready", "failed"} BY <1>1, <2>2 DEF OwnerPlaces
  <2>4. preparePc = "returned" BY <1>1, <2>3 DEF OwnerPlaces, Types
  <2>5. connectPc = "returned" BY <1>1, <2>4 DEF OwnerPlaces
  <2>6. runPc # "none" BY <1>1, <2>5 DEF ConnectPlaces
  <2> QED BY <1>3, <2>1, <2>2, <2>4, <2>5, <2>6 DEF Callers
<1> QED BY <1>2, <1>3 DEF Callers

\* A caller that moves on inside Disconnect keeps the owner's places, as long as what it
\* cancels is its own attempt.
LEMMA CallerMoves ==
    ASSUME OwnerInv, NEW c \in Callers, disconnect[c] \in {"begin", "close", "wait", "idle?"},
           NEW v \in {"close", "wait", "idle?", "ok", "failed"}, Moved(c, v), OutsideDisconnect,
           cleanup' = cleanup \/ Over
    PROVE  OwnerPlaces'
<1>1. Types /\ OwnerPlaces BY DEF OwnerInv
<1>2. CASE c = "prepare"
  <2>1. disconnect'["prepare"] = v /\ disconnect'["stop"] = disconnect["stop"] BY <1>2 DEF Moved, Callers
  <2>2. preparePc = "canceled" /\ ~stopping /\ prepared = "acquiring" BY <1>2, OneCaller
  <2> QED BY <1>1, <2>1, <2>2 DEF OwnerPlaces, OutsideDisconnect, OwnerSame, RunSame
<1>3. CASE c = "stop"
  <2>1. disconnect'["stop"] = v /\ disconnect'["prepare"] = disconnect["prepare"] BY <1>3 DEF Moved, Callers
  <2>2. stopping /\ connectPc = "returned" /\ preparePc = "returned" BY <1>3, OneCaller
  <2>3. prepared \in {"ready", "failed"} BY <1>1, <2>2 DEF OwnerPlaces
  <2> QED BY <1>1, <2>1, <2>2, <2>3 DEF OwnerPlaces, OutsideDisconnect, OwnerSame, RunSame
<1> QED BY <1>2, <1>3 DEF Callers

\* Disconnect looks at the state: nothing to do, busy, a retry, or a run to cancel.
LEMMA DisconnectBeginKeeps == ASSUME OwnerInv, NEW c \in Callers, DisconnectBegin(c) PROVE OwnerInv'
<1>1. Types /\ Books /\ RunPlaces /\ ConnectPlaces /\ DisconnectPlaces /\ OwnerPlaces BY DEF OwnerInv
<1>2. PICK v \in {"ok", "failed", "close", "wait"} :
        /\ Return(c, v)
        /\ \/ v = "ok" /\ state = "IDLE" /\ UNCHANGED <<coreVars, locked>>
           \/ v = "failed" /\ UNCHANGED <<coreVars, locked>>
           \/ v = "close" /\ state = "FAILED" /\ ~done /\ locked' = TRUE /\ UNCHANGED coreVars
           \/ /\ v = "wait" /\ state \in {"PREPARING", "CONNECTED", "FAILED"} /\ done
              /\ state' = "STOPPING" /\ coreCanceled' = TRUE /\ UNCHANGED <<done, locked>>
  BY DEF DisconnectBegin, AlreadyIdle
<1>3. disconnect[c] = "begin" /\ ~locked /\ OutsideDisconnect /\ AppSame /\ done' = done
  BY <1>2, DisconnectFrameIs DEF DisconnectBegin, AppSame, appVars, coreVars
<1>4. /\ \/ v = "ok" /\ state = "IDLE" /\ state' = state /\ coreCanceled' = coreCanceled /\ locked' = locked
         \/ v = "failed" /\ state' = state /\ coreCanceled' = coreCanceled /\ locked' = locked
         \/ v = "close" /\ state = "FAILED" /\ ~done /\ state' = state /\ coreCanceled' = coreCanceled /\ locked' = TRUE
         \/ v = "wait" /\ done /\ state' = "STOPPING" /\ state # "IDLE" /\ coreCanceled' = TRUE /\ locked' = locked
  BY <1>2 DEF coreVars
<1>5. /\ Moved(c, v)
      /\ disconnect' \in [Callers -> {"idle", "begin", "close", "wait", "idle?", "ok", "failed", "done"}]
  BY <1>1, <1>2, ReturnMoves
<1>6. Books' BY <1>1, <1>3 DEF Books, OutsideDisconnect, AppSame
<1>7. /\ state' \in {"IDLE", "PREPARING", "CONNECTED", "STOPPING", "FAILED"} /\ coreCanceled' \in BOOLEAN
      /\ locked' \in BOOLEAN /\ (locked' <=> v = "close") /\ (coreCanceled => coreCanceled')
      /\ (state' = "IDLE" => state = "IDLE") /\ (state = "IDLE" => state' = "IDLE")
  <2>1. CASE v \in {"ok", "failed"} /\ state' = state /\ coreCanceled' = coreCanceled /\ locked' = locked
    BY <1>1, <1>3, <2>1 DEF Types
  <2>2. CASE v = "close" /\ state' = state /\ coreCanceled' = coreCanceled /\ locked' = TRUE
    BY <1>1, <2>2 DEF Types
  <2>3. CASE v = "wait" /\ state' = "STOPPING" /\ state # "IDLE" /\ coreCanceled' = TRUE /\ locked' = locked
    BY <1>1, <1>3, <2>3 DEF Types
  <2> QED BY <1>4, <2>1, <2>2, <2>3
<1>8. Types' BY <1>1, <1>3, <1>5, <1>7 DEF Types, OutsideDisconnect, AppSame, OwnerSame, RunSame
<1>9. RunPlaces' BY <1>1, <1>3 DEF RunPlaces, OutsideDisconnect, AppSame, RunSame
<1>10. runPc = "none" => ~coreCanceled' BY <1>1, <1>4 DEF ConnectPlaces, RunPlaces
<1>11. ConnectPlaces'
  BY <1>1, <1>3, <1>7, <1>10 DEF Types, ConnectPlaces, OutsideDisconnect, AppSame, OwnerSame, RunSame, RunCanceled, Over
<1>12. OwnerPlaces' BY <1>3, <1>5, CallerMoves DEF AppSame
<1>13. DisconnectPlaces'
  <2>1. v = "close" => Over BY <1>1, <1>4 DEF RunPlaces, ConnectPlaces, Types, Over
  <2>2. v = "ok" /\ runPc # "none" => Over /\ cleanup = <<>> BY <1>1, <1>4 DEF ConnectPlaces
  <2>3. CASE c = "prepare"
    <3>1. disconnect'["prepare"] = v /\ disconnect'["stop"] = disconnect["stop"] BY <1>5, <2>3 DEF Moved, Callers
    <3>2. disconnect["stop"] = "idle" BY <1>3, <2>3, OneCaller
    <3> QED BY <1>1, <1>3, <1>7, <2>1, <3>1, <3>2
            DEF DisconnectPlaces, OutsideDisconnect, AppSame, RunSame, Callers, Over
  <2>4. CASE c = "stop"
    <3>1. disconnect'["stop"] = v /\ disconnect'["prepare"] = disconnect["prepare"] BY <1>5, <2>4 DEF Moved, Callers
    <3>2. runPc # "none" BY <1>3, <2>4, OneCaller
    <3>3. disconnect["prepare"] \in {"idle", "done"} BY <1>1, <1>3, <2>4 DEF DisconnectPlaces
    <3> QED BY <1>1, <1>3, <1>7, <2>1, <2>2, <3>1, <3>2, <3>3
            DEF DisconnectPlaces, OutsideDisconnect, AppSame, RunSame, Callers, Over
  <2> QED BY <2>3, <2>4 DEF Callers
<1> QED BY <1>6, <1>8, <1>9, <1>11, <1>12, <1>13 DEF OwnerInv

\* The retry releases what the run has left, under the lock.
LEMMA DisconnectCloseKeeps == ASSUME OwnerInv, NEW c \in Callers, DisconnectClose(c) PROVE OwnerInv'
<1>1. Types /\ Books /\ RunPlaces /\ ConnectPlaces /\ DisconnectPlaces /\ OwnerPlaces BY DEF OwnerInv
<1>2. /\ disconnect[c] = "close" /\ OutsideDisconnect /\ done' = done /\ coreCanceled' = coreCanceled
      /\ \/ (CloseLease \/ CloseEntry) /\ state' = state /\ locked' = locked /\ disconnect' = disconnect
         \/ CloseFails /\ locked' = FALSE /\ Return(c, "failed") /\ state' = state
         \/ CloseDone /\ locked' = FALSE /\ Return(c, "ok") /\ state' = "IDLE"
  BY DisconnectFrameIs DEF DisconnectClose, LockedAfter
<1>3. locked /\ Over /\ runPc \in {"close", "ended"} BY <1>1, <1>2 DEF DisconnectPlaces, Callers, Over
<1>4. platform' = platform BY <1>2 DEF OutsideDisconnect
<1>5. CASE (CloseLease \/ CloseEntry) /\ state' = state /\ locked' = locked /\ disconnect' = disconnect
  <2>1. Books' /\ cleanupErr' = cleanupErr BY <1>1, <1>4, <1>5, CloseKeepsBooks
  <2>2. cleanup # <<>> BY <1>5, CloseOutcomes
  <2>3. runErr /\ cleanupErr BY <1>1, <1>3, <2>2 DEF RunPlaces, Types
  <2>4. Types' BY <1>1, <1>2, <1>3, <1>5, <2>1 DEF Types, OutsideDisconnect, OwnerSame, RunSame
  <2>5. RunPlaces' BY <1>1, <1>2, <1>3, <2>1, <2>3 DEF RunPlaces, OutsideDisconnect, RunSame
  <2>6. state # "IDLE" BY <1>1, <1>3, <2>2 DEF ConnectPlaces
  <2>7. ConnectPlaces'
    BY <1>1, <1>2, <1>3, <1>5, <2>6 DEF ConnectPlaces, OutsideDisconnect, OwnerSame, RunSame, RunCanceled, Over
  <2>8. disconnect["stop"] # "ok" /\ prepared # "released" /\ \A d \in Callers : disconnect[d] # "idle?"
    BY <1>1, <2>2 DEF DisconnectPlaces, OwnerPlaces
  <2>9. DisconnectPlaces'
    BY <1>1, <1>2, <1>3, <1>5, <2>8 DEF DisconnectPlaces, OutsideDisconnect, RunSame, Over
  <2>10. OwnerPlaces' BY <1>1, <1>2, <1>5, <2>8 DEF OwnerPlaces, OutsideDisconnect, OwnerSame, RunSame
  <2> QED BY <2>1, <2>4, <2>5, <2>7, <2>9, <2>10 DEF OwnerInv
<1>6. ASSUME NEW v \in {"ok", "failed"}, Return(c, v), locked' = FALSE, cleanup' = cleanup, leases' = leases,
             held' = held, \/ v = "failed" /\ state' = state /\ cleanup # <<>> /\ cleanupErr' = TRUE
                           \/ v = "ok" /\ state' = "IDLE" /\ cleanup = <<>> /\ cleanupErr' = FALSE
      PROVE  OwnerInv'
  <2>1. /\ Moved(c, v)
        /\ disconnect' \in [Callers -> {"idle", "begin", "close", "wait", "idle?", "ok", "failed", "done"}]
    BY <1>1, <1>6, ReturnMoves
  <2>2. Books' BY <1>1, <1>4, <1>6 DEF Books
  <2>3. /\ state' \in {"IDLE", "PREPARING", "CONNECTED", "STOPPING", "FAILED"} /\ cleanupErr' \in BOOLEAN
        /\ (cleanupErr' <=> cleanup # <<>>) /\ (state' = "IDLE" => cleanup = <<>>)
        /\ (v = "ok" => cleanup = <<>>)
    <3>1. CASE v = "failed" /\ state' = state /\ cleanup # <<>> /\ cleanupErr' = TRUE
      BY <1>1, <1>3, <3>1 DEF Types, ConnectPlaces
    <3>2. CASE v = "ok" /\ state' = "IDLE" /\ cleanup = <<>> /\ cleanupErr' = FALSE BY <3>2
    <3> QED BY <1>6, <3>1, <3>2
  <2>4. Types'
    <3>1. OutsideDisconnect /\ done' = done /\ coreCanceled' = coreCanceled /\ locked' = FALSE BY <1>2, <1>6
    <3>2. cleanupErr' => cleanup' # <<>> BY <1>6, <2>3
    <3>3. disconnect' \in [Callers -> {"idle", "begin", "close", "wait", "idle?", "ok", "failed", "done"}] BY <2>1
    <3>4. locked' \in BOOLEAN BY <3>1
    <3> QED BY <1>1, <2>3, <3>1, <3>2, <3>3, <3>4 DEF Types, OutsideDisconnect, OwnerSame, RunSame
  <2>5. RunPlaces' BY <1>1, <1>2, <1>3, <1>6, <2>3 DEF RunPlaces, OutsideDisconnect, RunSame, Types
  <2>6. ConnectPlaces'
    BY <1>1, <1>2, <1>3, <1>6, <2>3 DEF ConnectPlaces, OutsideDisconnect, OwnerSame, RunSame, RunCanceled, Over
  <2>7. OwnerPlaces' BY <1>2, <1>6, <2>1, CallerMoves
  <2>8. \A d \in Callers \ {c} : disconnect[d] \notin {"begin", "close", "wait", "idle?", "ok", "failed"}
    BY <1>2, OneCaller
  <2>9. DisconnectPlaces'
    <3>1. CASE c = "prepare"
      <4>1. /\ disconnect'["prepare"] = v /\ disconnect'["stop"] = disconnect["stop"] /\ disconnect["stop"] = "idle"
        BY <1>2, <2>1, <3>1, OneCaller DEF Moved, Callers
      <4> QED BY <1>6, <4>1 DEF DisconnectPlaces, Callers
    <3>2. CASE c = "stop"
      <4>1. /\ disconnect'["stop"] = v /\ disconnect'["prepare"] = disconnect["prepare"]
            /\ disconnect["prepare"] \in {"idle", "done"}
        BY <1>1, <1>2, <2>1, <3>2 DEF Moved, Callers, DisconnectPlaces
      <4> QED BY <1>2, <1>3, <1>6, <2>3, <4>1 DEF DisconnectPlaces, OutsideDisconnect, RunSame, Callers, Over
    <3> QED BY <3>1, <3>2 DEF Callers
  <2> QED BY <2>2, <2>4, <2>5, <2>6, <2>7, <2>9 DEF OwnerInv
<1>7. CASE CloseFails /\ locked' = FALSE /\ Return(c, "failed") /\ state' = state BY <1>6, <1>7, CloseOutcomes
<1>8. CASE CloseDone /\ locked' = FALSE /\ Return(c, "ok") /\ state' = "IDLE" BY <1>6, <1>8, CloseOutcomes
<1> QED BY <1>2, <1>5, <1>7, <1>8

\* The wait for the run ends: with the channel, or with the deadline.
LEMMA DisconnectWaitKeeps == ASSUME OwnerInv, NEW c \in Callers, DisconnectWait(c) PROVE OwnerInv'
<1>1. Types /\ Books /\ RunPlaces /\ ConnectPlaces /\ DisconnectPlaces /\ OwnerPlaces BY DEF OwnerInv
<1>2. PICK v \in {"failed", "idle?"} : Return(c, v) /\ (v = "idle?" => doneClosed /\ ~cleanupErr)
  BY DEF DisconnectWait, CleanupError
<1>3. /\ disconnect[c] = "wait" /\ OutsideDisconnect /\ AppSame /\ state' = state /\ done' = done
      /\ coreCanceled' = coreCanceled /\ locked' = locked
  BY DisconnectFrameIs DEF DisconnectWait, AppSame, appVars, coreVars
<1>4. /\ Moved(c, v)
      /\ disconnect' \in [Callers -> {"idle", "begin", "close", "wait", "idle?", "ok", "failed", "done"}]
  BY <1>1, <1>2, ReturnMoves
<1>5. v = "idle?" => runPc = "ended" /\ cleanup = <<>> BY <1>1, <1>2 DEF RunPlaces
<1>6. Books' BY <1>1, <1>3 DEF Books, OutsideDisconnect, AppSame
<1>7. Types' BY <1>1, <1>3, <1>4 DEF Types, OutsideDisconnect, AppSame, OwnerSame, RunSame
<1>8. RunPlaces' BY <1>1, <1>3 DEF RunPlaces, OutsideDisconnect, AppSame, RunSame
<1>9. ConnectPlaces'
  BY <1>1, <1>3 DEF ConnectPlaces, OutsideDisconnect, AppSame, OwnerSame, RunSame, RunCanceled, Over
<1>10. OwnerPlaces' BY <1>3, <1>4, CallerMoves DEF AppSame
<1>11. DisconnectPlaces'
  <2>1. CASE c = "prepare"
    <3>1. disconnect'["prepare"] = v /\ disconnect'["stop"] = disconnect["stop"] /\ disconnect["stop"] = "idle"
      BY <1>3, <1>4, <2>1, OneCaller DEF Moved, Callers
    <3> QED BY <1>1, <1>3, <1>5, <2>1, <3>1
            DEF DisconnectPlaces, OutsideDisconnect, AppSame, RunSame, Callers, Over
  <2>2. CASE c = "stop"
    <3>1. /\ disconnect'["stop"] = v /\ disconnect'["prepare"] = disconnect["prepare"]
          /\ disconnect["prepare"] \in {"idle", "done"}
      BY <1>1, <1>3, <1>4, <2>2 DEF Moved, Callers, DisconnectPlaces
    <3> QED BY <1>1, <1>3, <1>5, <2>2, <3>1
            DEF DisconnectPlaces, OutsideDisconnect, AppSame, RunSame, Callers, Over
  <2> QED BY <2>1, <2>2 DEF Callers
<1> QED BY <1>6, <1>7, <1>8, <1>9, <1>10, <1>11 DEF OwnerInv

\* A Disconnect that saw the run end without an error: the runtime is idle.
LEMMA DisconnectIdleKeeps == ASSUME OwnerInv, NEW c \in Callers, DisconnectIdle(c) PROVE OwnerInv'
<1>1. Types /\ Books /\ RunPlaces /\ ConnectPlaces /\ DisconnectPlaces /\ OwnerPlaces BY DEF OwnerInv
<1>2. /\ disconnect[c] = "idle?" /\ ~locked /\ OutsideDisconnect /\ AppSame /\ state' = "IDLE" /\ done' = done
      /\ coreCanceled' = coreCanceled /\ locked' = locked /\ Return(c, "ok")
  BY DisconnectFrameIs DEF DisconnectIdle, AppSame, appVars
<1>3. /\ Moved(c, "ok")
      /\ disconnect' \in [Callers -> {"idle", "begin", "close", "wait", "idle?", "ok", "failed", "done"}]
  BY <1>1, <1>2, ReturnMoves
<1>4. runPc = "ended" /\ cleanup = <<>> BY <1>1, <1>2 DEF DisconnectPlaces
<1>5. Books' BY <1>1, <1>2 DEF Books, OutsideDisconnect, AppSame
<1>6. Types' BY <1>1, <1>2, <1>3 DEF Types, OutsideDisconnect, AppSame, OwnerSame, RunSame
<1>7. RunPlaces' BY <1>1, <1>2 DEF RunPlaces, OutsideDisconnect, AppSame, RunSame
<1>8. ConnectPlaces'
  BY <1>1, <1>2, <1>4 DEF ConnectPlaces, OutsideDisconnect, AppSame, OwnerSame, RunSame, RunCanceled, Over
<1>9. OwnerPlaces' BY <1>2, <1>3, CallerMoves DEF AppSame
<1>10. DisconnectPlaces'
  <2>1. CASE c = "prepare"
    <3>1. disconnect'["prepare"] = "ok" /\ disconnect'["stop"] = disconnect["stop"] /\ disconnect["stop"] = "idle"
      BY <1>2, <1>3, <2>1, OneCaller DEF Moved, Callers
    <3> QED BY <1>1, <1>2, <1>4, <2>1, <3>1
            DEF DisconnectPlaces, OutsideDisconnect, AppSame, RunSame, Callers, Over
  <2>2. CASE c = "stop"
    <3>1. /\ disconnect'["stop"] = "ok" /\ disconnect'["prepare"] = disconnect["prepare"]
          /\ disconnect["prepare"] \in {"idle", "done"}
      BY <1>1, <1>2, <1>3, <2>2 DEF Moved, Callers, DisconnectPlaces
    <3> QED BY <1>1, <1>2, <1>4, <2>2, <3>1
            DEF DisconnectPlaces, OutsideDisconnect, AppSame, RunSame, Callers, Over
  <2> QED BY <2>1, <2>2 DEF Callers
<1> QED BY <1>5, <1>6, <1>7, <1>8, <1>9, <1>10 DEF OwnerInv

-----------------------------------------------------------------------------
(* PrepareNetwork and Stop *)

\* What PrepareNetwork and Stop leave alone themselves.
OutsideOwner ==
    /\ platform' = platform /\ state' = state /\ done' = done /\ coreCanceled' = coreCanceled
    /\ locked' = locked /\ connectPc' = connectPc /\ connectErr' = connectErr
    /\ initResult' = initResult /\ AppSame /\ RunSame

\* Their frame, variable by variable.
LEMMA OwnerFrameIs == ASSUME OwnerFrame PROVE OutsideOwner
BY DEF OwnerFrame, OutsideOwner, AppSame, RunSame, coreVars, appVars, runVars, connectVars

\* They touch neither the books nor the places of the run and of Connect.
LEMMA OwnerAlone ==
    ASSUME OwnerInv, OutsideOwner, netCanceled' \in {netCanceled, TRUE}
    PROVE  Books' /\ RunPlaces' /\ ConnectPlaces'
<1>1. Types /\ Books /\ RunPlaces /\ ConnectPlaces BY DEF OwnerInv
<1>2. Books' BY <1>1 DEF Books, OutsideOwner, AppSame
<1>3. RunPlaces' BY <1>1 DEF RunPlaces, OutsideOwner, AppSame, RunSame
<1>4. ConnectPlaces' BY <1>1 DEF Types, ConnectPlaces, OutsideOwner, AppSame, RunSame, RunCanceled, Over
<1> QED BY <1>2, <1>3, <1>4

\* A step of theirs that calls nobody.
LEMMA NobodyCalls ==
    ASSUME OwnerInv, OutsideOwner, disconnect' = disconnect
    PROVE  DisconnectPlaces'
BY DEF OwnerInv, DisconnectPlaces, OutsideOwner, AppSame, RunSame, Over

\* The attempt is canceled; its network may learn of it.
LEMMA CancelKeeps == ASSUME OwnerInv, Cancel \/ Propagate PROVE OwnerInv'
<1>1. Types /\ OwnerPlaces BY DEF OwnerInv
<1>2. /\ OutsideOwner /\ disconnect' = disconnect /\ preparePc' = preparePc /\ prepared' = prepared
      /\ stopping' = stopping /\ canceled' = TRUE /\ linked' \in {linked, FALSE} /\ netCanceled' \in {netCanceled, TRUE}
      /\ prepared = "acquiring" \/ canceled
  BY <1>1, OwnerFrameIs DEF Cancel, Propagate, Types
<1>3. Books' /\ RunPlaces' /\ ConnectPlaces' BY <1>2, OwnerAlone
<1>4. DisconnectPlaces' BY <1>2, NobodyCalls
<1>5. Types'
  <2>1. linked' \in BOOLEAN /\ netCanceled' \in BOOLEAN BY <1>1, <1>2 DEF Types
  <2> QED BY <1>1, <1>2, <2>1 DEF Types, OutsideOwner, AppSame, RunSame
<1>6. prepared # "ready" BY <1>1, <1>2 DEF OwnerPlaces
<1>7. OwnerPlaces' BY <1>1, <1>2, <1>6 DEF OwnerPlaces, OutsideOwner, AppSame, RunSame, Over
<1> QED BY <1>3, <1>4, <1>5, <1>7 DEF OwnerInv

\* connectContext: Connect has returned, or a canceled start is disconnected.
LEMMA ConnectContextKeeps == ASSUME OwnerInv, ConnectContext PROVE OwnerInv'
<1>1. Types /\ ConnectPlaces /\ DisconnectPlaces /\ OwnerPlaces BY DEF OwnerInv
<1>2. /\ preparePc = "wait" /\ OutsideOwner /\ canceled' = canceled /\ linked' = linked
      /\ netCanceled' = netCanceled /\ prepared' = prepared /\ stopping' = stopping
      /\ \/ preparePc' = "settled" /\ connectPc = "returned" /\ disconnect' = disconnect
         \/ preparePc' = "canceled" /\ Return("prepare", "begin")
  BY OwnerFrameIs DEF ConnectContext
<1>3. Books' /\ RunPlaces' /\ ConnectPlaces' BY <1>2, OwnerAlone
<1>4. prepared = "acquiring" /\ ~stopping /\ disconnect["stop"] = "idle" /\ disconnect["prepare"] = "idle"
  BY <1>1, <1>2 DEF OwnerPlaces, Types
<1>5. /\ disconnect' \in [Callers -> {"idle", "begin", "close", "wait", "idle?", "ok", "failed", "done"}]
      /\ disconnect'["stop"] = "idle"
      /\ \/ preparePc' = "settled" /\ connectPc = "returned" /\ disconnect'["prepare"] = "idle"
         \/ preparePc' = "canceled" /\ disconnect'["prepare"] = "begin"
  <2>1. CASE preparePc' = "settled" /\ connectPc = "returned" /\ disconnect' = disconnect
    BY <1>1, <1>4, <2>1 DEF Types
  <2>2. CASE preparePc' = "canceled" /\ Return("prepare", "begin")
    BY <1>1, <1>4, <2>2, ReturnMoves DEF Moved, Callers
  <2> QED BY <1>2, <2>1, <2>2
<1>6. Types' BY <1>1, <1>2, <1>5 DEF Types, OutsideOwner, AppSame, RunSame
<1>7. DisconnectPlaces' BY <1>1, <1>2, <1>4, <1>5 DEF DisconnectPlaces, OutsideOwner, AppSame, RunSame, Callers, Over
<1>8. OwnerPlaces' BY <1>1, <1>2, <1>4, <1>5 DEF OwnerPlaces, OutsideOwner, AppSame, RunSame, Over
<1> QED BY <1>3, <1>6, <1>7, <1>8 DEF OwnerInv

\* The canceled start has been disconnected and its Connect has returned.
LEMMA ConnectResultKeeps == ASSUME OwnerInv, ConnectResult PROVE OwnerInv'
<1>1. Types /\ ConnectPlaces /\ DisconnectPlaces /\ OwnerPlaces BY DEF OwnerInv
<1>2. /\ preparePc = "canceled" /\ disconnect["prepare"] \in {"ok", "failed"} /\ connectPc = "returned"
      /\ preparePc' = "settled" /\ Return("prepare", "done") /\ OutsideOwner /\ canceled' = canceled
      /\ linked' = linked /\ netCanceled' = netCanceled /\ prepared' = prepared /\ stopping' = stopping
  BY OwnerFrameIs DEF ConnectResult, ConnectAwaited
<1>3. Books' /\ RunPlaces' /\ ConnectPlaces' BY <1>2, OwnerAlone
<1>4. prepared = "acquiring" /\ ~stopping /\ disconnect["stop"] = "idle"
  BY <1>1, <1>2 DEF OwnerPlaces, DisconnectPlaces, Types
<1>5. /\ disconnect' \in [Callers -> {"idle", "begin", "close", "wait", "idle?", "ok", "failed", "done"}]
      /\ disconnect'["stop"] = "idle" /\ disconnect'["prepare"] = "done"
  BY <1>1, <1>2, <1>4, ReturnMoves DEF Moved, Callers
<1>6. Types' BY <1>1, <1>2, <1>5 DEF Types, OutsideOwner, AppSame, RunSame
<1>7. DisconnectPlaces' BY <1>1, <1>2, <1>4, <1>5 DEF DisconnectPlaces, OutsideOwner, AppSame, RunSame, Callers, Over
<1>8. OwnerPlaces' BY <1>1, <1>2, <1>4, <1>5 DEF OwnerPlaces, OutsideOwner, AppSame, RunSame, Over
<1> QED BY <1>3, <1>6, <1>7, <1>8 DEF OwnerInv

\* The cancellation no longer reaches a network that was prepared before it.
LEMMA UnlinkKeeps == ASSUME OwnerInv, Unlink PROVE OwnerInv'
<1>1. Types /\ OwnerPlaces BY DEF OwnerInv
<1>2. /\ preparePc = "settled" /\ preparePc' = "check" /\ linked' = (linked /\ canceled) /\ OutsideOwner
      /\ canceled' = canceled /\ netCanceled' = netCanceled /\ prepared' = prepared /\ stopping' = stopping
      /\ disconnect' = disconnect
  BY OwnerFrameIs DEF Unlink
<1>3. Books' /\ RunPlaces' /\ ConnectPlaces' BY <1>2, OwnerAlone
<1>4. DisconnectPlaces' BY <1>2, NobodyCalls
<1>5. linked' \in BOOLEAN /\ (linked' => canceled) BY <1>2
<1>6. Types' BY <1>1, <1>2, <1>5 DEF Types, OutsideOwner, AppSame, RunSame
<1>7. OwnerPlaces' BY <1>1, <1>2, <1>5 DEF OwnerPlaces, OutsideOwner, AppSame, RunSame, Over
<1> QED BY <1>3, <1>4, <1>6, <1>7 DEF OwnerInv

\* PrepareNetwork returns its owner, with or without an error.
LEMMA PrepareNetworkKeeps == ASSUME OwnerInv, PrepareNetwork PROVE OwnerInv'
<1>1. Types /\ OwnerPlaces BY DEF OwnerInv
<1>2. /\ preparePc = "check" /\ preparePc' = "returned" /\ OutsideOwner /\ linked' = linked
      /\ canceled' = canceled /\ netCanceled' = netCanceled /\ stopping' = stopping /\ disconnect' = disconnect
      /\ prepared' \in {"ready", "failed"}
      /\ prepared' = "ready" => ~connectErr /\ disconnect["prepare"] = "idle" /\ ~canceled
  BY OwnerFrameIs DEF PrepareNetwork, Acquired
<1>3. Books' /\ RunPlaces' /\ ConnectPlaces' BY <1>2, OwnerAlone
<1>4. DisconnectPlaces' BY <1>2, NobodyCalls
<1>5. Types' BY <1>1, <1>2 DEF Types, OutsideOwner, AppSame, RunSame
<1>6. prepared = "acquiring" /\ ~stopping BY <1>1, <1>2 DEF OwnerPlaces, Types
<1>7. OwnerPlaces' BY <1>1, <1>2, <1>6 DEF OwnerPlaces, OutsideOwner, AppSame, RunSame, Over
<1> QED BY <1>3, <1>4, <1>5, <1>7 DEF OwnerInv

\* Stop begins a Disconnect.
LEMMA StopKeeps == ASSUME OwnerInv, Stop PROVE OwnerInv'
<1>1. Types /\ DisconnectPlaces /\ OwnerPlaces BY DEF OwnerInv
<1>2. /\ prepared \in {"ready", "failed"} /\ ~stopping /\ stopping' = TRUE /\ Return("stop", "begin")
      /\ OutsideOwner /\ canceled' = canceled /\ linked' = linked /\ netCanceled' = netCanceled
      /\ preparePc' = preparePc /\ prepared' = prepared
  BY OwnerFrameIs DEF Stop
<1>3. Books' /\ RunPlaces' /\ ConnectPlaces' BY <1>2, OwnerAlone
<1>4. preparePc = "returned" /\ disconnect["prepare"] \in {"idle", "done"} /\ disconnect["stop"] = "idle"
  BY <1>1, <1>2 DEF OwnerPlaces, Types
<1>5. /\ disconnect' \in [Callers -> {"idle", "begin", "close", "wait", "idle?", "ok", "failed", "done"}]
      /\ disconnect'["stop"] = "begin" /\ disconnect'["prepare"] = disconnect["prepare"]
  BY <1>1, <1>2, ReturnMoves DEF Moved, Callers
<1>6. Types' BY <1>1, <1>2, <1>5 DEF Types, OutsideOwner, AppSame, RunSame
<1>7. DisconnectPlaces' BY <1>1, <1>2, <1>4, <1>5 DEF DisconnectPlaces, OutsideOwner, AppSame, RunSame, Callers, Over
<1>8. OwnerPlaces' BY <1>1, <1>2, <1>4, <1>5 DEF OwnerPlaces, OutsideOwner, AppSame, RunSame, Over
<1> QED BY <1>3, <1>6, <1>7, <1>8 DEF OwnerInv

\* Stop returns: the owner is released, or keeps what failed.
LEMMA StopReturnsKeeps == ASSUME OwnerInv, StopReturns PROVE OwnerInv'
<1>1. Types /\ DisconnectPlaces /\ OwnerPlaces BY DEF OwnerInv
<1>2. /\ stopping /\ netCanceled' = TRUE /\ stopping' = FALSE /\ Return("stop", "idle")
      /\ prepared' \in {"released", "failed"} /\ (prepared' = "released" => disconnect["stop"] = "ok")
      /\ OutsideOwner /\ canceled' = canceled /\ linked' = linked /\ preparePc' = preparePc
  BY OwnerFrameIs DEF StopReturns
<1>3. Books' /\ RunPlaces' /\ ConnectPlaces' BY <1>2, OwnerAlone
<1>4. prepared \in {"ready", "failed"} /\ preparePc = "returned" BY <1>1, <1>2 DEF OwnerPlaces, Types
<1>5. /\ disconnect' \in [Callers -> {"idle", "begin", "close", "wait", "idle?", "ok", "failed", "done"}]
      /\ disconnect'["stop"] = "idle" /\ disconnect'["prepare"] = disconnect["prepare"]
      /\ disconnect["prepare"] \in {"idle", "done"} /\ disconnect["stop"] # "close"
  <2>1. disconnect["stop"] \in {"ok", "failed"} BY DEF StopReturns
  <2> QED BY <1>1, <1>2, <1>4, <2>1, ReturnMoves DEF Moved, Callers, OwnerPlaces
<1>6. prepared' = "released" => Over /\ cleanup = <<>> BY <1>1, <1>2 DEF DisconnectPlaces
<1>7. Types'
  <2>1. stopping' \in BOOLEAN /\ netCanceled' \in BOOLEAN BY <1>2
  <2> QED BY <1>1, <1>2, <1>5, <2>1 DEF Types, OutsideOwner, AppSame, RunSame
<1>8. DisconnectPlaces' BY <1>1, <1>2, <1>5 DEF DisconnectPlaces, OutsideOwner, AppSame, RunSame, Callers, Over
<1>9. OwnerPlaces' BY <1>1, <1>2, <1>4, <1>5, <1>6 DEF OwnerPlaces, OutsideOwner, AppSame, RunSame, Over
<1> QED BY <1>3, <1>7, <1>8, <1>9 DEF OwnerInv

-----------------------------------------------------------------------------
(* The invariant holds *)

\* The initial state.
LEMMA OwnerBegins == ASSUME Init PROVE OwnerInv
<1>1. /\ platform \in Platforms /\ leases = <<>> /\ cleanup = <<>> /\ held = {} BY DEF Init, Platforms
<1>2. Books
  <2>1. leases \in Leases(platform) /\ cleanup \in Cleanups(platform) BY <1>1 DEF Leases, Cleanups
  <2> QED BY <1>1, <2>1, CleanupLists DEF Books, BooksOf
<1>3. Len(platform.acquire) \in Nat BY <1>1, PlatformFacts DEF Platforms
<1>4. Types
  <2>1. disconnect \in [Callers -> {"idle", "begin", "close", "wait", "idle?", "ok", "failed", "done"}] BY DEF Init
  <2>2. acquired \in 0..Len(platform.acquire) BY <1>3 DEF Init
  <2>3. ~cleanupErr BY DEF Init
  <2> QED BY <1>1, <2>1, <2>2, <2>3 DEF Init, Types
<1>5. RunPlaces BY <1>1 DEF Init, RunPlaces
<1>6. ConnectPlaces BY DEF Init, ConnectPlaces, Over
<1>7. disconnect["prepare"] = "idle" /\ disconnect["stop"] = "idle" BY DEF Init, Callers
<1>8. DisconnectPlaces BY <1>7 DEF Init, DisconnectPlaces, Callers
<1>9. OwnerPlaces BY <1>7 DEF Init, OwnerPlaces
<1> QED BY <1>2, <1>4, <1>5, <1>6, <1>8, <1>9 DEF OwnerInv

\* A step that changes nothing.
LEMMA OwnerStutters == ASSUME OwnerInv, UNCHANGED vars PROVE OwnerInv'
<1>1. OutsideOwner /\ OwnerSame /\ disconnect' = disconnect
  BY DEF vars, OutsideOwner, OwnerSame, AppSame, RunSame, coreVars, appVars, runVars, connectVars, prepareVars
<1>2. Books' /\ RunPlaces' /\ ConnectPlaces' BY <1>1, OwnerAlone DEF OwnerSame
<1>3. DisconnectPlaces' BY <1>1, NobodyCalls
<1>4. Types' BY <1>1 DEF OwnerInv, Types, OutsideOwner, OwnerSame, AppSame, RunSame
<1>5. OwnerPlaces' BY <1>1 DEF OwnerInv, OwnerPlaces, OutsideOwner, OwnerSame, AppSame, RunSame, Over
<1> QED BY <1>2, <1>3, <1>4, <1>5 DEF OwnerInv

\* Every step keeps the invariant.
LEMMA OwnerKeeps == ASSUME OwnerInv, [Next]_vars PROVE OwnerInv'
<1>1. CASE RunStep
  BY <1>1, RunBeginKeeps, RunAcquireKeeps, RunReadyKeeps, RunCancelKeeps, RunCleanupKeeps, FinishRunKeeps,
     RunCloseKeeps DEF RunStep
<1>2. CASE ConnectStep
  BY <1>2, ConnectBeginKeeps, ConnectSelectKeeps, ConnectPublishKeeps, StopAndWaitKeeps, ConnectReturnsKeeps
     DEF ConnectStep
<1>3. CASE PrepareStep
  BY <1>3, CancelKeeps, ConnectContextKeeps, ConnectResultKeeps, UnlinkKeeps, PrepareNetworkKeeps DEF PrepareStep
<1>4. ASSUME NEW c \in Callers, DisconnectStep(c) PROVE OwnerInv'
  BY <1>4, DisconnectBeginKeeps, DisconnectCloseKeeps, DisconnectWaitKeeps, DisconnectIdleKeeps DEF DisconnectStep
<1>5. CASE Cancel \/ Stop \/ StopReturns BY <1>5, CancelKeeps, StopKeeps, StopReturnsKeeps
<1>6. CASE UNCHANGED vars BY <1>6, OwnerStutters
<1> QED BY <1>1, <1>2, <1>3, <1>4, <1>5, <1>6 DEF Next

\* The inductive invariant holds in every behaviour.
LEMMA OwnerAlways == Spec => []OwnerInv
<1>1. Init => OwnerInv BY OwnerBegins
<1>2. OwnerInv /\ [Next]_vars => OwnerInv' BY OwnerKeeps
<1> QED BY <1>1, <1>2, PTL DEF Spec

\* What the invariant says of one state: types, books and the order of release.
LEMMA OwnerGives == ASSUME OwnerInv PROVE DesktopInv /\ UsersGoFirst
<1>1. Types /\ Books BY DEF OwnerInv
<1>2. platform \in Platforms BY <1>1 DEF Types
<1>3. /\ cleanup \in Seq({"plan", "engine", "tun"}) /\ leases \in Seq(platform.plan)
      /\ held \subseteq ToSet(platform.acquire)
      /\ \A r \in held : r \in ToSet(cleanup) \/ (r \in ToSet(leases) /\ "plan" \in ToSet(cleanup))
      /\ "rules" \in held => {"guard", "tun"} \subseteq held
      /\ "routes" \in held => "engine" \in held
      /\ "routes" \in held /\ platform = MacOS => "physical" \in held
      /\ "dns" \in held => held \cap {"rules", "routes"} # {}
      /\ "engine" \in held /\ platform = Linux => "tun" \in held
  BY <1>1, <1>2, BooksGive DEF Books
<1>4. {done, doneClosed, coreCanceled, locked, cleanupErr, runErr, connectErr} \subseteq BOOLEAN BY <1>1 DEF Types
<1>5. {canceled, linked, netCanceled, stopping} \subseteq BOOLEAN BY <1>1 DEF Types
<1>6. TypeOK BY <1>1, <1>2, <1>3, <1>4, <1>5 DEF Types, TypeOK, Platforms
<1>7. NothingForgotten BY <1>3 DEF NothingForgotten
<1>8. UsersGoFirst BY <1>3 DEF UsersGoFirst
<1> QED BY <1>6, <1>7, <1>8 DEF DesktopInv

\* Cleanup knows of everything that exists: what a failed acquisition left behind, and what
\* failed cleanups and retries could not release.
THEOREM NothingIsForgotten == Spec => []DesktopInv
<1>1. OwnerInv => DesktopInv BY OwnerGives
<1> QED BY <1>1, OwnerAlways, PTL

\* No resource is released while another one uses it, on any platform and after any failure:
\* routing and DNS before the packet stack and the interface they point at.
THEOREM UsersAreReleasedFirst == Spec => []UsersGoFirst
<1>1. OwnerInv => UsersGoFirst BY OwnerGives
<1> QED BY <1>1, OwnerAlways, PTL

-----------------------------------------------------------------------------
(* The promise of RuntimeOwner *)

\* What the owner is and holds, as RuntimeOwner sees it.
OwnerPhase == IF stopping THEN "stopping" ELSE prepared
OwnerHolds ==
    IF held = {} THEN "nothing" ELSE IF held = ToSet(platform.acquire) THEN "all" ELSE "part"
PromiseStep == Owner!Next \/ UNCHANGED <<OwnerPhase, OwnerHolds>>

\* A Connect that succeeded, and that nobody canceled: the run maintains everything.
LEMMA ConnectedHolds ==
    ASSUME OwnerInv, connectPc = "returned", ~connectErr, ~canceled, disconnect["prepare"] = "idle",
           prepared \in {"acquiring", "ready"}, ~stopping
    PROVE  runPc = "maintain" /\ OwnerHolds = "all"
<1>1. Types /\ RunPlaces /\ ConnectPlaces /\ OwnerPlaces BY DEF OwnerInv
<1>2. ~netCanceled BY <1>1 DEF OwnerPlaces
<1>3. ~coreCanceled BY <1>1 DEF OwnerPlaces
<1>4. runPc = "maintain" BY <1>1, <1>2, <1>3 DEF ConnectPlaces, RunCanceled
<1>5. StageOf(platform, acquired, leases, held) /\ acquired = Len(platform.acquire) /\ platform \in Platforms
  BY <1>1, <1>4 DEF RunPlaces, Types
<1>6. held = ToSet(platform.acquire) BY <1>5, BooksOfStage
<1>7. ToSet(platform.acquire) # {} BY <1>5, PlatformFacts DEF Platforms
<1> QED BY <1>4, <1>6, <1>7 DEF OwnerHolds

\* Nothing is held when cleanup has nothing left.
LEMMA CleanHolds == ASSUME OwnerInv, cleanup = <<>> PROVE OwnerHolds = "nothing"
<1>1. platform \in Platforms /\ BooksOf(platform, leases, cleanup, held) BY DEF OwnerInv, Types, Books
<1>2. held = {} BY <1>1, BooksGive
<1> QED BY <1>2 DEF OwnerHolds

\* Who acquires or releases does it for an owner that is neither ready nor released.
LEMMA WorkingPhase ==
    ASSUME OwnerInv, \/ runPc = "acquire"
                     \/ cleanup # <<>> /\ runPc = "cleanup"
                     \/ cleanup # <<>> /\ \E c \in Callers : disconnect[c] = "close"
    PROVE  OwnerPhase \in {"acquiring", "failed", "stopping"}
<1>1. Types /\ DisconnectPlaces /\ OwnerPlaces BY DEF OwnerInv
<1>2. runPc # "maintain"
  <2>1. ASSUME NEW c \in Callers, disconnect[c] = "close" PROVE runPc # "maintain"
    BY <1>1, <2>1 DEF DisconnectPlaces, Callers, Over
  <2> QED BY <2>1
<1>3. prepared = "released" => stopping BY <1>1 DEF OwnerPlaces, Over
<1>4. prepared = "ready" => stopping
  <2> SUFFICES ASSUME prepared = "ready", ~stopping PROVE FALSE OBVIOUS
  <2>1. ~canceled /\ ~connectErr /\ disconnect["prepare"] = "idle" /\ preparePc = "returned"
    BY <1>1 DEF OwnerPlaces, Types
  <2>2. connectPc = "returned" BY <1>1, <2>1 DEF OwnerPlaces
  <2> QED BY <1>2, <2>1, <2>2, ConnectedHolds
<1> QED BY <1>1, <1>3, <1>4 DEF OwnerPhase, Types

\* A step that changes what is held, and not the phase, is native work.
LEMMA PromiseWorks ==
    ASSUME OwnerInv, UNCHANGED <<stopping, prepared>>, platform' = platform,
           \/ held' = held
           \/ runPc = "acquire"
           \/ cleanup # <<>> /\ runPc = "cleanup"
           \/ cleanup # <<>> /\ \E c \in Callers : disconnect[c] = "close"
    PROVE  PromiseStep
<1>1. UNCHANGED OwnerPhase BY DEF OwnerPhase
<1>2. CASE held' = held
  <2>1. UNCHANGED OwnerHolds BY <1>2 DEF OwnerHolds
  <2> QED BY <1>1, <2>1 DEF PromiseStep
<1>3. CASE held' # held
  <2>1. OwnerPhase \in {"acquiring", "failed", "stopping"} BY <1>3, WorkingPhase
  <2>2. OwnerHolds' \in {"nothing", "part", "all"} BY DEF OwnerHolds
  <2>3. Owner!Work BY <1>1, <2>1, <2>2 DEF Owner!Work, Owner!Held, OwnerPhase, OwnerHolds
  <2> QED BY <2>3 DEF PromiseStep, Owner!Next
<1> QED BY <1>2, <1>3

\* PrepareNetwork and Stop move the owner from phase to phase.
LEMMA PromisePhases ==
    ASSUME OwnerInv, PrepareNetwork \/ Stop \/ StopReturns PROVE PromiseStep
<1>1. Types /\ DisconnectPlaces /\ OwnerPlaces BY DEF OwnerInv
<1>2. OutsideOwner BY OwnerFrameIs DEF PrepareNetwork, Stop, StopReturns
<1>3. UNCHANGED OwnerHolds BY <1>2 DEF OwnerHolds, OutsideOwner, AppSame
<1>4. OwnerHolds' \in {"nothing", "part", "all"} BY DEF OwnerHolds
<1>5. CASE PrepareNetwork
  <2>1. preparePc = "check" /\ prepared' = (IF Acquired THEN "ready" ELSE "failed") /\ stopping' = stopping
    BY <1>5 DEF PrepareNetwork
  <2>2. prepared = "acquiring" /\ ~stopping /\ connectPc = "returned" BY <1>1, <2>1 DEF OwnerPlaces
  <2>3. OwnerPhase = "acquiring" /\ OwnerPhase' = prepared' BY <2>1, <2>2 DEF OwnerPhase
  <2>4. CASE Acquired
    <3>1. OwnerHolds = "all" BY <2>2, <2>4, ConnectedHolds DEF Acquired
    <3>2. OwnerHolds' = "all" /\ OwnerPhase' = "ready" BY <1>3, <2>1, <2>3, <2>4, <3>1
    <3>3. Owner!Prepared BY <2>3, <3>2 DEF Owner!Prepared, OwnerPhase, OwnerHolds
    <3> QED BY <3>3 DEF PromiseStep, Owner!Next
  <2>5. CASE ~Acquired
    <3>1. OwnerPhase' = "failed" BY <2>1, <2>3, <2>5
    <3>2. Owner!Failed BY <1>4, <2>3, <3>1 DEF Owner!Failed, Owner!Held, OwnerPhase, OwnerHolds
    <3> QED BY <3>2 DEF PromiseStep, Owner!Next
  <2> QED BY <2>4, <2>5
<1>6. CASE Stop
  <2>1. OwnerPhase \in {"ready", "failed"} /\ OwnerPhase' = "stopping" BY <1>6 DEF Stop, OwnerPhase
  <2>2. Owner!Stop BY <1>3, <2>1 DEF Owner!Stop, OwnerPhase, OwnerHolds
  <2> QED BY <2>2 DEF PromiseStep, Owner!Next
<1>7. CASE StopReturns
  <2>1. OwnerPhase = "stopping" /\ OwnerPhase' = prepared' BY <1>7 DEF StopReturns, OwnerPhase
  <2>2. CASE disconnect["stop"] = "ok"
    <3>1. prepared' = "released" BY <1>7, <2>2 DEF StopReturns
    <3>2. OwnerHolds = "nothing" BY <1>1, <2>2, CleanHolds DEF DisconnectPlaces
    <3>3. Owner!Released BY <1>3, <2>1, <3>1, <3>2 DEF Owner!Released, OwnerPhase, OwnerHolds
    <3> QED BY <3>3 DEF PromiseStep, Owner!Next
  <2>3. CASE disconnect["stop"] # "ok"
    <3>1. prepared' = "failed" BY <1>7, <2>3 DEF StopReturns
    <3>2. Owner!StopFails BY <1>4, <2>1, <3>1 DEF Owner!StopFails, Owner!Held, OwnerPhase, OwnerHolds
    <3> QED BY <3>2 DEF PromiseStep, Owner!Next
  <2> QED BY <2>2, <2>3
<1> QED BY <1>5, <1>6, <1>7

\* Every step is a step of RuntimeOwner or none.
LEMMA PromiseSteps == ASSUME OwnerInv, [Next]_vars PROVE PromiseStep
<1>1. CASE RunStep
  <2>1. UNCHANGED <<stopping, prepared>> /\ platform' = platform
    BY <1>1 DEF RunStep, RunBegin, RunAcquire, RunReady, RunCancel, RunCleanup, FinishRun, RunClose, RunFrame,
                prepareVars
  <2>2. \/ held' = held \/ runPc = "acquire" \/ (cleanup # <<>> /\ runPc = "cleanup")
    BY <1>1, CloseOutcomes
       DEF RunStep, RunBegin, RunAcquire, RunReady, RunCancel, RunCleanup, FinishRun, RunClose, RunFail, appVars
  <2> QED BY <2>1, <2>2, PromiseWorks
<1>2. CASE ConnectStep
  <2>1. OutsideConnect
    BY <1>2, ConnectFrameIs DEF ConnectStep, ConnectBegin, ConnectSelect, ConnectPublish, StopAndWait, ConnectReturns
  <2> QED BY <2>1, PromiseWorks DEF OutsideConnect, OwnerSame, AppSame
<1>3. CASE Propagate \/ ConnectContext \/ ConnectResult \/ Unlink \/ Cancel
  <2>1. OutsideOwner /\ UNCHANGED <<stopping, prepared>>
    BY <1>3, OwnerFrameIs DEF Propagate, ConnectContext, ConnectResult, Unlink, Cancel
  <2> QED BY <2>1, PromiseWorks DEF OutsideOwner, AppSame
<1>4. CASE PrepareNetwork \/ Stop \/ StopReturns BY <1>4, PromisePhases
<1>5. ASSUME NEW c \in Callers, DisconnectStep(c) PROVE PromiseStep
  <2>1. OutsideDisconnect
    BY <1>5, DisconnectFrameIs DEF DisconnectStep, DisconnectBegin, DisconnectClose, DisconnectWait, DisconnectIdle
  <2>2. held' = held \/ (cleanup # <<>> /\ disconnect[c] = "close")
    BY <1>5, CloseOutcomes
       DEF DisconnectStep, DisconnectBegin, DisconnectClose, DisconnectWait, DisconnectIdle, appVars
  <2> QED BY <2>1, <2>2, PromiseWorks DEF OutsideDisconnect, OwnerSame
<1>6. CASE UNCHANGED vars
  BY <1>6, PromiseWorks DEF vars, prepareVars, appVars
<1> QED BY <1>1, <1>2, <1>3, <1>4, <1>5, <1>6 DEF Next, PrepareStep

\* The desktop network owner keeps the promise of RuntimeOwner: ready means that everything
\* is held until it is stopped, and a Stop that succeeds leaves nothing, for good.
THEOREM DesktopImplementsOwner == Spec => KeepsPromise
<1>1. Init => Owner!Init BY DEF Init, Owner!Init
<1>2. OwnerInv /\ [Next]_vars => Owner!Next \/ UNCHANGED <<OwnerPhase, OwnerHolds>>
  BY PromiseSteps DEF PromiseStep
<1> QED BY <1>1, <1>2, OwnerAlways, PTL DEF Spec, KeepsPromise, Owner!Spec, OwnerPhase, OwnerHolds
=============================================================================
