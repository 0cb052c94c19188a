----------------------------- MODULE CapturedDns -----------------------------
(***************************************************************************)
(* The lookup that a resolver of the physical network makes with the name  *)
(* servers captured for it (dnscache, resolver_wire.go).  Each of the two  *)
(* record families has a goroutine, and each family asks every server at   *)
(* once, in a goroutine and over a socket of its own.                      *)
(*                                                                         *)
(* An action is one exchange with a server or one operation on a channel.  *)
(* The channel replies of a family holds what its queries at "sent" have   *)
(* left in it; they send in any order, so they are taken in any order.     *)
(***************************************************************************)
EXTENDS Naturals, FiniteSets

CONSTANTS
    NameServers, \* the servers captured with the network
    Aliases      \* bound: names that answers refer to, beside the host itself

Kinds == {"A", "AAAA"}

\* What a query, and a family, ends with.  "nothing" is an answer without such records and
\* also the error that says that there is no such name (IsNotFound): both are final.
Results == {"addresses", "nothing", "error"}

VARIABLES
    lookup,   \* the caller: pc, whether its context ended, and what it returns
    families, \* per kind: pc and the result that it sends
    queries   \* per kind and server: pc, the aliases seen, the result

lookupVars == <<lookup, families, queries>>

NoQuery == [pc |-> "taken", seen |-> {}, result |-> "error"]
NewQuery == [pc |-> "udp", seen |-> {}, result |-> "error"]

CapturedDnsInit ==
    /\ lookup = [pc |-> "idle", ended |-> FALSE, result |-> "none"]
    /\ families = [k \in Kinds |-> [pc |-> "sent", result |-> "error"]]
    /\ queries = [k \in Kinds |-> [s \in NameServers |-> NoQuery]]

\* A context that ended already, an empty inventory or an invalid name: nothing is asked.
RefuseLookup ==
    /\ lookup.pc # "asking"
    /\ lookup' = [pc |-> "returned", ended |-> FALSE, result |-> "refused"]
    /\ UNCHANGED <<families, queries>>

BeginLookup ==
    /\ lookup.pc # "asking" /\ NameServers # {}
    /\ lookup' = [pc |-> "asking", ended |-> FALSE, result |-> "none"]
    /\ families' = [k \in Kinds |-> [pc |-> "collect", result |-> "error"]]
    /\ queries' = [k \in Kinds |-> [s \in NameServers |-> NewQuery]]

\* The deadline of the caller, or its end.
EndLookupContext ==
    /\ lookup.pc = "asking" /\ ~lookup.ended /\ lookup' = [lookup EXCEPT !.ended = TRUE]
    /\ UNCHANGED <<families, queries>>

-----------------------------------------------------------------------------
(* A query *)

Exchanging(k, s) == queries[k][s].pc \in {"udp", "tcp"}

\* A family cancels its context when it stops to collect.
FamilyContextEnded(k) == lookup.ended \/ families[k].pc # "collect"

EndQuery(k, s, result) ==
    queries' = [queries EXCEPT ![k][s].pc = "reply", ![k][s].seen = {}, ![k][s].result = result]

\* exchangeCapturedDNS: no connection, no response within its time, a failed close, or the
\* end of the context, which closes the connection.
ExchangeFails(k, s) ==
    /\ Exchanging(k, s) /\ EndQuery(k, s, "error")
    /\ UNCHANGED <<lookup, families>>

\* A truncated response is asked for again over TCP.
ExchangeTruncated(k, s) ==
    /\ queries[k][s].pc = "udp" /\ ~FamilyContextEnded(k)
    /\ queries' = [queries EXCEPT ![k][s].pc = "tcp"]
    /\ UNCHANGED <<lookup, families>>

\* The response code or the records of the last name settle the query; an alias that was
\* seen before is an error.
ExchangeSettles(k, s) ==
    /\ Exchanging(k, s) /\ ~FamilyContextEnded(k)
    /\ \E result \in Results : EndQuery(k, s, result)
    /\ UNCHANGED <<lookup, families>>

\* The response ends in an alias without records of its own, which is asked for next; the
\* aliases before it are seen as well.
ExchangeFollows(k, s) ==
    /\ Exchanging(k, s) /\ ~FamilyContextEnded(k)
    /\ \E met \in SUBSET (Aliases \ queries[k][s].seen) :
          /\ met # {}
          /\ queries' = [queries EXCEPT ![k][s].pc = "udp", ![k][s].seen = @ \cup met]
    /\ UNCHANGED <<lookup, families>>

NoRoom == 0 \* fault: a channel without room for the replies that nobody takes
RoomForReplies == Cardinality(NameServers)

\* There is room in the channel, or the family waits at it.
SendReply(k, s) ==
    LET waiting == Cardinality({t \in NameServers : queries[k][t].pc = "sent"}) IN
    /\ queries[k][s].pc = "reply"
    /\ waiting < RoomForReplies \/ (waiting = 0 /\ families[k].pc = "collect")
    /\ queries' = [queries EXCEPT ![k][s].pc = "sent"]
    /\ UNCHANGED <<lookup, families>>

-----------------------------------------------------------------------------
(* A family, and the lookup *)

FirstSettles(result) == TRUE \* fault: no failover, the first reply is the answer
Settles(result) == result # "error"

\* A server that knows the name, or knows that there is none, settles the family.  The last
\* of the failures is sent at once.
TakeReply(k, s) ==
    LET result == queries[k][s].result
        last == \A t \in NameServers \ {s} : queries[k][t].pc = "taken"
    IN  /\ families[k].pc = "collect" /\ queries[k][s].pc = "sent"
        /\ queries' = [queries EXCEPT ![k][s].pc = "taken"]
        /\ families' = [families EXCEPT
               ![k].result = result,
               ![k].pc = IF Settles(result) THEN "join" ELSE IF last THEN "sent" ELSE "collect"]
        /\ UNCHANGED lookup

NotJoined(k) == TRUE \* fault: the answer does not wait for the other queries
QueriesEnded(k) == \A s \in NameServers : queries[k][s].pc \in {"sent", "taken"}

\* queries.Wait(), and the result is sent.
JoinQueries(k) ==
    /\ families[k].pc = "join" /\ QueriesEnded(k)
    /\ families' = [families EXCEPT ![k].pc = "sent"]
    /\ UNCHANGED <<lookup, queries>>

\* Both families have sent.  Addresses of one are enough.
ReturnLookup ==
    /\ lookup.pc = "asking" /\ \A k \in Kinds : families[k].pc = "sent"
    /\ lookup' = [lookup EXCEPT
           !.pc = "returned",
           !.result = IF lookup.ended THEN "canceled"
                      ELSE IF \E k \in Kinds : families[k].result = "addresses" THEN "addresses"
                      ELSE "error"]
    /\ UNCHANGED <<families, queries>>

QueryStep(k, s) ==
    \/ ExchangeFails(k, s) \/ ExchangeTruncated(k, s) \/ ExchangeSettles(k, s) \/ ExchangeFollows(k, s)
    \/ SendReply(k, s) \/ TakeReply(k, s)
LookupStep == ReturnLookup \/ \E k \in Kinds : JoinQueries(k) \/ \E s \in NameServers : QueryStep(k, s)

CapturedDnsNext == RefuseLookup \/ BeginLookup \/ EndLookupContext \/ LookupStep

-----------------------------------------------------------------------------
\* resolveCapturedDNSServers returns with no query under way, whichever server settled a
\* family first: no socket of a lookup is left on a network that may be replaced next.
LookupDrained ==
    lookup.pc # "asking" => \A k \in Kinds, s \in NameServers : queries[k][s].pc \in {"sent", "taken"}

\* And it does return, with its own contexts only, although its queries send to a channel
\* that nobody takes from any more and the families wait for all of them.
LookupReturns == lookup.pc = "asking" ~> lookup.pc # "asking"

\* Failover: a lookup that was not canceled fails only when in each family a server
\* answered without addresses or every server failed; the failure of some is no reason.
FailoverUsed ==
    lookup.result = "error" =>
        \A k \in Kinds : \/ \E s \in NameServers : queries[k][s].result = "nothing"
                         \/ \A s \in NameServers : queries[k][s].result = "error"
=============================================================================
