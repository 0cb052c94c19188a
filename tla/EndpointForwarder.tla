-------------------------- MODULE EndpointForwarder --------------------------
(***************************************************************************)
(* trusttunnel: a forwarder listens on one local port, for TCP and UDP,    *)
(* and relays what the native client sends there over protected sockets to *)
(* one endpoint.  It tracks every socket; a socket whose close fails stays *)
(* tracked, and Close can be repeated.                                     *)
(*                                                                         *)
(* An action is one critical section under f.mu with the calls next to it, *)
(* or one call that waits.  A stream is an accepted connection with the    *)
(* one that is dialed for it; the datagrams of one peer are modelled.      *)
(***************************************************************************)
EXTENDS Naturals

CONSTANT MaxPairs \* bound: candidates of listenEndpointPair (16 in the code)

Sockets == {"local", "remote", "peer"}

VARIABLES
    listening,   \* subset of {"tcp", "udp"}
    fsockets,    \* sockets that are open
    ftracked,    \* f.connections
    fwd,         \* the workers, and where newEndpointForwarder is
    fclose,      \* the caller of Close
    fwdFailures  \* may calls fail?

fwdVars == <<listening, fsockets, ftracked, fwd, fclose, fwdFailures>>

\* acceptor, receiver, stream and returner are goroutines; up and down those of the copies.
ForwarderInit ==
    /\ listening = {} /\ fsockets = {} /\ ftracked = {} /\ fwdFailures = TRUE
    /\ fwd = [make |-> "listen", pair |-> 1, acceptor |-> "no", receiver |-> "no", stream |-> "no",
              up |-> FALSE, down |-> FALSE, returner |-> FALSE, peer |-> FALSE]
    /\ fclose = [pc |-> "open", closed |-> FALSE, todo |-> {}, err |-> FALSE]

\* release of some sockets, where the code ignores an error: what fails stays tracked.
ReleaseIgnored(S) ==
    \E released \in SUBSET (S \cap ftracked) :
       /\ fwdFailures \/ released = S \cap ftracked
       /\ fsockets' = fsockets \ released /\ ftracked' = ftracked \ released

-----------------------------------------------------------------------------
(* newEndpointForwarder *)

\* TCP first; when its port is taken for UDP, another one, up to a bound.  A listener that
\* cannot be closed ends the search.
ListenTCP ==
    /\ fwd.make = "listen"
    /\ \/ listening' = {"tcp"} /\ fwd' = [fwd EXCEPT !.make = "udp"]
       \/ UNCHANGED listening /\ fwd' = [fwd EXCEPT !.make = "failed", !.pair = 1]
    /\ UNCHANGED <<fsockets, ftracked, fclose, fwdFailures>>

TryAgain(left) == TRUE \* fault: the close of the listener is not looked at
NextPair(left) == left = {}

ListenUDP ==
    /\ fwd.make = "udp"
    /\ \/ /\ listening' = {"tcp", "udp"}
          /\ fwd' = [fwd EXCEPT !.make = "made", !.pair = 1, !.acceptor = "accept", !.receiver = "read"]
       \/ \E left \in SUBSET {"tcp", "udp"} :
             /\ fwdFailures \/ left = {}
             /\ listening' = left
             /\ \/ fwd' = [fwd EXCEPT !.make = "failed", !.pair = 1]
                \/ /\ fwd.pair < MaxPairs /\ "udp" \notin left /\ NextPair(left)
                   /\ fwd' = [fwd EXCEPT !.make = "listen", !.pair = @ + 1]
    /\ UNCHANGED <<fsockets, ftracked, fclose, fwdFailures>>

-----------------------------------------------------------------------------
(* acceptTCP and the goroutine of a stream *)

ForwarderAccept ==
    /\ fwd.acceptor = "accept" /\ "tcp" \in listening /\ fwd.stream = "no"
    /\ fsockets' = fsockets \cup {"local"} /\ fwd' = [fwd EXCEPT !.acceptor = "track"]
    /\ UNCHANGED <<listening, ftracked, fclose, fwdFailures>>
AcceptEnds ==
    /\ fwd.acceptor = "accept" /\ "tcp" \notin listening /\ fwd' = [fwd EXCEPT !.acceptor = "ended"]
    /\ UNCHANGED <<listening, fsockets, ftracked, fclose, fwdFailures>>

\* track: the socket is recorded first, and released when the forwarder is closed.
Tracked(s, then, else) ==
    IF ~fclose.closed THEN ftracked' = ftracked \cup {s} /\ fwd' = then /\ UNCHANGED fsockets
    ELSE /\ fwd' = else
         /\ \/ fsockets' = fsockets \ {s} /\ UNCHANGED ftracked
            \/ fwdFailures /\ ftracked' = ftracked \cup {s} /\ UNCHANGED fsockets

TrackLocal ==
    /\ fwd.acceptor = "track"
    /\ Tracked("local", [fwd EXCEPT !.acceptor = "accept", !.stream = "dial"], [fwd EXCEPT !.acceptor = "ended"])
    /\ UNCHANGED <<listening, fclose, fwdFailures>>

\* DialContextWithProtect: it may succeed after the context was canceled.
DialRemote ==
    /\ fwd.stream = "dial"
    /\ \/ fsockets' = fsockets \cup {"remote"} /\ fwd' = [fwd EXCEPT !.stream = "track"]
       \/ fwd' = [fwd EXCEPT !.stream = "unwind"] /\ UNCHANGED fsockets
    /\ UNCHANGED <<listening, ftracked, fclose, fwdFailures>>
TrackRemote ==
    /\ fwd.stream = "track"
    /\ Tracked("remote", [fwd EXCEPT !.stream = "copy", !.up = TRUE, !.down = TRUE], [fwd EXCEPT !.stream = "unwind"])
    /\ UNCHANGED <<listening, fclose, fwdFailures>>

\* A copy ends with its source, which half-closes the destination, or with an error, which
\* releases both; the error is certain once one of them is closed.
ForwarderCopyEnds(way) ==
    /\ fwd[way] /\ fwd' = [fwd EXCEPT ![way] = FALSE]
    /\ \/ UNCHANGED <<fsockets, ftracked>>
       \/ ReleaseIgnored({"local", "remote"})
    /\ UNCHANGED <<listening, fclose, fwdFailures>>

\* A remote that was not dialed, or was refused by track, is not the stream's to release.
StreamEnds ==
    /\ \/ fwd.stream = "copy" /\ ~fwd.up /\ ~fwd.down /\ ReleaseIgnored({"local", "remote"})
       \/ fwd.stream = "unwind" /\ ReleaseIgnored({"local"})
    /\ fwd' = [fwd EXCEPT !.stream = "ended"]
    /\ UNCHANGED <<listening, fclose, fwdFailures>>

-----------------------------------------------------------------------------
(* receiveUDP and returnUDP *)

\* A datagram of a peer without a socket is a dial.
Receive ==
    /\ fwd.receiver = "read" /\ "udp" \in listening
    /\ ~fwd.peer /\ "peer" \notin fsockets /\ fwd' = [fwd EXCEPT !.receiver = "dial"]
    /\ UNCHANGED <<listening, fsockets, ftracked, fclose, fwdFailures>>
ReceiveEnds ==
    /\ fwd.receiver = "read" /\ "udp" \notin listening /\ fwd' = [fwd EXCEPT !.receiver = "ended"]
    /\ UNCHANGED <<listening, fsockets, ftracked, fclose, fwdFailures>>
DialPeer ==
    /\ fwd.receiver = "dial"
    /\ \/ fsockets' = fsockets \cup {"peer"} /\ fwd' = [fwd EXCEPT !.receiver = "track"]
       \/ fwd' = [fwd EXCEPT !.receiver = "read"] /\ UNCHANGED fsockets
    /\ UNCHANGED <<listening, ftracked, fclose, fwdFailures>>
TrackPeer ==
    /\ fwd.receiver = "track"
    /\ Tracked("peer", [fwd EXCEPT !.receiver = "read", !.returner = TRUE, !.peer = TRUE],
                       [fwd EXCEPT !.receiver = "ended"])
    /\ UNCHANGED <<listening, fclose, fwdFailures>>
ReturnEnds ==
    /\ fwd.returner /\ fwd' = [fwd EXCEPT !.returner = FALSE, !.peer = FALSE]
    /\ ReleaseIgnored({"peer"})
    /\ UNCHANGED <<listening, fclose, fwdFailures>>

-----------------------------------------------------------------------------
(* Close *)

ForwarderCloseBegins ==
    /\ fwd.make = "made" /\ fclose.pc \in {"open", "failed"}
    /\ fclose' = [pc |-> "listeners", closed |-> TRUE, todo |-> ftracked, err |-> FALSE]
    /\ UNCHANGED <<listening, fsockets, ftracked, fwd, fwdFailures>>

CloseListeners ==
    /\ fclose.pc = "listeners"
    /\ \E left \in SUBSET listening :
          /\ fwdFailures \/ left = {}
          /\ listening' = left /\ fclose' = [fclose EXCEPT !.pc = "sweep", !.err = left # {}]
    /\ UNCHANGED <<fsockets, ftracked, fwd, fwdFailures>>

\* Both passes over a snapshot.
ReleaseSocket(s) ==
    /\ fclose.pc \in {"sweep", "late"} /\ s \in fclose.todo
    /\ \/ /\ fsockets' = fsockets \ {s} /\ ftracked' = ftracked \ {s}
          /\ fclose' = [fclose EXCEPT !.todo = @ \ {s}]
       \/ /\ fwdFailures /\ s \in fsockets /\ UNCHANGED <<fsockets, ftracked>>
          /\ fclose' = [fclose EXCEPT !.todo = @ \ {s}, !.err = TRUE]
    /\ UNCHANGED <<listening, fwd, fwdFailures>>

ForwarderSwept ==
    /\ fclose.pc = "sweep" /\ fclose.todo = {}
    /\ fclose' = [fclose EXCEPT !.pc = IF fclose.err THEN "failed" ELSE "drain"]
    /\ UNCHANGED <<listening, fsockets, ftracked, fwd, fwdFailures>>

ForwarderNoWorkers ==
    /\ {fwd.acceptor, fwd.receiver, fwd.stream} \subseteq {"no", "ended"}
    /\ ~fwd.up /\ ~fwd.down /\ ~fwd.returner

Untracked == {} \* fault: what was dialed meanwhile is not looked for
Late == ftracked
ForwarderJoined ==
    /\ fclose.pc = "drain" /\ ForwarderNoWorkers /\ fclose' = [fclose EXCEPT !.pc = "late", !.todo = Late]
    /\ UNCHANGED <<listening, fsockets, ftracked, fwd, fwdFailures>>
ForwarderCloseReturns ==
    /\ fclose.pc = "late" /\ fclose.todo = {}
    /\ fclose' = [fclose EXCEPT !.pc = IF fclose.err THEN "failed" ELSE "closed"]
    /\ UNCHANGED <<listening, fsockets, ftracked, fwd, fwdFailures>>

FwdFailuresEnd ==
    /\ fwdFailures /\ fwdFailures' = FALSE /\ UNCHANGED <<listening, fsockets, ftracked, fwd, fclose>>

ForwarderClosing ==
    \/ CloseListeners \/ ForwarderSwept \/ ForwarderJoined \/ ForwarderCloseReturns
    \/ \E s \in Sockets : ReleaseSocket(s)
Streaming == DialRemote \/ TrackRemote \/ StreamEnds
Receiving == ReceiveEnds \/ DialPeer \/ TrackPeer
Accepting == AcceptEnds \/ TrackLocal
\* Certain once a socket of the copy, or the peer's, is closed.
Interrupted(way) == ForwarderCopyEnds(way) /\ ~({"local", "remote"} \subseteq fsockets)
NoReturn == ReturnEnds /\ "peer" \notin fsockets

ForwarderNext ==
    \/ ListenTCP \/ ListenUDP \/ ForwarderAccept \/ Accepting \/ Streaming \/ Receive \/ Receiving
    \/ ForwarderCopyEnds("up") \/ ForwarderCopyEnds("down") \/ ReturnEnds
    \/ ForwarderCloseBegins \/ ForwarderClosing \/ FwdFailuresEnd

\* A Close goes on, and one that failed is repeated.
ForwarderFair == ForwarderClosing \/ (fclose.pc = "failed" /\ ForwarderCloseBegins)

-----------------------------------------------------------------------------
\* endpointForwarder.Close: when it returns without an error, no worker runs and no socket
\* is open; and listenEndpointPair begins another pair only when the last one is closed.
ForwarderDrained ==
    /\ fclose.pc = "closed" => ForwarderNoWorkers /\ fsockets = {} /\ listening = {}
    /\ fwd.make = "listen" => listening = {}

\* No Close is under way.
ForwarderAtRest == fclose.pc \in {"open", "closed"}
=============================================================================
