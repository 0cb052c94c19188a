---------------------------- MODULE OutlineDevice ----------------------------
(***************************************************************************)
(* outline: a local SOCKS server whose clients are relayed over Outline    *)
(* transports.  The device owns the listener, its workers, every accepted  *)
(* connection and every upstream; Close ends all of them and may be called *)
(* again after an error.                                                   *)
(*                                                                         *)
(* An action is one critical section under d.mu, a scope's mu or an        *)
(* association's mu with the calls next to it, or one wait.  A handle is   *)
(* <<flow, kind>>.  A close that the code ignores may leave its handle     *)
(* open and tracked; closing a pending or a relay socket always closes it. *)
(* The SOCKS server (go-socks5) is external: a worker per connection,      *)
(* which closes the target and the client when it returns.                 *)
(***************************************************************************)
CONSTANT Flows \* bound: connections accepted; one upstream at a time each

\* A flow is not a place of the worker in Serve.
ASSUME FlowsAssumption == "accept" \notin Flows /\ "ended" \notin Flows

VARIABLES
    handles,     \* sockets that are open
    connections, \* those that the device tracks
    outline,     \* the device: canceled, closing, listener
    acceptor,    \* the worker in Serve: "accept", a flow it tracks, or "ended"
    flow,        \* flow -> its workers and its pending dial
    outlineClose \* the caller of Close

outlineVars == <<handles, connections, outline, acceptor, flow, outlineClose>>

Client(f) == <<f, "client">>
Up(f) == <<f, "up">>
Relay(f) == <<f, "relay">>

\* pc is the worker of the connection, dial the dial under way in it or in relayFromClient,
\* from and to are the workers of an association, inMap says that it has its upstream; dns
\* is what a truncatedDNSConn holds, {} when the upstream is none.
NoFlow == [pc |-> "none", dial |-> "none", aborted |-> FALSE, from |-> "none", to |-> FALSE,
           inMap |-> FALSE, closed |-> FALSE, dns |-> {}]

OutlineInit ==
    /\ handles = {} /\ connections = {}
    /\ outline = [canceled |-> FALSE, closing |-> FALSE, listener |-> TRUE, failures |-> TRUE]
    /\ acceptor = "accept" /\ flow = [f \in Flows |-> NoFlow]
    /\ outlineClose = [pc |-> "open", todo |-> {}, err |-> FALSE]

\* Where DNS has to use TCP, the upstream of a query is a truncatedDNSConn: it is never
\* pending and its Close cannot fail.
Truncated(f) == "conn" \in flow[f].dns
Unfailing == {Up(f) : f \in {g \in Flows : Truncated(g)}}

\* Closes some of the handles in S; those whose close fails stay open and tracked.
CloseIgnored(S) ==
    \E closed \in SUBSET (S \cap handles) :
       /\ outline.failures \/ closed = S \cap handles
       /\ S \cap handles \cap Unfailing \subseteq closed
       /\ handles' = handles \ closed /\ connections' = connections \ closed

-----------------------------------------------------------------------------
(* The listener and the worker of a connection *)

OutlineAccept(f) ==
    /\ acceptor = "accept" /\ outline.listener /\ flow[f].pc = "none"
    /\ handles' = handles \cup {Client(f)} /\ acceptor' = f
    /\ flow' = [flow EXCEPT ![f].pc = "tracking"]
    /\ UNCHANGED <<connections, outline, outlineClose>>

\* track: a handle that comes after Close began is owned, and not used.
TrackClient(f) ==
    /\ acceptor = f /\ connections' = connections \cup {Client(f)}
    /\ IF outline.closing THEN acceptor' = "ended" /\ flow' = [flow EXCEPT ![f].pc = "ended"]
       ELSE acceptor' = "accept" /\ flow' = [flow EXCEPT ![f].pc = "serve"]
    /\ UNCHANGED <<handles, outline, outlineClose>>

ServeEnds ==
    /\ acceptor = "accept" /\ ~outline.listener /\ acceptor' = "ended"
    /\ UNCHANGED <<handles, connections, outline, flow, outlineClose>>

\* The request: CONNECT dials, ASSOCIATE opens a relay, anything else ends the worker.
Request(f) ==
    /\ flow[f].pc = "serve"
    /\ \/ /\ Client(f) \in handles /\ flow' = [flow EXCEPT ![f].pc = "connect", ![f].dial = "begin"]
          /\ UNCHANGED handles
       \/ /\ Client(f) \in handles /\ handles' = handles \cup {Relay(f)}
          /\ flow' = [flow EXCEPT ![f].pc = "associate", ![f].from = "read"]
       \/ flow' = [flow EXCEPT ![f].pc = "hangup"] /\ UNCHANGED handles
    /\ UNCHANGED <<connections, outline, acceptor, outlineClose>>

Connected(f) ==
    /\ flow[f].pc = "connect" /\ flow[f].dial \in {"held", "failed"}
    /\ flow' = [flow EXCEPT ![f].pc = IF flow[f].dial = "held" THEN "copy" ELSE "hangup"]
    /\ UNCHANGED <<handles, connections, outline, acceptor, outlineClose>>

\* Copying ends when a peer ends it, and when one of the connections is closed.
OutlineCopyEnds(f) ==
    /\ flow[f].pc = "copy" /\ flow' = [flow EXCEPT ![f].pc = "hangup"]
    /\ UNCHANGED <<handles, connections, outline, acceptor, outlineClose>>

\* An upstream that was tracked too late is not the worker's to close.
Hangup(f) ==
    /\ flow[f].pc = "hangup"
    /\ CloseIgnored({Client(f)} \cup (IF flow[f].dial = "held" THEN {Up(f)} ELSE {}))
    /\ flow' = [flow EXCEPT ![f].pc = "ended"]
    /\ UNCHANGED <<outline, acceptor, outlineClose>>

-----------------------------------------------------------------------------
(* handleDial and pendingStreamConnScope *)

\* The context of a dial ends with the device, and with its association.
DialCanceled(f) == outline.canceled \/ flow[f].pc \in {"teardown", "join"}

\* DialStream or DialPacket opens a socket and registers it as pending.
DialBegins(f) ==
    /\ flow[f].dial = "begin"
    /\ \/ /\ ~flow[f].aborted /\ handles' = handles \cup {Up(f)}
          /\ flow' = [flow EXCEPT ![f].dial = "handshake"]
       \/ /\ flow[f].from = "dial" /\ handles' = handles \cup {Up(f)} \* newTruncatedDNSConn
          /\ flow' = [flow EXCEPT ![f].dial = "track", ![f].dns = {"conn"}]
       \/ flow' = [flow EXCEPT ![f].dial = "failed"] /\ UNCHANGED handles
    /\ UNCHANGED <<connections, outline, acceptor, outlineClose>>

LeavePending(f) == handles \* fault: the context alone does not interrupt a handshake
ClosePending(f) == handles \ {Up(f)}

\* The callback of the context: the pending socket is closed under the handshake.
Abort(f) ==
    /\ flow[f].dial \in {"begin", "handshake"} /\ DialCanceled(f) /\ ~flow[f].aborted
    /\ flow' = [flow EXCEPT ![f].aborted = TRUE]
    /\ handles' = IF flow[f].dial = "handshake" THEN ClosePending(f) ELSE handles
    /\ UNCHANGED <<connections, outline, acceptor, outlineClose>>

\* handoff, or an error and discard.
HandshakeEnds(f) ==
    /\ flow[f].dial = "handshake"
    /\ \/ /\ ~flow[f].aborted /\ flow' = [flow EXCEPT ![f].dial = "track"] /\ UNCHANGED handles
       \/ flow' = [flow EXCEPT ![f].dial = "failed"] /\ handles' = handles \ {Up(f)}
    /\ UNCHANGED <<connections, outline, acceptor, outlineClose>>

TrackUp(f) ==
    /\ flow[f].dial = "track" /\ connections' = connections \cup {Up(f)}
    /\ flow' = [flow EXCEPT ![f].dial = IF outline.closing THEN "failed" ELSE "held"]
    /\ UNCHANGED <<handles, outline, acceptor, outlineClose>>

-----------------------------------------------------------------------------
(* udpAssociation *)

\* relayFromClient reads a datagram: it dials an upstream, or writes to the one it has.
FromClient(f) ==
    /\ flow[f].from = "read"
    /\ \/ Relay(f) \notin handles /\ flow' = [flow EXCEPT ![f].from = "ended"]
       \/ /\ Relay(f) \in handles /\ ~flow[f].inMap /\ ~flow[f].to /\ Up(f) \notin handles
          /\ flow' = [flow EXCEPT ![f].from = "dial", ![f].dial = "begin", ![f].aborted = FALSE,
                                  ![f].dns = {}]
       \/ Relay(f) \in handles /\ flow[f].inMap /\ flow' = [flow EXCEPT ![f].from = "write"]
    /\ UNCHANGED <<handles, connections, outline, acceptor, outlineClose>>

\* The write, or its error and dropUpstream.
WriteFails(f) ==
    /\ flow' = [flow EXCEPT ![f].from = "read", ![f].inMap = FALSE]
    /\ IF flow[f].inMap THEN CloseIgnored({Up(f)}) ELSE UNCHANGED <<handles, connections>>
PlainWrite(f) ==
    /\ flow[f].from = "write" /\ ~Truncated(f)
    /\ \/ WriteFails(f)
       \/ /\ Up(f) \in handles /\ flow' = [flow EXCEPT ![f].from = "read"]
          /\ UNCHANGED <<handles, connections>>
    /\ UNCHANGED <<outline, acceptor, outlineClose>>

\* truncatedDNSConn.Write waits until the answer before it was read or the connection is
\* closed; what is no query is an error of the reader.
SleepingWriter(f) == "pending" \notin flow[f].dns \* fault: closing does not wake the writer
WriterAwake(f) == "pending" \notin flow[f].dns \/ Up(f) \notin handles
TruncatedWrite(f) ==
    /\ flow[f].from = "write" /\ Truncated(f) /\ WriterAwake(f)
    /\ IF Up(f) \notin handles THEN WriteFails(f)
       ELSE /\ \E more \in {"pending", "readErr"} :
                  flow' = [flow EXCEPT ![f].from = "read", ![f].dns = @ \cup {more}]
            /\ UNCHANGED <<handles, connections>>
    /\ UNCHANGED <<outline, acceptor, outlineClose>>

\* upstreamFor after its dial: an association that was closed meanwhile keeps nothing.
Insert(f) ==
    /\ flow[f].from = "dial" /\ flow[f].dial \in {"held", "failed"}
    /\ \/ /\ flow[f].dial = "held" /\ ~flow[f].closed
          /\ flow' = [flow EXCEPT ![f].from = "write", ![f].dial = "none", ![f].inMap = TRUE, ![f].to = TRUE]
          /\ UNCHANGED <<handles, connections>>
       \/ /\ flow[f].dial = "held" /\ flow[f].closed /\ CloseIgnored({Up(f)})
          /\ flow' = [flow EXCEPT ![f].from = "read", ![f].dial = "none"]
       \/ /\ flow[f].dial = "failed" /\ UNCHANGED <<handles, connections>>
          /\ flow' = [flow EXCEPT ![f].from = "read", ![f].dial = "none"]
    /\ UNCHANGED <<outline, acceptor, outlineClose>>

\* truncatedDNSConn.Read: an error before an answer; an answer is given once.
TakeAnswer(f) ==
    /\ flow[f].to /\ flow[f].dns = {"conn", "pending"} /\ Up(f) \in handles
    /\ flow' = [flow EXCEPT ![f].dns = @ \ {"pending"}]
    /\ UNCHANGED <<handles, connections, outline, acceptor, outlineClose>>

\* relayToClient ends when a read fails or when it cannot write an answer, and drops its
\* upstream unless that was dropped already.
ReaderAwake(f) == Up(f) \notin handles \/ "readErr" \in flow[f].dns
ToClientEnds(f) ==
    /\ flow[f].to /\ (ReaderAwake(f) \/ flow[f].dns # {"conn"})
    /\ flow' = [flow EXCEPT ![f].to = FALSE, ![f].inMap = FALSE]
    /\ IF flow[f].inMap THEN CloseIgnored({Up(f)}) ELSE UNCHANGED <<handles, connections>>
    /\ UNCHANGED <<outline, acceptor, outlineClose>>

\* The callback of the association's context: the relay and the control connection.
AssociationCanceled(f) ==
    /\ flow[f].pc = "associate" /\ outline.canceled /\ Relay(f) \in handles
    /\ \E closed \in SUBSET ({Client(f)} \cap handles) :
          /\ outline.failures \/ closed = {Client(f)} \cap handles
          /\ handles' = handles \ (closed \cup {Relay(f)}) /\ connections' = connections \ closed
    /\ UNCHANGED <<outline, acceptor, flow, outlineClose>>

\* The control connection ended; the callback is stopped or awaited, the context canceled.
ControlEnds(f) ==
    /\ flow[f].pc = "associate" /\ flow' = [flow EXCEPT ![f].pc = "teardown"]
    /\ UNCHANGED <<handles, connections, outline, acceptor, outlineClose>>

\* closeUpstreams and relay.Close.
Teardown(f) ==
    /\ flow[f].pc = "teardown"
    /\ flow' = [flow EXCEPT ![f].pc = "join", ![f].closed = TRUE, ![f].inMap = FALSE]
    /\ \E closed \in SUBSET (IF flow[f].inMap THEN {Up(f)} \cap handles ELSE {}) :
          /\ (outline.failures /\ ~Truncated(f)) \/ ~flow[f].inMap \/ closed = {Up(f)} \cap handles
          /\ handles' = handles \ (closed \cup {Relay(f)}) /\ connections' = connections \ closed
    /\ UNCHANGED <<outline, acceptor, outlineClose>>

Join(f) ==
    /\ flow[f].pc = "join" /\ flow[f].from = "ended" /\ ~flow[f].to
    /\ flow' = [flow EXCEPT ![f].pc = "hangup"]
    /\ UNCHANGED <<handles, connections, outline, acceptor, outlineClose>>

-----------------------------------------------------------------------------
(* Close *)

OutlineCloseBegins ==
    /\ outlineClose.pc \in {"open", "failed"} /\ outlineClose' = [outlineClose EXCEPT !.pc = "snapshot"]
    /\ outline' = [outline EXCEPT !.canceled = TRUE]
    /\ UNCHANGED <<handles, connections, acceptor, flow>>

Snapshot ==
    /\ outlineClose.pc = "snapshot" /\ outline' = [outline EXCEPT !.closing = TRUE]
    /\ outlineClose' = [pc |-> "listener", todo |-> connections, err |-> FALSE]
    /\ UNCHANGED <<handles, connections, acceptor, flow>>

CloseListener ==
    /\ outlineClose.pc = "listener"
    /\ \/ outline' = [outline EXCEPT !.listener = FALSE] /\ outlineClose' = [outlineClose EXCEPT !.pc = "sweep"]
       \/ /\ outline.failures /\ outline.listener /\ UNCHANGED outline
          /\ outlineClose' = [outlineClose EXCEPT !.pc = "sweep", !.err = TRUE]
    /\ UNCHANGED <<handles, connections, acceptor, flow>>

CloseConnection(c) ==
    /\ outlineClose.pc \in {"sweep", "late"} /\ c \in outlineClose.todo
    /\ \/ /\ handles' = handles \ {c} /\ connections' = connections \ {c}
          /\ outlineClose' = [outlineClose EXCEPT !.todo = @ \ {c}]
       \/ /\ outline.failures /\ c \in handles \ Unfailing /\ UNCHANGED <<handles, connections>>
          /\ outlineClose' = [outlineClose EXCEPT !.todo = @ \ {c}, !.err = TRUE]
    /\ UNCHANGED <<outline, acceptor, flow>>

OutlineSwept ==
    /\ outlineClose.pc = "sweep" /\ outlineClose.todo = {}
    /\ outlineClose' = [outlineClose EXCEPT !.pc = IF outlineClose.err THEN "failed" ELSE "drain"]
    /\ UNCHANGED <<handles, connections, outline, acceptor, flow>>

OutlineNoWorkers ==
    /\ acceptor = "ended"
    /\ \A f \in Flows : /\ flow[f].pc \in {"none", "ended"} /\ ~flow[f].to
                        /\ flow[f].from \in {"none", "ended"}

\* workers.Wait, and what was tracked since the snapshot.
NothingLate == {} \* fault: only the first snapshot is closed
LateHandles == connections
OutlineJoined ==
    /\ outlineClose.pc = "drain" /\ OutlineNoWorkers
    /\ outlineClose' = [outlineClose EXCEPT !.pc = "late", !.todo = LateHandles]
    /\ UNCHANGED <<handles, connections, outline, acceptor, flow>>

OutlineCloseReturns ==
    /\ outlineClose.pc = "late" /\ outlineClose.todo = {}
    /\ outlineClose' = [outlineClose EXCEPT !.pc = IF outlineClose.err THEN "failed" ELSE "closed"]
    /\ UNCHANGED <<handles, connections, outline, acceptor, flow>>

OutlineFailuresEnd ==
    /\ outline.failures /\ outline' = [outline EXCEPT !.failures = FALSE]
    /\ UNCHANGED <<handles, connections, acceptor, flow, outlineClose>>

OutlineClosing ==
    \/ Snapshot \/ CloseListener \/ OutlineSwept \/ OutlineJoined \/ OutlineCloseReturns
    \/ \E c \in connections \cup outlineClose.todo : CloseConnection(c)
\* What goroutines do without a peer: the worker of the connection, the dial, callbacks.
Serving(f) == TrackClient(f) \/ Connected(f) \/ Hangup(f) \/ Teardown(f) \/ Join(f)
OutlineDialing(f) == DialBegins(f) \/ TrackUp(f) \/ Insert(f) \/ TruncatedWrite(f)
Replying(f) == TakeAnswer(f) \/ (ToClientEnds(f) /\ ReaderAwake(f))
\* What returns when the peer acts, and at the latest when its socket is closed.
Blocked(f) ==
    \/ Request(f) /\ Client(f) \in handles
    \/ OutlineCopyEnds(f) /\ {Client(f), Up(f)} \subseteq handles
    \/ HandshakeEnds(f) /\ Up(f) \in handles
    \/ FromClient(f) /\ Relay(f) \in handles
    \/ PlainWrite(f) /\ Up(f) \in handles
    \/ ToClientEnds(f) /\ ~ReaderAwake(f)
    \/ ControlEnds(f) /\ Client(f) \in handles
Unblocked(f) ==
    \/ Request(f) /\ Client(f) \notin handles
    \/ OutlineCopyEnds(f) /\ ~({Client(f), Up(f)} \subseteq handles)
    \/ HandshakeEnds(f) /\ Up(f) \notin handles
    \/ FromClient(f) /\ Relay(f) \notin handles
    \/ PlainWrite(f) /\ Up(f) \notin handles
    \/ ControlEnds(f) /\ Client(f) \notin handles

OutlineNext ==
    \/ OutlineCloseBegins \/ OutlineClosing \/ ServeEnds \/ OutlineFailuresEnd
    \/ \E f \in Flows : OutlineAccept(f) \/ Serving(f) \/ OutlineDialing(f) \/ Replying(f) \/ Blocked(f)
                       \/ Unblocked(f) \/ Abort(f) \/ AssociationCanceled(f)

\* A Close goes on, and one that failed is repeated.
OutlineFair == OutlineClosing \/ (outlineClose.pc = "failed" /\ OutlineCloseBegins)

-----------------------------------------------------------------------------
\* OutlineDevice.Close: when it returns without an error, no worker runs and no socket is
\* open, tracked or not, whatever was accepted, dialed or handed over while it ran.
OutlineDrained == outlineClose.pc = "closed" => OutlineNoWorkers /\ handles = {} /\ ~outline.listener

\* No Close is under way.
OutlineAtRest == outlineClose.pc \in {"open", "closed"}
=============================================================================
