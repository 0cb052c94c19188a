----------------------------- MODULE XrayDevice -----------------------------
(***************************************************************************)
(* xray: an Xray instance dials through process-wide hooks, so a device    *)
(* owns these hooks (instanceOwner) from Open until every socket that was  *)
(* dialed through them is closed.  Candidates of one session, and then the *)
(* next session, open devices one after the other or fail to.              *)
(*                                                                         *)
(* An action is one critical section under transportSockets.mu or one call *)
(* of Xray (external) or of the network.  A dial is a goroutine of Xray;   *)
(* Xray keeps a socket as long as it likes, beyond Instance.Close too.     *)
(***************************************************************************)
CONSTANTS
    Devices,  \* bound: devices that are opened
    XrayDials \* bound: dials; a dial has one socket at a time

\* Nobody, and the dialer of Xray itself, are no devices.
ASSUME XrayAssumption == "none" \notin Devices /\ "default" \notin Devices

VARIABLES
    instanceOwner, \* the device that has locked it, or "none"
    systemDialer,  \* whose dialer Xray uses, or "default"
    device,        \* device -> where its caller is, and what it has
    xdial,         \* dial -> [dev, pc]
    rawSockets,    \* dials whose socket is open
    owned,         \* dials whose socket transportSockets has
    xrayFailures   \* may calls fail and deadlines pass?

hooks == <<instanceOwner, systemDialer>>
sockets == <<rawSockets, owned>>
xrayVars == <<hooks, device, xdial, sockets, xrayFailures>>

XrayInit ==
    /\ instanceOwner = "none" /\ systemDialer = "default"
    /\ device = [d \in Devices |-> [pc |-> "new", instance |-> FALSE, retire |-> FALSE,
                                    canceled |-> FALSE, closing |-> FALSE]]
    /\ xdial = [x \in XrayDials |-> [dev |-> "none", pc |-> "none"]]
    /\ rawSockets = {} /\ owned = {} /\ xrayFailures = TRUE

UnderWay == {"dial", "route", "routed", "create", "track", "check"}
Pending(d) == {x \in XrayDials : xdial[x].dev = d /\ xdial[x].pc \in UnderWay}
Owned(d) == {x \in owned : xdial[x].dev = d}
To(d, pc) == device' = [device EXCEPT ![d].pc = pc]

-----------------------------------------------------------------------------
(* Open *)

TryLock(d) ==
    /\ device[d].pc = "new"
    /\ IF instanceOwner = "none"
       THEN instanceOwner' = d /\ device' = [device EXCEPT ![d].pc = "install", ![d].retire = TRUE]
       ELSE To(d, "failed") /\ UNCHANGED instanceOwner
    /\ UNCHANGED <<systemDialer, xdial, sockets, xrayFailures>>

Install(d) ==
    /\ device[d].pc = "install" /\ systemDialer' = d /\ To(d, "start")
    /\ UNCHANGED <<instanceOwner, xdial, sockets, xrayFailures>>

\* GenerateXrayConfig, core.New, BindUnderlyingDNS and Start.
StartInstance(d) ==
    /\ device[d].pc = "start"
    /\ \/ device' = [device EXCEPT ![d].pc = "running", ![d].instance = TRUE]
       \/ \E made \in BOOLEAN :
             xrayFailures /\ device' = [device EXCEPT ![d].pc = "failed", ![d].instance = made]
    /\ UNCHANGED <<hooks, xdial, sockets, xrayFailures>>

-----------------------------------------------------------------------------
(* protectedSystemDialer *)

\* begin: the dialer that is installed is asked, and refuses once it is being closed.
DialSystem(x, d) ==
    /\ xdial[x].pc = "none" /\ device[d].instance /\ systemDialer \in Devices
    /\ xdial' = [xdial EXCEPT ![x] = IF device[systemDialer].closing THEN [dev |-> "none", pc |-> "ended"]
                                     ELSE [dev |-> systemDialer, pc |-> "dial"]]
    /\ UNCHANGED <<hooks, device, sockets, xrayFailures>>

\* The dial of an address has failed: the next one of the name is tried, or none is left.
DialFails(x) ==
    \/ xdial' = [xdial EXCEPT ![x].pc = "ended"]
    \/ xrayFailures /\ xdial' = [xdial EXCEPT ![x].pc = "dial"]

\* Resolving and dialContextError; then a stream is dialed, or the route of datagrams.
DialResolved(x) ==
    /\ xdial[x].pc = "dial"
    /\ \/ DialFails(x)
       \/ /\ ~device[xdial[x].dev].canceled
          /\ \E at \in {"create", "route"} : xdial' = [xdial EXCEPT ![x].pc = at]
    /\ UNCHANGED <<hooks, device, sockets, xrayFailures>>

\* dialPacket connects a socket to see that there is a route, and closes it; a close that
\* reports an error has closed it all the same, as for every descriptor of Go.
CheckRoute(x) ==
    /\ xdial[x].pc = "route"
    /\ \/ rawSockets' = rawSockets \cup {x} /\ xdial' = [xdial EXCEPT ![x].pc = "routed"]
       \/ DialFails(x) /\ UNCHANGED rawSockets
    /\ UNCHANGED <<hooks, device, owned, xrayFailures>>

RouteLeft(x) == rawSockets \* fault: the socket of the check stays
RouteClosed(x) == rawSockets \ {x}
CloseRoute(x) ==
    /\ xdial[x].pc = "routed" /\ rawSockets' = RouteClosed(x)
    /\ \/ xdial' = [xdial EXCEPT ![x].pc = "create"]
       \/ xrayFailures /\ DialFails(x)
    /\ UNCHANGED <<hooks, device, owned, xrayFailures>>

\* Connecting a stream, or binding a socket for datagrams: control tests the contexts and
\* protects the socket, and a cancellation may still come before the call is over.
CreateSocket(x) ==
    /\ xdial[x].pc = "create"
    /\ \/ /\ rawSockets' = rawSockets \cup {x} /\ xdial' = [xdial EXCEPT ![x].pc = "track"]
       \/ DialFails(x) /\ UNCHANGED rawSockets
    /\ UNCHANGED <<hooks, device, owned, xrayFailures>>

\* transportSockets.track: a socket is owned first; when the owner is closing it is closed.
Track(x) ==
    /\ xdial[x].pc = "track"
    /\ owned' = owned \cup {x} /\ xdial' = [xdial EXCEPT ![x].pc = "check"]
    /\ UNCHANGED <<hooks, device, rawSockets, xrayFailures>>

\* The rest of track and of trackSocket, and end: the socket is handed to Xray, or closed
\* because the device was canceled; a close that fails leaves it owned.
CheckSocket(x) ==
    LET d == xdial[x].dev IN
    /\ xdial[x].pc = "check"
    /\ IF ~device[d].closing /\ ~device[d].canceled
       THEN xdial' = [xdial EXCEPT ![x].pc = "held"] /\ UNCHANGED sockets
       ELSE /\ xdial' = [xdial EXCEPT ![x].pc = "ended"]
            /\ \/ rawSockets' = rawSockets \ {x} /\ owned' = owned \ {x}
               \/ xrayFailures /\ UNCHANGED sockets
    /\ UNCHANGED <<hooks, device, xrayFailures>>

\* Xray closes a socket it has.
XrayCloses(x) ==
    /\ xdial[x].pc = "held" /\ xdial' = [xdial EXCEPT ![x].pc = "ended"]
    /\ \/ rawSockets' = rawSockets \ {x} /\ owned' = owned \ {x}
       \/ xrayFailures /\ UNCHANGED sockets
    /\ UNCHANGED <<hooks, device, xrayFailures>>

-----------------------------------------------------------------------------
(* CloseContext *)

CloseDevice(d) ==
    /\ device[d].pc \in {"running", "failed"}
    /\ device' = [device EXCEPT ![d].pc = "instance", ![d].canceled = TRUE]
    /\ UNCHANGED <<hooks, xdial, sockets, xrayFailures>>

CloseInstance(d) ==
    /\ device[d].pc = "instance"
    /\ \/ device' = [device EXCEPT ![d].instance = FALSE, ![d].pc = IF device[d].retire THEN "retire" ELSE "closed"]
       \/ xrayFailures /\ device[d].instance /\ To(d, "failed")
    /\ UNCHANGED <<hooks, xdial, sockets, xrayFailures>>

\* transportSockets.close: the sockets that it finds, one by one.
CloseSockets(d) ==
    /\ device[d].pc = "retire" /\ device' = [device EXCEPT ![d].closing = TRUE, ![d].pc = "settle"]
    /\ \E closed \in SUBSET Owned(d) :
          /\ xrayFailures \/ closed = Owned(d)
          /\ owned' = owned \ closed /\ rawSockets' = rawSockets \ closed
    /\ UNCHANGED <<hooks, xdial, xrayFailures>>

NothingOwned(d) == Owned(d) = {} \* fault: dials under way are not waited for
NothingLeft(d) == Pending(d) = {} /\ Owned(d) = {}

\* The dials under way are awaited until the deadline.
Settle(d) ==
    /\ device[d].pc = "settle"
    /\ \/ NothingLeft(d) /\ To(d, "reset")
       \/ ~NothingLeft(d) /\ (Pending(d) = {} \/ xrayFailures) /\ To(d, "failed")
    /\ UNCHANGED <<hooks, xdial, sockets, xrayFailures>>

ResetDialer(d) ==
    /\ device[d].pc = "reset" /\ systemDialer' = "default" /\ To(d, "unlock")
    /\ UNCHANGED <<instanceOwner, xdial, sockets, xrayFailures>>

Unlock(d) ==
    /\ device[d].pc = "unlock" /\ instanceOwner' = "none"
    /\ device' = [device EXCEPT ![d].pc = "closed", ![d].retire = FALSE]
    /\ UNCHANGED <<systemDialer, xdial, sockets, xrayFailures>>

XrayFailuresEnd ==
    /\ xrayFailures /\ xrayFailures' = FALSE /\ UNCHANGED <<hooks, device, xdial, sockets>>

XrayOpening(d) == Install(d) \/ StartInstance(d)
XrayClosing(d) == CloseInstance(d) \/ CloseSockets(d) \/ Settle(d) \/ ResetDialer(d) \/ Unlock(d)
XrayDialing(x) ==
    \/ DialResolved(x) \/ CheckRoute(x) \/ CloseRoute(x) \/ CreateSocket(x)
    \/ Track(x) \/ CheckSocket(x)

XrayNext ==
    \/ \E d \in Devices : TryLock(d) \/ XrayOpening(d) \/ CloseDevice(d) \/ XrayClosing(d)
    \/ \E x \in XrayDials : XrayDialing(x) \/ XrayCloses(x) \/ \E d \in Devices : DialSystem(x, d)
    \/ XrayFailuresEnd

\* An Open or a Close goes on, and a Close that failed is repeated.
XrayFair(d) == XrayOpening(d) \/ XrayClosing(d) \/ (device[d].pc = "failed" /\ CloseDevice(d))

-----------------------------------------------------------------------------
\* InstallProtectedSystemDialer and its retirement: Xray of a running device dials through
\* the dialer of that device, and when Close has succeeded nothing dialed through the
\* device's dialer is left, however late a dial ends.
DialerOwned ==
    /\ \A d \in Devices : device[d].pc = "running" => systemDialer = d
    /\ \A d \in Devices : device[d].pc = "closed" => systemDialer # d /\ instanceOwner # d
    /\ \A x \in rawSockets : device[xdial[x].dev].pc # "closed"

\* No device is being opened or closed, or was left after an error.
XrayAtRest == \A d \in Devices : device[d].pc \in {"new", "running", "closed"}
=============================================================================
