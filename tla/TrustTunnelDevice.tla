-------------------------- MODULE TrustTunnelDevice --------------------------
(***************************************************************************)
(* trusttunnel: a native client behind process-wide callbacks, so at most  *)
(* one device owns it (nativeOwner, a channel of one place) from Open      *)
(* until Close has stopped it and closed the endpoint forwarders it dials  *)
(* through (module EndpointForwarder).                                     *)
(*                                                                         *)
(* Open and Close hold lifecycleMu; Close may come while Open waits.  An   *)
(* action is what happens between two waits or native calls (external).    *)
(***************************************************************************)
CONSTANT TTDevices \* bound: devices that are created

\* Nobody is no device.
ASSUME TTAssumption == "none" \notin TTDevices

NativeStates == {"unobserved", "connecting", "connected", "error"}

VARIABLES
    nativeOwner,  \* who has the place in the channel, or "none"
    native,       \* whose configuration the native client runs, or "none"
    tt,           \* device -> its fields and the goroutines in its methods
    ttFailures    \* may calls fail?

ttVars == <<nativeOwner, native, tt, ttFailures>>

\* open and close are the goroutines in Open and in Close; wait is the one in WaitReady.
NewDevice == [open |-> "no", close |-> "no", wait |-> "no", mu |-> FALSE, canceled |-> FALSE,
              nativeOwned |-> FALSE, forwarding |-> FALSE, closed |-> FALSE,
              state |-> "unobserved", readinessClosed |-> FALSE]

TTInit ==
    /\ nativeOwner = "none" /\ native = "none" /\ ttFailures = TRUE
    /\ tt = [d \in TTDevices |-> NewDevice]

-----------------------------------------------------------------------------
(* Open *)

OpenBegins(d) ==
    /\ tt[d].open = "no" /\ tt[d].close = "no" /\ tt' = [tt EXCEPT ![d].open = "lock"]
    /\ UNCHANGED <<nativeOwner, native, ttFailures>>

OpenLocked(d) ==
    /\ tt[d].open = "lock" /\ ~tt[d].mu
    /\ tt' = IF tt[d].closed THEN [tt EXCEPT ![d].open = "returned"]
             ELSE [tt EXCEPT ![d].open = "own", ![d].mu = TRUE]
    /\ UNCHANGED <<nativeOwner, native, ttFailures>>

\* The select between the device's context and the place in the channel; the context is
\* tested again, because select may choose either when both are ready.
Own(d) ==
    /\ tt[d].open = "own"
    /\ \/ /\ tt[d].canceled /\ tt' = [tt EXCEPT ![d].open = "returned", ![d].mu = FALSE]
          /\ UNCHANGED nativeOwner
       \/ /\ nativeOwner = "none" /\ nativeOwner' = d
          /\ tt' = IF tt[d].canceled THEN [tt EXCEPT ![d].open = "returned", ![d].mu = FALSE, ![d].nativeOwned = TRUE]
                   ELSE [tt EXCEPT ![d].open = "start", ![d].nativeOwned = TRUE]
    /\ UNCHANGED <<native, ttFailures>>

\* The forwarders, one after the other: those made before an error are kept.  Then Start.
StartNative(d) ==
    /\ tt[d].open = "start"
    /\ \E made \in BOOLEAN, started \in BOOLEAN :
          /\ started => made
          /\ ~started => ttFailures \/ tt[d].canceled
          /\ tt' = [tt EXCEPT ![d].open = IF started THEN "opened" ELSE "returned",
                              ![d].mu = FALSE, ![d].forwarding = made]
          /\ native' = IF started THEN d ELSE native
    /\ UNCHANGED <<nativeOwner, ttFailures>>

-----------------------------------------------------------------------------
(* nativeReadiness *)

SleepOn(wait) == wait \* fault: a change does not wake who waits
Wake(wait) == IF wait = "blocked" THEN "check" ELSE wait

\* The callback of the native client: it belongs to the device that runs.
StateChanged(d) ==
    /\ native = d /\ ~tt[d].readinessClosed
    /\ \E state \in NativeStates \ {"unobserved", tt[d].state} :
          tt' = [tt EXCEPT ![d].state = state, ![d].wait = Wake(@)]
    /\ UNCHANGED <<nativeOwner, native, ttFailures>>

WaitReady(d) ==
    /\ tt[d].open = "opened" /\ tt[d].wait = "no" /\ tt' = [tt EXCEPT ![d].wait = "check"]
    /\ UNCHANGED <<nativeOwner, native, ttFailures>>

\* One turn of the loop: the channel to wait on is read in the same critical section.
CheckReady(d) ==
    /\ tt[d].wait = "check"
    /\ tt' = [tt EXCEPT ![d].wait = IF tt[d].readinessClosed \/ tt[d].state \in {"connected", "error"}
                                    THEN "returned" ELSE "blocked"]
    /\ UNCHANGED <<nativeOwner, native, ttFailures>>

\* The context of WaitReady ends, before a turn of the loop or while it waits.
WaitEnds(d) ==
    /\ tt[d].wait \in {"check", "blocked"} /\ tt' = [tt EXCEPT ![d].wait = "returned"]
    /\ UNCHANGED <<nativeOwner, native, ttFailures>>

-----------------------------------------------------------------------------
(* Close *)

LockFirst(d) == FALSE \* fault: the context is canceled under the lock
CancelFirst(d) == TRUE

TTCloseBegins(d) ==
    /\ tt[d].close \in {"no", "failed"}
    /\ tt' = [tt EXCEPT ![d].close = "lock", ![d].canceled = @ \/ CancelFirst(d),
                        ![d].readinessClosed = TRUE, ![d].wait = Wake(@)]
    /\ UNCHANGED <<nativeOwner, native, ttFailures>>

CloseLocked(d) ==
    /\ tt[d].close = "lock" /\ ~tt[d].mu
    /\ tt' = [tt EXCEPT ![d].close = "stop", ![d].mu = TRUE, ![d].canceled = TRUE]
    /\ UNCHANGED <<nativeOwner, native, ttFailures>>

\* The callback is cleared and the native client stopped.
StopNative(d) ==
    /\ tt[d].close = "stop" /\ tt' = [tt EXCEPT ![d].close = "forwarders"]
    /\ native' = IF tt[d].nativeOwned THEN "none" ELSE native
    /\ UNCHANGED <<nativeOwner, ttFailures>>

GivePlaceBack(d) == "none" \* fault: the place does not wait for the forwarders
KeepPlace(d) == nativeOwner

\* The forwarders; the place is given back only when all of them are closed.
CloseForwarders(d) ==
    /\ tt[d].close = "forwarders"
    /\ \/ /\ ttFailures /\ tt[d].forwarding /\ nativeOwner' = KeepPlace(d)
          /\ tt' = [tt EXCEPT ![d].close = "failed", ![d].mu = FALSE]
       \/ /\ tt' = [tt EXCEPT ![d].close = "closed", ![d].mu = FALSE, ![d].closed = TRUE,
                              ![d].forwarding = FALSE, ![d].nativeOwned = FALSE]
          /\ nativeOwner' = IF tt[d].nativeOwned THEN "none" ELSE nativeOwner
    /\ UNCHANGED <<native, ttFailures>>

TTFailuresEnd == ttFailures /\ ttFailures' = FALSE /\ UNCHANGED <<nativeOwner, native, tt>>

TTOpening(d) == OpenLocked(d) \/ Own(d) \/ StartNative(d)
TTClosing(d) == CloseLocked(d) \/ StopNative(d) \/ CloseForwarders(d)

TTNext ==
    \/ \E d \in TTDevices : \/ OpenBegins(d) \/ TTOpening(d) \/ TTCloseBegins(d) \/ TTClosing(d)
                            \/ StateChanged(d) \/ WaitReady(d) \/ CheckReady(d) \/ WaitEnds(d)
    \/ TTFailuresEnd

\* A Close goes on, and one that failed is repeated.
TTFair(d) == TTClosing(d) \/ (tt[d].close = "failed" /\ TTCloseBegins(d))

-----------------------------------------------------------------------------
\* nativeOwner: the native client runs for the device that owns it, and a device gives
\* the place back only when its client is stopped and its forwarders are closed, whichever
\* Open and Close of two devices overlap.
OneNativeOwner ==
    /\ native # "none" => nativeOwner = native
    /\ \A d \in TTDevices : tt[d].nativeOwned <=> nativeOwner = d
    /\ \A d \in TTDevices : tt[d].forwarding => nativeOwner = d

\* No Close is under way, and who waited for the client of a closed device was released.
TTAtRest == \A d \in TTDevices :
    \/ tt[d].close = "no"
    \/ tt[d].close = "closed" /\ tt[d].wait \in {"no", "returned"}
=============================================================================
