---------------------------- MODULE WindowsEngine ----------------------------
(***************************************************************************)
(* platform_engine on Windows: the Wintun adapter, the packet stack on it  *)
(* and the network guard (WFP) that blocks everything past the tunnel.     *)
(* tunnel.Engine serializes Start and Stop, and repeats a Stop that failed *)
(* or that follows a Start that failed after it was accepted.              *)
(*                                                                         *)
(* An action is one native call.  A phase of the teardown runs in a        *)
(* goroutine of its own and outlives the deadline of the Stop that began   *)
(* it.  Windows removes the adapter some time after the device is closed.  *)
(***************************************************************************)

Phases == {"device-close", "stack-close", "stack-wait"}
Settings == {"dad", "ip4", "ip6", "dns"}

VARIABLES
    enginePc,    \* where the owner is
    adapter,     \* windowsAdapterState
    ownedDevice,
    ownedStack,
    stopPhases,  \* phase -> "none", "running", "done"
    expired,     \* has the deadline of this Stop passed?
    stopErr,     \* has a step of this Stop failed?
    wintun,      \* Windows: is the owned adapter there?
    settings,    \* Windows: what was set on the adapter
    blocked,     \* Windows: are the filters of the guard installed?
    engineFailures \* may native calls fail and deadlines pass?

windows == <<wintun, settings, blocked>>
program == <<adapter, ownedDevice, ownedStack>>
engineVars == <<enginePc, program, stopPhases, expired, stopErr, windows, engineFailures>>

NoAdapter == [owned |-> FALSE, iface |-> FALSE, luid |-> FALSE, guard |-> FALSE,
              dnsKnown |-> FALSE, mutated |-> {}]
NoPhases == [p \in Phases |-> "none"]

EngineInit ==
    /\ enginePc = "idle" /\ adapter = NoAdapter /\ ownedDevice = FALSE /\ ownedStack = FALSE
    /\ stopPhases = NoPhases /\ expired = FALSE /\ stopErr = FALSE
    /\ wintun = FALSE /\ settings = {} /\ blocked = FALSE /\ engineFailures = TRUE

-----------------------------------------------------------------------------
(* startPlatformEngine *)

Goto(pc) == enginePc' = pc
\* An error after the device was accepted: the owner has to stop.
StartFails == engineFailures /\ Goto("failed")

\* prepareWindowsStateForStart, startStack and tun.Open.
Start ==
    /\ enginePc = "idle"
    /\ ~adapter.owned /\ ~adapter.guard /\ ~ownedDevice /\ ~ownedStack
    /\ \/ engineFailures /\ UNCHANGED <<enginePc, program, wintun>>
       \/ /\ ownedDevice' = TRUE /\ adapter' = [adapter EXCEPT !.owned = TRUE] /\ wintun' = TRUE
          /\ \/ StartFails /\ UNCHANGED ownedStack
             \/ Goto("find") /\ ownedStack' = TRUE
    /\ UNCHANGED <<stopPhases, expired, stopErr, settings, blocked, engineFailures>>

\* waitForWintun and the identity of the interface.
FindAdapter ==
    /\ enginePc = "find"
    /\ \/ StartFails /\ \E found \in BOOLEAN : adapter' = [adapter EXCEPT !.iface = found]
       \/ Goto("guard") /\ adapter' = [adapter EXCEPT !.iface = TRUE, !.luid = TRUE]
    /\ UNCHANGED <<ownedDevice, ownedStack, stopPhases, expired, stopErr, windows, engineFailures>>

\* OpenWindowsNetworkGuard installs its filters in one transaction.  When that fails and
\* the session cannot be closed either, the partial owner is retained.
AcquireGuard ==
    /\ enginePc = "guard"
    /\ \/ Goto("dad") /\ blocked' = TRUE /\ adapter' = [adapter EXCEPT !.guard = TRUE]
       \/ StartFails /\ UNCHANGED blocked /\ \E partial \in BOOLEAN : adapter' = [adapter EXCEPT !.guard = partial]
    /\ UNCHANGED <<ownedDevice, ownedStack, stopPhases, expired, stopErr, wintun, settings, engineFailures>>

Mutated(s) == adapter' = [adapter EXCEPT !.mutated = @ \cup {s}]

\* Duplicate address detection is switched off, unless it is already.  The flag comes
\* first: a call that fails may have changed the setting.
SetDAD ==
    /\ enginePc = "dad"
    /\ \/ StartFails /\ UNCHANGED <<adapter, settings>>
       \/ StartFails /\ Mutated("dad") /\ settings' \in {settings, settings \cup {"dad"}}
       \/ Goto("readDns") /\ Mutated("dad") /\ settings' = settings \cup {"dad"}
       \/ Goto("readDns") /\ UNCHANGED <<adapter, settings>>
    /\ UNCHANGED <<ownedDevice, ownedStack, stopPhases, expired, stopErr, wintun, blocked, engineFailures>>

ReadDNS ==
    /\ enginePc = "readDns"
    /\ \/ StartFails /\ UNCHANGED adapter
       \/ Goto("ip4") /\ adapter' = [adapter EXCEPT !.dnsKnown = TRUE]
    /\ UNCHANGED <<ownedDevice, ownedStack, stopPhases, expired, stopErr, windows, engineFailures>>

\* The flag of an address follows a call that succeeded.
AddAddress(s, next) ==
    /\ enginePc = s
    /\ \/ StartFails /\ UNCHANGED <<adapter, settings>>
       \/ Goto(next) /\ Mutated(s) /\ settings' = settings \cup {s}
    /\ UNCHANGED <<ownedDevice, ownedStack, stopPhases, expired, stopErr, wintun, blocked, engineFailures>>

\* waitForPreferredIPv4: the address is read again until it can be used; it is an error when
\* it cannot be read, is a duplicate or is not ready in time.
AwaitPreferred ==
    /\ enginePc = "preferred" /\ (StartFails \/ Goto("dns"))
    /\ UNCHANGED <<program, stopPhases, expired, stopErr, windows, engineFailures>>

\* As for duplicate address detection, the flag comes before the call.
SetDNS ==
    /\ enginePc = "dns"
    /\ \/ StartFails /\ UNCHANGED <<adapter, settings>>
       \/ StartFails /\ Mutated("dns") /\ settings' \in {settings, settings \cup {"dns"}}
       \/ Goto("running") /\ Mutated("dns") /\ settings' = settings \cup {"dns"}
    /\ UNCHANGED <<ownedDevice, ownedStack, stopPhases, expired, stopErr, wintun, blocked, engineFailures>>

-----------------------------------------------------------------------------
(* stopPlatformEngine *)

BeginStop ==
    /\ enginePc \in {"running", "failed"} /\ Goto("cleanup") /\ expired' = FALSE /\ stopErr' = FALSE
    /\ UNCHANGED <<program, stopPhases, windows, engineFailures>>

Expire ==
    /\ enginePc \in {"cleanup", "close", "removal", "release"} /\ engineFailures /\ ~expired /\ expired' = TRUE
    /\ UNCHANGED <<enginePc, program, stopPhases, stopErr, windows, engineFailures>>

\* cleanupWindowsState: every setting is restored on its own, and none on an adapter that
\* is gone.
Cleanup ==
    /\ enginePc = "cleanup" /\ Goto("close")
    /\ IF ~adapter.iface THEN UNCHANGED <<adapter, settings, stopErr>>
       ELSE \E restored \in SUBSET adapter.mutated :
               /\ wintun \/ restored = {}
               /\ engineFailures \/ ~wintun \/ restored = adapter.mutated
               /\ adapter' = [adapter EXCEPT !.mutated = @ \ restored,
                                             !.dnsKnown = @ /\ ~("dns" \in restored)]
               /\ settings' = settings \ restored
               /\ stopErr' = (restored # adapter.mutated)
    /\ UNCHANGED <<ownedDevice, ownedStack, stopPhases, expired, wintun, blocked, engineFailures>>

\* The phase that stopStack is at, if any.
Phase ==
    IF ownedDevice THEN "device-close"
    ELSE IF ~ownedStack THEN "none"
    ELSE IF stopPhases["stack-close"] = "done" THEN "stack-wait" ELSE "stack-close"

\* stopPhaseCtx: a phase is begun once; who waits for it gives up at the deadline.
BeginPhase ==
    /\ enginePc = "close" /\ Phase # "none" /\ stopPhases[Phase] = "none"
    /\ stopPhases' = [stopPhases EXCEPT ![Phase] = "running"]
    /\ UNCHANGED <<enginePc, program, expired, stopErr, windows, engineFailures>>
FinishPhase(p) ==
    /\ stopPhases[p] = "running" /\ stopPhases' = [stopPhases EXCEPT ![p] = "done"]
    /\ UNCHANGED <<enginePc, program, expired, stopErr, windows, engineFailures>>
EndPhase ==
    /\ enginePc = "close" /\ Phase # "none" /\ stopPhases[Phase] = "done"
    /\ ownedDevice' = FALSE /\ ownedStack' = (ownedStack /\ Phase # "stack-wait")
    /\ UNCHANGED <<enginePc, adapter, stopPhases, expired, stopErr, windows, engineFailures>>
PhaseTimeout ==
    /\ enginePc = "close" /\ Phase # "none" /\ stopPhases[Phase] = "running" /\ expired
    /\ stopErr' = TRUE /\ Goto("removal")
    /\ UNCHANGED <<program, stopPhases, expired, windows, engineFailures>>

KeepPhases == stopPhases \* fault: the next session finds its device closed already
ForgetPhases == NoPhases

StackStopped ==
    /\ enginePc = "close" /\ Phase = "none" /\ stopPhases' = ForgetPhases /\ Goto("removal")
    /\ UNCHANGED <<program, expired, stopErr, windows, engineFailures>>

\* Closing the device takes the adapter away, with all that was set on it.
AdapterGone ==
    /\ wintun /\ (stopPhases["device-close"] # "none" \/ ~ownedDevice)
    /\ wintun' = FALSE /\ settings' = {}
    /\ UNCHANGED <<enginePc, program, stopPhases, expired, stopErr, blocked, engineFailures>>

Unconfirmed(removed) == TRUE \* fault: the guard is not kept for an adapter that is there
Confirmed(removed) == removed

\* waitForWindowsAdapterRemoval; the guard goes when the adapter was seen to be gone.
AwaitRemoval ==
    /\ enginePc = "removal"
    /\ \E removed \in BOOLEAN :
          /\ IF removed THEN ~adapter.owned \/ ~wintun ELSE adapter.owned /\ expired
          /\ Goto(IF adapter.guard /\ Confirmed(removed) THEN "release" ELSE "finish")
          /\ adapter' = IF removed /\ ~adapter.guard THEN NoAdapter ELSE adapter
          /\ stopErr' = (stopErr \/ ~removed)
    /\ UNCHANGED <<ownedDevice, ownedStack, stopPhases, expired, windows, engineFailures>>

\* WindowsNetworkGuard.Close, then resetWindowsState.
ReleaseGuard ==
    /\ enginePc = "release" /\ Goto("finish")
    /\ \/ blocked' = FALSE /\ adapter' = NoAdapter /\ UNCHANGED stopErr
       \/ engineFailures /\ stopErr' = TRUE /\ UNCHANGED <<blocked, adapter>>
    /\ UNCHANGED <<ownedDevice, ownedStack, stopPhases, expired, wintun, settings, engineFailures>>

StopReturns ==
    /\ enginePc = "finish" /\ Goto(IF stopErr THEN "failed" ELSE "idle")
    /\ UNCHANGED <<program, stopPhases, expired, stopErr, windows, engineFailures>>

EngineFailuresEnd ==
    /\ engineFailures /\ engineFailures' = FALSE
    /\ UNCHANGED <<enginePc, program, stopPhases, expired, stopErr, windows>>

Starting ==
    \/ Start \/ FindAdapter \/ AcquireGuard \/ SetDAD \/ ReadDNS
    \/ AddAddress("ip4", "ip6") \/ AddAddress("ip6", "preferred")
    \/ AwaitPreferred \/ SetDNS
Stopping ==
    \/ Cleanup \/ BeginPhase \/ EndPhase \/ PhaseTimeout \/ StackStopped
    \/ AwaitRemoval \/ ReleaseGuard \/ StopReturns
InBackground == AdapterGone \/ \E p \in Phases : FinishPhase(p)

EngineNext == Starting \/ BeginStop \/ Expire \/ Stopping \/ InBackground \/ EngineFailuresEnd

\* A Stop goes on, and tunnel.Engine repeats a Stop that failed.
EngineFair == Stopping \/ (enginePc = "failed" /\ BeginStop)

-----------------------------------------------------------------------------
\* stopPlatformEngine and startPlatformEngine: an adapter that applications can reach (it
\* has an address or a name server) exists only behind the filters of the guard, whichever
\* calls failed and however late Windows removes it.
ConfiguredIsGuarded == wintun /\ settings # {} => blocked

\* A Stop has ended, and left no adapter, device, stack or filter behind.
EngineAtRest ==
    \/ enginePc \notin {"failed", "cleanup", "close", "removal", "release", "finish", "idle"}
    \/ /\ enginePc = "idle" /\ adapter = NoAdapter /\ ~ownedDevice /\ ~ownedStack
       /\ ~wintun /\ ~blocked /\ stopPhases = NoPhases
=============================================================================
