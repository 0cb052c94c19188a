---------------------------- MODULE SocketScopes ----------------------------
(***************************************************************************)
(* protected_dialer: the sockets a protocol attempt may create past the    *)
(* tunnel.  Every attempt has a SocketScope; a dial resolves its host,     *)
(* protects a socket for one address after the other and connects it.  On  *)
(* Windows protecting also adds a permission to the network guard (WFP),   *)
(* which the scope retires when it closes.                                 *)
(*                                                                         *)
(* An action is one critical section under SocketScope.mu, which covers    *)
(* those of WindowsNetworkGuard.mu, or one call of the network.  A context *)
(* may end at any time: a step that tests one may fail.  The lifecycle     *)
(* (module RuntimeLifecycle) creates a scope per attempt, in turn, and     *)
(* closes it again until that succeeds.                                    *)
(*                                                                         *)
(* A destination is <<family, host>>; ports and transports are left out.   *)
(***************************************************************************)
EXTENDS Naturals

CONSTANTS
    MaxGeneration, \* bound: attempts
    Dialers,       \* goroutines that dial
    Hosts          \* addresses outside of the host

Families == {"v4", "v6"}
Loopback == <<"v4", "loopback">>
Destinations == Families \X Hosts
Generations == 1..MaxGeneration

VARIABLES
    platform,       \* "windows": destinations are permitted one by one; "linux"; "mobile"
    scope,          \* generation -> "none", "open", "canceled", "closed"
    permits,        \* filters in the kernel: <<generation, destination>>
    attempts,       \* those of them that the guard has recorded
    retiredThrough,
    guardOpen,
    bound,          \* a mark, an interface or a callback to protect with is set
    dial,           \* what every dialer does
    scopeFailures   \* may native calls on the filters fail?

guardVars == <<permits, attempts, retiredThrough>>
scopeVars == <<platform, scope, guardVars, guardOpen, bound, dial, scopeFailures>>

Idle == [pc |-> "idle", gen |-> 0, mode |-> "first", todo |-> {}, dest |-> Loopback]

ScopesInit ==
    /\ platform \in {"windows", "linux", "mobile"}
    /\ scope = [g \in Generations |-> "none"]
    /\ permits = {} /\ attempts = {} /\ retiredThrough = 0 /\ guardOpen = (platform = "windows")
    /\ bound \in BOOLEAN /\ dial = [d \in Dialers |-> Idle] /\ scopeFailures = TRUE

-----------------------------------------------------------------------------
(* The scope of an attempt *)

Live(g) == scope[g] \in {"open", "canceled"}

NewSocketScope(g) ==
    /\ scope[g] = "none" /\ \A h \in Generations : ~Live(h) /\ (h < g => scope[h] = "closed")
    /\ guardOpen \/ platform # "windows"
    /\ scope' = [scope EXCEPT ![g] = "open"]
    /\ UNCHANGED <<platform, guardVars, guardOpen, bound, dial, scopeFailures>>

\* The attempt's context ends before its scope is closed.
CancelScope(g) ==
    /\ scope[g] = "open" /\ scope' = [scope EXCEPT ![g] = "canceled"]
    /\ UNCHANGED <<platform, guardVars, guardOpen, bound, dial, scopeFailures>>

Recorded(g) == {p \in attempts : p[1] = g}

LosesRecord(g) == attempts \ Recorded(g) \* fault: forgotten before the transaction
\* What is recorded when deleting the filters of a generation was aborted.
KeepsRecord(g) == attempts

\* WindowsNetworkGuard.Retire: the filters go in one transaction.
Retired(g) ==
    /\ Recorded(g) = {} \/ guardOpen
    /\ permits' = permits \ Recorded(g) /\ attempts' = attempts \ Recorded(g)
RetireFails(g) ==
    /\ Recorded(g) # {} /\ (scopeFailures \/ ~guardOpen)
    /\ attempts' = KeepsRecord(g) /\ UNCHANGED permits

MaxOf(a, b) == IF a > b THEN a ELSE b

Close(g) ==
    /\ Live(g)
    /\ IF platform # "windows" THEN scope' = [scope EXCEPT ![g] = "closed"] /\ UNCHANGED guardVars
       ELSE /\ retiredThrough' = MaxOf(retiredThrough, g)
            /\ \/ Retired(g) /\ scope' = [scope EXCEPT ![g] = "closed"]
               \/ RetireFails(g) /\ scope' = [scope EXCEPT ![g] = "canceled"]
    /\ UNCHANGED <<platform, guardOpen, bound, dial, scopeFailures>>

-----------------------------------------------------------------------------
(* Dials *)

SetDial(d, to) == dial' = [dial EXCEPT ![d] = to]

\* resolvedDialAddresses: any addresses, the loopback address too; or an error.
BeginDial(d) ==
    /\ dial[d].pc = "idle"
    /\ \E g \in Generations, addresses \in SUBSET (Destinations \cup {Loopback}) :
          /\ scope[g] = "open" /\ addresses # {}
          /\ SetDial(d, [Idle EXCEPT !.pc = "next", !.gen = g, !.todo = addresses])
    /\ UNCHANGED <<platform, scope, guardVars, guardOpen, bound, scopeFailures>>

\* ProtectSocketDestinations: a native library names every address its socket may use.
BeginNative(d) ==
    /\ dial[d].pc = "idle"
    /\ \E g \in Generations, inventory \in SUBSET Destinations, family \in Families :
          LET matching == {a \in inventory : a[1] = family} IN
          /\ scope[g] = "open" /\ matching # {}
          /\ SetDial(d, [Idle EXCEPT !.pc = "next", !.gen = g, !.mode = "all", !.todo = matching])
    /\ UNCHANGED <<platform, scope, guardVars, guardOpen, bound, scopeFailures>>

\* The next address.  A dial has failed when none is left; a native socket is protected.
NextAddress(d) ==
    /\ dial[d].pc = "next"
    /\ \/ \E a \in dial[d].todo :
             SetDial(d, [dial[d] EXCEPT !.pc = "protect", !.dest = a, !.todo = @ \ {a}])
       \/ dial[d].todo = {} /\ dial[d].mode = "first" /\ SetDial(d, Idle)
       \/ dial[d].todo = {} /\ dial[d].mode = "all" /\ SetDial(d, [dial[d] EXCEPT !.pc = "connect"])
    /\ UNCHANGED <<platform, scope, guardVars, guardOpen, bound, scopeFailures>>

\* An error: the next address is tried, unless the context ended or the socket is native.
Failed(d) ==
    \/ dial[d].mode = "first" /\ SetDial(d, [dial[d] EXCEPT !.pc = "next"])
    \/ SetDial(d, Idle)
Protected(d) == SetDial(d, [dial[d] EXCEPT !.pc = IF dial[d].mode = "all" THEN "next" ELSE "connect"])

\* WindowsNetworkGuard.Authorize adds a filter once for a destination of an attempt.
MayAuthorize(g) == guardOpen /\ g > retiredThrough
Authorize(g, dest) ==
    IF platform # "windows" THEN UNCHANGED guardVars
    ELSE /\ MayAuthorize(g)
         /\ permits' = permits \cup {<<g, dest>>} /\ attempts' = attempts \cup {<<g, dest>>}
         /\ UNCHANGED retiredThrough

\* There is an interface, a mark or a callback to protect the socket with.
CanProtect == bound

\* SocketScope.protectFD.  The dial fails when the context ended, a native call failed or
\* there is nothing to protect with, also after the destination was authorized.  A loopback
\* address needs nothing, and streams to it do not even ask for the scope.
ProtectFD(d) ==
    LET g == dial[d].gen
        dest == dial[d].dest
    IN  /\ dial[d].pc = "protect"
        /\ \/ Failed(d) /\ UNCHANGED guardVars
           \/ dest = Loopback /\ Protected(d) /\ UNCHANGED guardVars
           \/ scope[g] = "open" /\ dest # Loopback /\ Authorize(g, dest) /\ ((CanProtect /\ Protected(d)) \/ Failed(d))
        /\ UNCHANGED <<platform, scope, guardOpen, bound, scopeFailures>>

\* The kernel lets the socket of this program out to a destination that has a filter.
Permitted(dest) ==
    dest = Loopback \/ platform # "windows" \/ ~guardOpen \/ \E g \in Generations : <<g, dest>> \in permits
Connect(d) ==
    /\ dial[d].pc = "connect"
    /\ \/ Permitted(dial[d].dest) /\ SetDial(d, [dial[d] EXCEPT !.pc = "connected"])
       \/ Failed(d)
    /\ UNCHANGED <<platform, scope, guardVars, guardOpen, bound, scopeFailures>>

\* The owner of the connection closes it.
CloseSocket(d) ==
    /\ dial[d].pc = "connected" /\ SetDial(d, Idle)
    /\ UNCHANGED <<platform, scope, guardVars, guardOpen, bound, scopeFailures>>

-----------------------------------------------------------------------------
(* The network around the attempts *)

\* SetPhysicalInterfaces and ResetDefaultRoute, SetLinuxSocketMark.
Rebind ==
    /\ platform # "mobile" /\ bound' = ~bound
    /\ UNCHANGED <<platform, scope, guardVars, guardOpen, dial, scopeFailures>>

\* The network stops after its attempts; its dynamic WFP session takes the filters along.
CloseGuard ==
    /\ guardOpen /\ \A g \in Generations : ~Live(g)
    /\ guardOpen' = FALSE /\ permits' = {}
    /\ UNCHANGED <<platform, scope, attempts, retiredThrough, bound, dial, scopeFailures>>

FailuresEnd ==
    /\ scopeFailures /\ scopeFailures' = FALSE
    /\ UNCHANGED <<platform, scope, guardVars, guardOpen, bound, dial>>

Dial(d) ==
    BeginDial(d) \/ BeginNative(d) \/ NextAddress(d) \/ ProtectFD(d) \/ Connect(d) \/ CloseSocket(d)

ScopesNext ==
    \/ \E g \in Generations : NewSocketScope(g) \/ CancelScope(g) \/ Close(g)
    \/ \E d \in Dialers : Dial(d)
    \/ Rebind \/ CloseGuard \/ FailuresEnd

\* A canceled attempt is closed again until that succeeds.
ScopesFair == \E g \in Generations : scope[g] = "canceled" /\ Close(g)

-----------------------------------------------------------------------------
\* SocketScope.Close, Authorize and Retire: once the scope of an attempt is closed, the
\* kernel holds no permission of that attempt, however dials that were under way when it
\* closed and failed retirements interleave.
RetiredForGood == \A p \in permits : scope[p[1]] # "closed"

\* Nothing is left to close.
ScopesAtRest == \A g \in Generations : scope[g] # "canceled"
=============================================================================
