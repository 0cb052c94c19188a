---------------------------- MODULE RuntimeOwner ----------------------------
(***************************************************************************)
(* What the session manager relies on in an owner that the runtime returns *)
(* (the network owner of PrepareNetwork, the lease of Start): the promise  *)
(* that NativeDesktop, NativeMobile and RuntimeLifecycle keep.             *)
(*  - a call that returns no owner leaves nothing behind;                  *)
(*  - an owner that was returned without an error holds all of its native  *)
(*    resources until it is stopped;                                       *)
(*  - a Stop that succeeds leaves nothing behind, and nothing comes back;  *)
(*  - a Stop that fails can be repeated.                                   *)
(***************************************************************************)
VARIABLES
    phase,  \* "acquiring", "ready", "failed", "stopping", "released"
    holds   \* "nothing", "part" or "all" of the native resources

Held == {"nothing", "part", "all"}

Init == phase = "acquiring" /\ holds = "nothing"

\* Native work: acquisition, rollback, cleanup.
Work ==
    /\ phase \in {"acquiring", "failed", "stopping"}
    /\ holds' \in Held /\ UNCHANGED phase

\* The call returns: the owner, the owner with an error, an error only.
Prepared == phase = "acquiring" /\ phase' = "ready" /\ holds' = "all"
Failed == phase = "acquiring" /\ phase' = "failed" /\ holds' \in Held
NoOwner == phase = "acquiring" /\ holds = "nothing" /\ phase' = "released" /\ UNCHANGED holds

Stop == phase \in {"ready", "failed"} /\ phase' = "stopping" /\ UNCHANGED holds
StopFails == phase = "stopping" /\ phase' = "failed" /\ holds' \in Held
Released == phase = "stopping" /\ holds = "nothing" /\ phase' = "released" /\ UNCHANGED holds

Next == Work \/ Prepared \/ Failed \/ NoOwner \/ Stop \/ StopFails \/ Released

Spec == Init /\ [][Next]_<<phase, holds>>
=============================================================================
