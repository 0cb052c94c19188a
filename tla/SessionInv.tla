----------------------------- MODULE SessionInv -----------------------------
(***************************************************************************)
(* The inductive invariant of Session: what the session owns at every      *)
(* place of the worker and at rest.                                        *)
(***************************************************************************)
EXTENDS Session

\* The three resources a session can own.
Tunnel == [kind |-> "tunnel", gen |-> networkGeneration]
Network == [kind |-> "network", gen |-> networkGeneration]
Lease == [kind |-> "lease", gen |-> generation]

\* The ledgers a session can have.
NoLedger(l) == l \in {None, <<>>}
LedgerShape == NoLedger(ledger) \/ ledger = <<Lease>>
NetworkComplete == networkLedger = <<Tunnel, Network>>
NetworkShape == NoLedger(networkLedger) \/ networkLedger = <<Tunnel>> \/ NetworkComplete

\* What worker w owns while it acquires (runStart).
AcquirePlaces(w) ==
    /\ pc[w] \in AcquirePc => networkLedger # None
    /\ pc[w] \in {"prepare", "network", "activate", "activated", "candidate",
                  "advance", "start"} => ledger = <<>>
    /\ pc[w] = "prepare" => IF vpnActive THEN NetworkComplete ELSE networkLedger = <<>>
    /\ pc[w] = "network" => ~vpnActive /\ networkLedger = <<Tunnel>>
    /\ pc[w] = "activate" => ~vpnActive /\ NetworkComplete
    /\ pc[w] \in {"activated", "candidate", "advance", "start", "connect", "wait",
                  "rollback"} => vpnActive /\ NetworkComplete
    /\ pc[w] \in {"connect", "wait"} => ledger = <<Lease>>
    /\ pc[w] = "rollback" => ledger # None

\* What is left of it while w releases (finish).
FinishPlaces(w) ==
    /\ pc[w] = "retireAttempt" => ledger = <<Lease>> /\ cause[w] # "CLEANUP_FAILED"
    /\ pc[w] \in {"decide", "retireNetwork", "commitKept", "commitReleased"}
          => cause[w] = "CLEANUP_FAILED" \/ NoLedger(ledger)
    /\ pc[w] = "retireNetwork"
          => cause[w] # "CLEANUP_FAILED" /\ ~NoLedger(networkLedger) /\ ReleaseNetwork
    /\ pc[w] = "commitReleased"
          => ReleaseNetwork /\ (cause[w] = "CLEANUP_FAILED" \/ NoLedger(networkLedger))
    /\ pc[w] = "commitKept" => vpnActive

\* What a session owns that no worker is at.
AtRest ==
    /\ AttemptActive => ~cleanupDone /\ ~cleanupFailed
    /\ ~AttemptActive => cancel = None
    /\ cleanupDone => /\ ledger = None /\ networkLedger = None
                      /\ ~vpnActive /\ ~cleanupFailed
    /\ state \in {"IDLE", "CONFIGURED"} => cleanupDone
    /\ state = "FAILED" /\ ~cleanupFailed /\ ~cleanupDone
          => vpnActive /\ ledger = None /\ ~stopRequested /\ ~closing

\* Outside of a stop the protection of an active VPN is complete.
Protected == vpnActive => NetworkComplete \/ stopRequested \/ closing

\* The books are right at every place of the worker: in runStart, in finish,
\* between two critical sections, and when nobody is at work.
Ownership ==
    /\ NothingLeaks /\ LedgerShape /\ NetworkShape /\ AtRest /\ Protected
    /\ \A w \in Slots : AcquirePlaces(w) /\ FinishPlaces(w)

\* The inductive invariant: types, one owner, right books.
Inv == TypeOK /\ SingleOwner /\ Ownership
=============================================================================
