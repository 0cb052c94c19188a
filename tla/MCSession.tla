------------------------------ MODULE MCSession ------------------------------
(* Instances of Session for TLC. *)
EXTENDS SessionInv, TLC

CONSTANTS
    two, one, uno  \* inventories: of two profiles, and two of a single profile

\* For the lifecycle: several candidates and a change of inventory.
MCDigests == {two, one}
MCProfileCount == (two :> 2) @@ (one :> 1)

\* For Restore: two inventories that an index alone does not tell apart.
RestoreDigests == {one, uno}
RestoreProfileCount == (one :> 1) @@ (uno :> 1)

\* Callers are interchangeable.
CallerSymmetry == Permutations(Callers)
=============================================================================
