------------------------------ MODULE MCAccounts ------------------------------
(* Instances of Accounts for TLC: an owner who registered, an administrator *)
(* the owner added, and the bodies of a few PATCH requests.                 *)
EXTENDS Accounts, TLC

CONSTANTS u1, u2, p1

MCRegistered ==
    (u1 :> [role |-> "owner", active |-> TRUE, password |-> p1])
        @@ (u2 :> [role |-> "admin", active |-> TRUE, password |-> p1])

Leave == [role |-> None, active |-> None, password |-> None]

\* Disable, and demote.
MCPatches == {[Leave EXCEPT !.active = FALSE], [Leave EXCEPT !.role = "viewer"]}

Symmetry == Permutations(Tokens) \cup Permutations(Workers)
=============================================================================
