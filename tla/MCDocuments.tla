----------------------------- MODULE MCDocuments -----------------------------
(* Instances of Documents for TLC.  The identifiers are interchangeable: no *)
(* definition of Documents distinguishes one from another.                  *)
EXTENDS Documents, TLC

Symmetry ==
    Permutations(Docs) \cup Permutations(Versions) \cup Permutations(Payloads)
        \cup Permutations(Workers) \cup Permutations(Machines)
=============================================================================
