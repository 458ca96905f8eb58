------------------------------ MODULE MCPassport ------------------------------
(* Instances of Passport for TLC.  The identifiers are interchangeable.     *)
EXTENDS Passport, TLC

Symmetry ==
    Permutations(Docs) \cup Permutations(Versions) \cup Permutations(Payloads)
        \cup Permutations(Workers) \cup Permutations(Machines)
=============================================================================
