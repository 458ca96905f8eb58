---------------------------- MODULE MCMachineTags ----------------------------
(* Instances of MachineTags for TLC.  Ids and codes are interchangeable.    *)
EXTENDS MachineTags, TLC

Symmetry ==
    Permutations(Machines) \cup Permutations(Codes) \cup Permutations(Workers)
        \cup Permutations(Orgs)
=============================================================================
