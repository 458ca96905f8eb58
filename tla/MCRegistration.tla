---------------------------- MODULE MCRegistration ----------------------------
(* Instances of Registration for TLC: two addresses and a string that is none, *)
(* a name without letters, which asks for the default slug, and a name whose   *)
(* slug is the one that a suffix would give to the others.  The addresses are  *)
(* interchangeable: EmailOf reaches both.                                      *)
EXTENDS Registration, TLC

CONSTANTS acme, org, x0, x1, ab, cd

MCSpellings == {"A@b.co", "c@d.eu", "nobody"}
MCMailboxes == {ab, cd}
MCEmailOf ==
    [s \in MCSpellings |->
        CASE s = "nobody" -> None [] s = "c@d.eu" -> cd [] OTHER -> ab]

MCSlugOf ==
    [n \in Names |->
        CASE n = "Acme" -> <<acme>> [] n = "Org x0" -> <<org, x0>> [] OTHER -> <<>>]
MCUuidWord == [i \in Windows |-> IF i = 0 THEN x0 ELSE x1]
MCWords == {acme, org, x0, x1}

Symmetry ==
    Permutations(Orgs) \cup Permutations(Users) \cup Permutations(Workers)
        \cup Permutations(MCMailboxes)
=============================================================================
