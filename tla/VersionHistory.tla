---------------------------- MODULE VersionHistory ----------------------------
(***************************************************************************)
(* What the version subsystem promises its users, with the numbers, flags, *)
(* locks and blobs left out: every slot owns a log of immutable payloads.  *)
(* A payload is only ever appended, the number of a version is its place   *)
(* in the log, restoring appends a copy of an earlier payload, and a log   *)
(* ends only as a whole, with its slot or with the slot's machine.         *)
(***************************************************************************)
EXTENDS Sequences

CONSTANTS Docs, Payloads, None

VARIABLE history  \* slot -> its log, None where there is no slot

Init == history = [d \in Docs |-> None]

Create(d) ==
    /\ history[d] = None
    /\ history' = [history EXCEPT ![d] = <<>>]

AppendVersion(d, p) ==
    /\ history[d] # None
    /\ history' = [history EXCEPT ![d] = Append(@, p)]

Erase(D) == history' = [d \in Docs |-> IF d \in D THEN None ELSE history[d]]

Next ==
    \/ \E d \in Docs : Create(d)
    \/ \E d \in Docs, p \in Payloads : AppendVersion(d, p)
    \/ \E D \in SUBSET Docs : Erase(D)

Spec == Init /\ [][Next]_history
=============================================================================
