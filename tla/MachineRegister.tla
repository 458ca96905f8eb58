---------------------------- MODULE MachineRegister ----------------------------
(***************************************************************************)
(* What the machine subsystem promises an organisation whose users edit a  *)
(* machine one at a time, with the requests, their reads and their races   *)
(* left out: a register whose entries change one field at a time and at    *)
(* once.  A code is printed for one machine, a machine that carries a new  *)
(* code never gets an old one back, and a withdrawn machine stays away.    *)
(***************************************************************************)
CONSTANTS Orgs, Machines, Codes, Plans, Names, None

VARIABLES
    register,  \* machine -> its entry, None where there is none
    printed,   \* code -> the machine it was printed for, or None
    revoked,   \* the codes a machine has exchanged for a new one
    gone       \* the machines that were withdrawn

vars == <<register, printed, revoked, gone>>

Init ==
    /\ register = [m \in Machines |-> None]
    /\ printed = [c \in Codes |-> None]
    /\ revoked = {}
    /\ gone = {}

Draw(m, c) ==
    /\ printed[c] = None
    /\ printed' = [printed EXCEPT ![c] = m]
    /\ UNCHANGED <<register, revoked, gone>>

\* A code the machine may carry next.
Usable(m, c) == printed[c] = m /\ c \notin revoked

\* A machine is entered with its first code, on no plan.
Enter(m, c) ==
    /\ register[m] = None
    /\ m \notin gone
    /\ Usable(m, c)
    /\ \E o \in Orgs, n \in Names : register' =
        [register EXCEPT ![m] = [org |-> o, code |-> c, plan |-> None, name |-> n]]
    /\ UNCHANGED <<printed, revoked, gone>>

Rename(m, n) ==
    /\ register[m] # None
    /\ register' = [register EXCEPT ![m].name = n]
    /\ UNCHANGED <<printed, revoked, gone>>

Assign(m, p) ==
    /\ register[m] # None
    /\ register' = [register EXCEPT ![m].plan = p]
    /\ UNCHANGED <<printed, revoked, gone>>

Reissue(m, c) ==
    /\ register[m] # None
    /\ Usable(m, c)
    /\ c # register[m].code
    /\ register' = [register EXCEPT ![m].code = c]
    /\ revoked' = revoked \cup {register[m].code}
    /\ UNCHANGED <<printed, gone>>

Withdraw(m) ==
    /\ register[m] # None
    /\ register' = [register EXCEPT ![m] = None]
    /\ gone' = gone \cup {m}
    /\ UNCHANGED <<printed, revoked>>

Next ==
    \E m \in Machines :
        \/ \E c \in Codes : Draw(m, c) \/ Enter(m, c) \/ Reissue(m, c)
        \/ \E n \in Names : Rename(m, n)
        \/ \E p \in Plans : Assign(m, p)
        \/ Withdraw(m)

Spec == Init /\ [][Next]_vars
=============================================================================
