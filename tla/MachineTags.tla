----------------------------- MODULE MachineTags -----------------------------
(***************************************************************************)
(* Machine rows, the edits of the api service on them, and the scans of    *)
(* the resolver service that look a machine up by the code on its QR tag.  *)
(*                                                                         *)
(* Every edit is a read-modify-write over two statements: find_by_id reads *)
(* the row, the handler changes some fields in memory, and update writes   *)
(* every column back.  Tasks interleave between the two.  Machine is the   *)
(* key of a row; name stands for all the fields a PATCH may set.  The      *)
(* photo pointer, written by uploads too, is modelled in Documents.        *)
(***************************************************************************)
EXTENDS Integers, FiniteSets

CONSTANTS
    Orgs,        \* organisations
    Machines,    \* UUIDs available for machines (a bound on create calls)
    Codes,       \* random tag codes available (a bound on create and rotate calls)
    Tiers,       \* plan codes a request may name
    Plans,       \* the plans seeded in table plans, a subset of Tiers
    Names,       \* values of the fields a PATCH may set
    Workers,     \* request tasks of both services that run at the same time
    Operations,  \* the endpoints that are called, a subset of AllOperations
    Turns,       \* TRUE: the organisation's users edit a machine one at a time
    None         \* SQL NULL, a missing row, Option::None

Edits == {"update", "set_tier", "rotate"}
Scans == {"summary", "full"}
AllOperations == {"create", "delete"} \cup Edits \cup Scans

Row == [org : Orgs, code : Codes, plan : Plans \cup {None}, name : Names]

ASSUME OperationsAssumption == Operations \subseteq AllOperations
ASSUME PlansAssumption == Plans \subseteq Tiers
ASSUME TurnsAssumption == Turns \in BOOLEAN
ASSUME NoneAssumption ==
    /\ None \notin Orgs \cup Machines \cup Codes \cup Tiers \cup Names
    /\ None \notin Row
    /\ None \notin AllOperations

VARIABLES
    rows,       \* table machines, None where there is no row
    task,       \* the request each worker serves, with the handler's locals
    owner,      \* history: the machine each code was drawn for, or None
    revoked,    \* history: the codes a committed rotation replaced
    wanted,     \* history: each field of a row as last set by a request about it
    confirmed   \* history: how many delete calls of a machine were answered 204

vars == <<rows, task, owner, revoked, wanted, confirmed>>

Steps == {"idle", "insert", "find_plan", "find_machine", "write", "erase", "lookup",
          "read_org", "served"}

Task == [op : AllOperations \cup {None},
         step : Steps,
         org : Orgs \cup {None},             \* organisation of the caller's token
         machine : Machines \cup {None},     \* machine named, or found by a scan
         row : Row \cup {None},              \* row read (and changed), or to insert
         code : Codes \cup {None},           \* code drawn, or scanned
         plan : Tiers \cup {None},           \* body of set_tier
         name : Names \cup {None}]           \* PATCH body of update

Idle == [op |-> None, step |-> "idle", org |-> None, machine |-> None, row |-> None,
         code |-> None, plan |-> None, name |-> None]

(* Tables and request locals have their types, and the history variables too. *)
TypeOK ==
    /\ rows \in [Machines -> Row \cup {None}]
    /\ task \in [Workers -> Task]
    /\ owner \in [Codes -> Machines \cup {None}]
    /\ revoked \subseteq Codes
    /\ wanted \in [Machines -> Row \cup {None}]
    /\ confirmed \in [Machines -> Nat]

Init ==
    /\ rows = [m \in Machines |-> None]
    /\ task = [w \in Workers |-> Idle]
    /\ owner = [c \in Codes |-> None]
    /\ revoked = {}
    /\ wanted = [m \in Machines |-> None]
    /\ confirmed = [m \in Machines |-> 0]

-----------------------------------------------------------------------------
At(w, s) == task[w].step = s
Running(w) == task[w].step \notin {"idle", "served"}
Resume(w, t) == task' = [task EXCEPT ![w] = t]
Goto(w, s) == task' = [task EXCEPT ![w].step = s]
Answer(w) == Resume(w, Idle)

Known == {m \in Machines : \E c \in Codes : owner[c] = m}

\* Mutant: a code counts as free again once no row carries it.
MutantFresh == {c \in Codes : \A m \in Machines : rows[m] # None => rows[m].code # c}

\* Codes are 16 random characters: a drawn code was never drawn before.
Fresh == {c \in Codes : owner[c] = None}

\* Mutant: find, update and delete go by the id alone.
MutantInOrg(t) == rows[t.machine] # None

\* WHERE id = ? AND organization_id = ?
InOrg(t) == rows[t.machine] # None /\ rows[t.machine].org = t.org

Begin(w, op) == op \in Operations /\ ~Running(w)

\* Edits of a machine that are under way.
Editing(m) == \E w \in Workers : Running(w) /\ task[w].op \in Edits /\ task[w].machine = m

-----------------------------------------------------------------------------
(* Requests of the api service.  require_role refuses a request before it  *)
(* touches anything, so only permitted requests appear.                    *)

BeginCreate(w) ==
    \E m \in Machines \ Known, c \in Fresh, o \in Orgs, n \in Names :
        /\ Begin(w, "create")
        /\ owner' = [owner EXCEPT ![c] = m]
        /\ Resume(w, [Idle EXCEPT !.op = "create", !.step = "insert", !.org = o,
                !.machine = m, !.row = [org |-> o, code |-> c, plan |-> None, name |-> n]])
        /\ UNCHANGED <<rows, revoked, wanted, confirmed>>

BeginUpdate(w, m, o) ==
    \E n \in Names \cup {None} :
        /\ Begin(w, "update")
        /\ Resume(w, [Idle EXCEPT !.op = "update", !.step = "find_machine", !.org = o,
                !.machine = m, !.name = n])
        /\ UNCHANGED owner

BeginSetTier(w, m, o) ==
    \E p \in Tiers :
        /\ Begin(w, "set_tier")
        /\ Resume(w, [Idle EXCEPT !.op = "set_tier", !.step = "find_plan", !.org = o,
                !.machine = m, !.plan = p])
        /\ UNCHANGED owner

\* The new code is drawn here; the handler draws it after the read, which nothing
\* can tell.
BeginRotate(w, m, o) ==
    \E c \in Fresh :
        /\ Begin(w, "rotate")
        /\ owner' = [owner EXCEPT ![c] = m]
        /\ Resume(w, [Idle EXCEPT !.op = "rotate", !.step = "find_machine", !.org = o,
                !.machine = m, !.code = c])

BeginEdit(w) ==
    \E m \in Known, o \in Orgs :
        /\ Turns => ~Editing(m)
        /\ BeginUpdate(w, m, o) \/ BeginSetTier(w, m, o) \/ BeginRotate(w, m, o)
        /\ UNCHANGED <<rows, revoked, wanted, confirmed>>

BeginDelete(w) ==
    \E m \in Known, o \in Orgs :
        /\ Begin(w, "delete")
        /\ Resume(w, [Idle EXCEPT !.op = "delete", !.step = "find_machine", !.org = o,
                !.machine = m])
        /\ UNCHANGED <<rows, owner, revoked, wanted, confirmed>>

\* Mutant: a tier without a plan is assigned all the same.
MutantFindPlan(w) ==
    /\ At(w, "find_plan")
    /\ Goto(w, "find_machine")
    /\ UNCHANGED <<rows, owner, revoked, wanted, confirmed>>

\* plans.find_by_code
FindPlan(w) ==
    LET t == task[w] IN
    /\ At(w, "find_plan")
    /\ \/ t.plan \notin Plans /\ Answer(w)
       \/ t.plan \in Plans /\ Goto(w, "find_machine")
    /\ UNCHANGED <<rows, owner, revoked, wanted, confirmed>>

\* Mutant: a field the PATCH does not mention is written as the request has it.
MutantPatched(t, row) ==
    CASE t.op = "update" -> IF t.name = None THEN row ELSE [row EXCEPT !.name = t.name]
      [] t.op = "set_tier" -> [row EXCEPT !.plan = t.plan]
      [] t.op = "rotate" -> [row EXCEPT !.code = t.code, !.plan = t.plan]

\* What each edit changes in the row it has read.
Patched(t, row) ==
    CASE t.op = "update" -> IF t.name = None THEN row ELSE [row EXCEPT !.name = t.name]
      [] t.op = "set_tier" -> [row EXCEPT !.plan = t.plan]
      [] t.op = "rotate" -> [row EXCEPT !.code = t.code]

\* machines.find_by_id, then the changes in memory.
FindMachine(w) ==
    LET t == task[w] IN
    /\ At(w, "find_machine")
    /\ \/ /\ ~InOrg(t)
          /\ Answer(w)
       \/ /\ InOrg(t)
          /\ IF t.op = "delete"
             THEN Goto(w, "erase")
             ELSE Resume(w, [t EXCEPT !.row = Patched(t, rows[t.machine]), !.step = "write"])
    /\ UNCHANGED <<rows, owner, revoked, wanted, confirmed>>

\* public_code is UNIQUE.
Taken(m, code) == \E n \in Machines \ {m} : rows[n] # None /\ rows[n].code = code

Insert(w) ==
    LET t == task[w] IN
    /\ At(w, "insert")
    /\ IF Taken(t.machine, t.row.code)
       THEN UNCHANGED <<rows, wanted>>
       ELSE /\ rows' = [rows EXCEPT ![t.machine] = t.row]
            /\ wanted' = [wanted EXCEPT ![t.machine] = t.row]
    /\ Answer(w)
    /\ UNCHANGED <<owner, revoked, confirmed>>

\* Mutant: the row is inserted where it is missing.
MutantWritten(t) == [rows EXCEPT ![t.machine] = t.row]

\* No row, no error.
Written(t) == IF InOrg(t) THEN [rows EXCEPT ![t.machine] = t.row] ELSE rows

\* History: a row as the requests about it want it.
Asked(t, row) ==
    [row EXCEPT !.name = IF t.name = None THEN @ ELSE t.name,
                !.plan = IF t.plan = None THEN @ ELSE t.plan,
                !.code = IF t.code = None THEN @ ELSE t.code]

\* machines.update
Write(w) ==
    LET t == task[w]
        old == rows[t.machine] IN
    /\ At(w, "write")
    /\ IF Taken(t.machine, t.row.code)
       THEN UNCHANGED <<rows, revoked, wanted>>
       ELSE /\ rows' = Written(t)
            /\ revoked' = IF t.op = "rotate" /\ InOrg(t)
                          THEN revoked \cup {old.code} ELSE revoked
            /\ wanted' = IF InOrg(t)
                         THEN [wanted EXCEPT ![t.machine] = Asked(t, @)] ELSE wanted
    /\ Answer(w)
    /\ UNCHANGED <<owner, confirmed>>

\* machines.delete; rows_affected() == 0 is not_found.
Erase(w) ==
    LET t == task[w] IN
    /\ At(w, "erase")
    /\ IF InOrg(t)
       THEN /\ rows' = [rows EXCEPT ![t.machine] = None]
            /\ wanted' = [wanted EXCEPT ![t.machine] = None]
            /\ confirmed' = [confirmed EXCEPT ![t.machine] = @ + 1]
       ELSE UNCHANGED <<rows, wanted, confirmed>>
    /\ Answer(w)
    /\ UNCHANGED <<owner, revoked>>

-----------------------------------------------------------------------------
(* Scans of the resolver service: any code that was ever printed.          *)

BeginScan(w) ==
    \E c \in Codes \ Fresh, o \in Orgs :
        /\ \/ /\ Begin(w, "summary")
              /\ Resume(w, [Idle EXCEPT !.op = "summary", !.step = "lookup", !.code = c])
           \/ /\ Begin(w, "full")
              /\ Resume(w, [Idle EXCEPT !.op = "full", !.step = "lookup", !.code = c,
                              !.org = o])
        /\ UNCHANGED <<rows, owner, revoked, wanted, confirmed>>

\* Mutant: the full passport is served to whoever has a token.
MutantMayRead(t, row) == TRUE

\* The full passport is for the owning organisation; the summary for everyone.
MayRead(t, row) == t.op = "summary" \/ row.org = t.org

\* find_by_public_code, then the organisation gate of the full view.
Lookup(w) ==
    LET t == task[w]
        hits == {m \in Machines : rows[m] # None /\ rows[m].code = t.code} IN
    /\ At(w, "lookup")
    /\ \/ /\ \A m \in hits : ~MayRead(t, rows[m])
          /\ Answer(w)
       \/ \E m \in hits :
            /\ MayRead(t, rows[m])
            /\ Resume(w, [t EXCEPT !.machine = m, !.row = rows[m], !.step = "read_org"])
    /\ UNCHANGED <<rows, owner, revoked, wanted, confirmed>>

\* orgs.find_by_id: an organisation is never deleted, so it is found.
ReadOrg(w) ==
    /\ At(w, "read_org")
    /\ Goto(w, "served")
    /\ UNCHANGED <<rows, owner, revoked, wanted, confirmed>>

\* A statement fails, or the handler future is dropped at an await.
Fail(w) ==
    /\ Running(w)
    /\ Answer(w)
    /\ UNCHANGED <<rows, owner, revoked, wanted, confirmed>>

-----------------------------------------------------------------------------
Arrive(w) == BeginCreate(w) \/ BeginEdit(w) \/ BeginDelete(w) \/ BeginScan(w)

Step(w) ==
    \/ FindPlan(w)
    \/ FindMachine(w)
    \/ Insert(w)
    \/ Write(w)
    \/ Erase(w)
    \/ Lookup(w)
    \/ ReadOrg(w)
    \/ Fail(w)

Next == \E w \in Workers : Arrive(w) \/ Step(w)

Spec == Init /\ [][Next]_vars

-----------------------------------------------------------------------------
(***************************************************************************)
(* A tag names one machine for ever: a row carries only codes drawn for    *)
(* it, and a scan serves the machine its code was printed for, although    *)
(* stale rows are written back and codes come and go.                      *)
(***************************************************************************)
TagNamesOneMachine ==
    /\ \A m \in Machines : rows[m] # None => owner[rows[m].code] = m
    /\ \A w \in Workers : task[w].op \in Scans /\ At(w, "served") =>
        owner[task[w].code] = task[w].machine

(***************************************************************************)
(* "Issue a fresh public tag code, revoking the previous one": no machine  *)
(* ever carries a code again that a rotation has replaced.                 *)
(***************************************************************************)
RevokedStaysRevoked ==
    \A m \in Machines : rows[m] # None => rows[m].code \notin revoked

(***************************************************************************)
(* An edit changes the fields it is about and leaves the others as they    *)
(* are: every field of a row has the value last given to that field.       *)
(***************************************************************************)
NoLostEdit == rows = wanted

(***************************************************************************)
(* Of several deletions of a machine at most one is told that it deleted   *)
(* it, and a deleted machine stays away although edits that read it before *)
(* still write to it.                                                      *)
(***************************************************************************)
DeletedOnceAndForAll ==
    \A m \in Machines : confirmed[m] <= 1 /\ (confirmed[m] = 1 => rows[m] = None)

(***************************************************************************)
(* Nothing crosses organisations: a request of the api, and a full scan,   *)
(* gets hold of rows of the caller's organisation only.                    *)
(***************************************************************************)
RowsStayInTheirOrg ==
    \A w \in Workers : task[w].row # None /\ task[w].op # "summary" =>
        task[w].row.org = task[w].org

(***************************************************************************)
(* A step changes or deletes a row only for a request of its organisation. *)
(***************************************************************************)
ChangedByOwnOrg ==
    \A m \in Machines : rows[m] # None /\ rows'[m] # rows[m] =>
        \E w \in Workers : task'[w] # task[w] /\ task[w].org = rows[m].org

OnlyOwnOrgChangesRows == [][ChangedByOwnOrg]_vars

(***************************************************************************)
(* Users who edit a machine one at a time see MachineRegister: whatever is *)
(* read, written back, deleted and scanned at the same time, each request  *)
(* takes effect at once, on the fields it is about, or not at all.         *)
(***************************************************************************)
Register == INSTANCE MachineRegister
    WITH register <- rows, printed <- owner, gone <- {m \in Machines : confirmed[m] # 0}

ImplementsRegister == Register!Spec
=============================================================================
