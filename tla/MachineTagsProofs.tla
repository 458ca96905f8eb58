--------------------------- MODULE MachineTagsProofs ---------------------------
(***************************************************************************)
(* Machine-checked proofs about MachineTags, for any number of             *)
(* organisations, machines, codes, plans and workers and any set of        *)
(* endpoints in use.  What needs users who take turns says so.             *)
(***************************************************************************)
EXTENDS MachineTags, TLAPS

(***************************************************************************)
(* What the locals of a handler hold at each of its awaits.                *)
(***************************************************************************)
Finding == {"find_plan", "find_machine"}
Serving == {"read_org", "served"}

Shaped(t) ==
    /\ t.step # "idle" => t.op \in AllOperations
    /\ t.step = "insert" => t.op = "create"
    /\ t.op = "create" => t.row \in Row /\ t.row.plan = None /\ t.machine \in Machines
    /\ t.step = "find_plan" => t.op = "set_tier"
    /\ t.step = "find_machine" => t.op \in Edits \cup {"delete"}
    /\ t.step = "write" => t.op \in Edits /\ t.row \in Row
    /\ t.step = "erase" => t.op = "delete"
    /\ t.op \in Edits => t.step \notin {"idle", "served"}
    /\ t.op \in Edits \cup {"delete"} => t.machine \in Machines
    /\ t.op = "update" => t.plan = None /\ t.code = None
    /\ t.op = "set_tier" => t.plan \in Tiers /\ t.name = None /\ t.code = None
    /\ t.op = "set_tier" /\ t.step # "find_plan" => t.plan \in Plans
    /\ t.op = "rotate" => t.code \in Codes /\ t.name = None /\ t.plan = None
    /\ t.step \in {"lookup"} \cup Serving => t.op \in Scans
    /\ t.step \in Serving => t.row \in Row
    /\ t.op \in Scans /\ t.row # None => t.row.code = t.code
    /\ t.row # None => t.machine \in Machines
    /\ t.row # None /\ t.op # "summary" => t.row.org = t.org

AllShaped(tasks) == tasks \in [Workers -> Task] /\ \A x \in Workers : Shaped(tasks[x])

TypeInv == TypeOK /\ AllShaped(task)

(***************************************************************************)
(* Codes belong to the machine they were drawn for, in the table and in    *)
(* the rows that handlers hold; a code is drawn before it is written.      *)
(***************************************************************************)
RowsOwned == \A m \in Machines : rows[m] # None => owner[rows[m].code] = m

LocalsOwned ==
    \A w \in Workers :
        /\ task[w].row # None => owner[task[w].row.code] = task[w].machine
        /\ task[w].op = "rotate" => owner[task[w].code] = task[w].machine

(***************************************************************************)
(* A machine is being created by one request at most, before it has a row  *)
(* and before anybody can have read or deleted it.                         *)
(***************************************************************************)
Creates(w) == task[w].op = "create"
HasRead(w) == task[w].op \in Edits /\ task[w].row # None

CreatedOnce ==
    \A w \in Workers : Creates(w) =>
        /\ rows[task[w].machine] = None
        /\ confirmed[task[w].machine] = 0
        /\ \A x \in Workers \ {w} :
            Creates(x) \/ HasRead(x) => task[x].machine # task[w].machine

WantedIsThere == \A m \in Machines : rows[m] # None <=> wanted[m] # None

DeletedKnown == \A m \in Machines : confirmed[m] # 0 => m \in Known

(***************************************************************************)
(* The inductive invariant.                                                *)
(***************************************************************************)
IInv ==
    /\ TypeInv
    /\ WantedIsThere
    /\ RowsOwned
    /\ LocalsOwned
    /\ CreatedOnce
    /\ DeletedOnceAndForAll
    /\ DeletedKnown

-----------------------------------------------------------------------------
(* Answering a request forgets it. *)
LEMMA IdleShaped == Idle \in Task /\ Shaped(Idle)
BY NoneAssumption DEF Idle, Task, Steps, Shaped, Finding, Serving, AllOperations, Edits, Scans

(* A worker's locals stay well shaped when it goes on with well shaped ones. *)
LEMMA ResumeShaped ==
    ASSUME TypeInv, NEW w \in Workers, NEW t \in Task, Shaped(t), Resume(w, t)
    PROVE  AllShaped(task')
BY DEF TypeInv, TypeOK, AllShaped, Resume

(* The locals of an answered request are well shaped: there are none. *)
LEMMA AnswerShaped ==
    ASSUME TypeInv, NEW w \in Workers, Answer(w)
    PROVE  AllShaped(task')
BY IdleShaped, ResumeShaped DEF Answer

(* So are those of a request that only moves on. *)
LEMMA GotoShaped ==
    ASSUME TypeInv, NEW w \in Workers, NEW s \in Steps, Goto(w, s),
           Shaped([task[w] EXCEPT !.step = s])
    PROVE  AllShaped(task')
<1>1. [task[w] EXCEPT !.step = s] \in Task
  BY DEF TypeInv, TypeOK, Task
<1>2. Resume(w, [task[w] EXCEPT !.step = s])
  BY DEF Goto, Resume, TypeInv, TypeOK
<1> QED BY <1>1, <1>2, ResumeShaped

-----------------------------------------------------------------------------
(* Arriving requests keep types and shapes. *)
LEMMA BeginCreateType ==
    ASSUME TypeInv, NEW w \in Workers, BeginCreate(w)
    PROVE  TypeInv'
<1>1. PICK m \in Machines \ Known, c \in Fresh, o \in Orgs, n \in Names :
        /\ owner' = [owner EXCEPT ![c] = m]
        /\ Resume(w, [Idle EXCEPT !.op = "create", !.step = "insert", !.org = o,
                !.machine = m, !.row = [org |-> o, code |-> c, plan |-> None, name |-> n]])
        /\ UNCHANGED <<rows, revoked, wanted, confirmed>>
  BY DEF BeginCreate
<1> DEFINE r == [org |-> o, code |-> c, plan |-> None, name |-> n]
           t == [Idle EXCEPT !.op = "create", !.step = "insert", !.org = o, !.machine = m,
                   !.row = r]
<1>2. r \in Row /\ r.org = o /\ r.plan = None
  BY DEF Row, Fresh
<1>3. Resume(w, t)
  BY <1>1
<1> HIDE DEF r
<1>4. t \in Task /\ Shaped(t)
  BY <1>2, NoneAssumption DEF Idle, Task, Steps, Shaped, Finding, Serving, AllOperations,
     Edits, Scans
<1> QED BY <1>1, <1>3, <1>4, ResumeShaped DEF TypeInv, TypeOK, AllShaped, Fresh

(* Requests that edit or delete a machine. *)
LEMMA BeginEditType ==
    ASSUME TypeInv, NEW w \in Workers, BeginEdit(w) \/ BeginDelete(w)
    PROVE  TypeInv'
<1>1. ASSUME NEW m \in Machines, NEW o \in Orgs,
             \/ BeginUpdate(w, m, o) \/ BeginSetTier(w, m, o) \/ BeginRotate(w, m, o)
      PROVE  AllShaped(task') /\ owner' \in [Codes -> Machines \cup {None}]
  <2>1. ASSUME NEW n \in Names \cup {None},
               Resume(w, [Idle EXCEPT !.op = "update", !.step = "find_machine", !.org = o,
                            !.machine = m, !.name = n])
        PROVE  AllShaped(task')
    <3> DEFINE t == [Idle EXCEPT !.op = "update", !.step = "find_machine", !.org = o,
                       !.machine = m, !.name = n]
    <3>1. t \in Task /\ Shaped(t)
      BY NoneAssumption DEF Idle, Task, Steps, Shaped, Finding, Serving, AllOperations,
         Edits, Scans
    <3> QED BY <2>1, <3>1, ResumeShaped
  <2>2. ASSUME NEW p \in Tiers,
               Resume(w, [Idle EXCEPT !.op = "set_tier", !.step = "find_plan", !.org = o,
                            !.machine = m, !.plan = p])
        PROVE  AllShaped(task')
    <3> DEFINE t == [Idle EXCEPT !.op = "set_tier", !.step = "find_plan", !.org = o,
                       !.machine = m, !.plan = p]
    <3>1. t \in Task /\ Shaped(t)
      BY NoneAssumption DEF Idle, Task, Steps, Shaped, Finding, Serving, AllOperations,
         Edits, Scans
    <3> QED BY <2>2, <3>1, ResumeShaped
  <2>3. ASSUME NEW c \in Codes,
               Resume(w, [Idle EXCEPT !.op = "rotate", !.step = "find_machine", !.org = o,
                            !.machine = m, !.code = c])
        PROVE  AllShaped(task')
    <3> DEFINE t == [Idle EXCEPT !.op = "rotate", !.step = "find_machine", !.org = o,
                       !.machine = m, !.code = c]
    <3>1. t \in Task /\ Shaped(t)
      BY NoneAssumption DEF Idle, Task, Steps, Shaped, Finding, Serving, AllOperations,
         Edits, Scans
    <3> QED BY <2>3, <3>1, ResumeShaped
  <2> QED BY <1>1, <2>1, <2>2, <2>3 DEF BeginUpdate, BeginSetTier, BeginRotate, Fresh,
          TypeInv, TypeOK
<1>2. ASSUME NEW m \in Machines, NEW o \in Orgs,
             Resume(w, [Idle EXCEPT !.op = "delete", !.step = "find_machine", !.org = o,
                          !.machine = m])
      PROVE  AllShaped(task')
  <2> DEFINE t == [Idle EXCEPT !.op = "delete", !.step = "find_machine", !.org = o,
                     !.machine = m]
  <2>1. t \in Task /\ Shaped(t)
    BY NoneAssumption DEF Idle, Task, Steps, Shaped, Finding, Serving, AllOperations,
       Edits, Scans
  <2> QED BY <1>2, <2>1, ResumeShaped
<1>3. CASE BeginEdit(w)
  BY <1>1, <1>3 DEF BeginEdit, Known, TypeInv, TypeOK, AllShaped
<1>4. CASE BeginDelete(w)
  BY <1>2, <1>4 DEF BeginDelete, Known, TypeInv, TypeOK, AllShaped
<1> QED BY <1>3, <1>4

(* Scans. *)
LEMMA BeginScanType ==
    ASSUME TypeInv, NEW w \in Workers, BeginScan(w)
    PROVE  TypeInv'
<1>1. ASSUME NEW c \in Codes,
             Resume(w, [Idle EXCEPT !.op = "summary", !.step = "lookup", !.code = c])
      PROVE  AllShaped(task')
  <2> DEFINE t == [Idle EXCEPT !.op = "summary", !.step = "lookup", !.code = c]
  <2>1. t \in Task /\ Shaped(t)
    BY NoneAssumption DEF Idle, Task, Steps, Shaped, Finding, Serving, AllOperations,
       Edits, Scans
  <2> QED BY <1>1, <2>1, ResumeShaped
<1>2. ASSUME NEW c \in Codes, NEW o \in Orgs,
             Resume(w, [Idle EXCEPT !.op = "full", !.step = "lookup", !.code = c, !.org = o])
      PROVE  AllShaped(task')
  <2> DEFINE t == [Idle EXCEPT !.op = "full", !.step = "lookup", !.code = c, !.org = o]
  <2>1. t \in Task /\ Shaped(t)
    BY NoneAssumption DEF Idle, Task, Steps, Shaped, Finding, Serving, AllOperations,
       Edits, Scans
  <2> QED BY <1>2, <2>1, ResumeShaped
<1> QED BY <1>1, <1>2 DEF BeginScan, TypeInv, TypeOK, AllShaped

(* What an edit has changed in a row is a row of the same organisation. *)
LEMMA PatchedType ==
    ASSUME NEW t \in Task, Shaped(t), t.op \in Edits, t.step = "find_machine",
           NEW row \in Row
    PROVE  Patched(t, row) \in Row /\ Patched(t, row).org = row.org
<1>1. CASE t.op = "update"
  BY <1>1 DEF Patched, Row, Task
<1>2. CASE t.op = "set_tier"
  BY <1>2 DEF Patched, Row, Shaped, Edits
<1>3. CASE t.op = "rotate"
  BY <1>3 DEF Patched, Row, Shaped, Edits
<1> QED BY <1>1, <1>2, <1>3 DEF Edits

(* The reads of an edit. *)
LEMMA FindType ==
    ASSUME TypeInv, NEW w \in Workers, FindPlan(w) \/ FindMachine(w)
    PROVE  TypeInv'
<1> DEFINE t == task[w]
<1>1. t \in Task /\ Shaped(t)
  BY DEF TypeInv, AllShaped
<1>2. UNCHANGED <<rows, owner, revoked, wanted, confirmed>>
  BY DEF FindPlan, FindMachine
<1>3. CASE FindPlan(w)
  <2>1. t.step = "find_plan"
    BY <1>3 DEF FindPlan, At
  <2>2. t.plan \in Plans => Shaped([t EXCEPT !.step = "find_machine"])
    BY <1>1, <2>1 DEF Shaped, Task, Edits, Scans, Serving, AllOperations
  <2> QED BY <1>2, <1>3, <2>2, AnswerShaped, GotoShaped DEF FindPlan, Steps, TypeInv, TypeOK,
          AllShaped
<1>4. CASE FindMachine(w)
  <2>1. t.step = "find_machine"
    BY <1>4 DEF FindMachine, At
  <2>2. t.op = "delete" => Shaped([t EXCEPT !.step = "erase"])
    BY <1>1, <2>1 DEF Shaped, Task, Edits, Scans, Serving, AllOperations
  <2>3. ASSUME InOrg(t), t.op # "delete",
               Resume(w, [t EXCEPT !.row = Patched(t, rows[t.machine]), !.step = "write"])
        PROVE  AllShaped(task')
    <3> DEFINE r == Patched(t, rows[t.machine])
               u == [t EXCEPT !.row = r, !.step = "write"]
    <3>1. t.op \in Edits /\ t.machine \in Machines
      BY <1>1, <2>1, <2>3 DEF Shaped
    <3>2. r \in Row /\ r.org = t.org
      BY <1>1, <2>1, <2>3, <3>1, PatchedType DEF InOrg, TypeInv, TypeOK
    <3> HIDE DEF r
    <3>3. u \in Task
      BY <1>1, <3>2 DEF Task, Steps
    <3>4. Shaped(u)
      BY <1>1, <2>1, <3>1, <3>2 DEF Task, Shaped, Edits, Scans, Serving, AllOperations
    <3> QED BY <2>3, <3>3, <3>4, ResumeShaped DEF r
  <2> QED BY <1>2, <1>4, <2>2, <2>3, AnswerShaped, GotoShaped DEF FindMachine, Steps, TypeInv,
          TypeOK, AllShaped
<1> QED BY <1>3, <1>4

(* The history of what is wanted of a row is a row. *)
LEMMA AskedType ==
    ASSUME NEW t \in Task, Shaped(t), t.op \in Edits, t.step = "write", NEW row \in Row
    PROVE  Asked(t, row) \in Row
BY DEF Asked, Row, Task, Shaped, Edits

(* The writes. *)
LEMMA WriteType ==
    ASSUME TypeInv, WantedIsThere, NEW w \in Workers, Insert(w) \/ Write(w) \/ Erase(w)
    PROVE  TypeInv'
<1> DEFINE t == task[w]
<1>1. t \in Task /\ Shaped(t)
  BY DEF TypeInv, AllShaped
<1>2. AllShaped(task')
  BY AnswerShaped DEF Insert, Write, Erase
<1>3. CASE Insert(w)
  <2>1. t.row \in Row
    BY <1>1, <1>3 DEF Insert, At, Shaped
  <2> QED BY <1>2, <1>3, <2>1 DEF Insert, TypeInv, TypeOK, AllShaped
<1>4. CASE Write(w)
  <2>1. t.step = "write" /\ t.row \in Row /\ t.op \in Edits /\ t.machine \in Machines
    BY <1>1, <1>4 DEF Write, At, Shaped
  <2>2. rows' \in [Machines -> Row \cup {None}]
    BY <1>4, <2>1 DEF Write, Written, TypeInv, TypeOK
  <2>3. revoked' \subseteq Codes
    BY <1>4, <2>1 DEF Write, InOrg, Row, TypeInv, TypeOK
  <2>4. wanted' \in [Machines -> Row \cup {None}]
    <3>1. InOrg(t) => Asked(t, wanted[t.machine]) \in Row
      BY <1>1, <2>1, AskedType DEF InOrg, WantedIsThere, TypeInv, TypeOK
    <3> QED BY <1>4, <2>1, <3>1 DEF Write, TypeInv, TypeOK
  <2> QED BY <1>2, <1>4, <2>2, <2>3, <2>4 DEF Write, TypeInv, TypeOK, AllShaped
<1>5. CASE Erase(w)
  <2>1. t.machine \in Machines
    BY <1>1, <1>5 DEF Erase, At, Shaped
  <2> QED BY <1>2, <1>5, <2>1 DEF Erase, TypeInv, TypeOK, AllShaped
<1> QED BY <1>3, <1>4, <1>5

(* The reads of a scan. *)
LEMMA ScanType ==
    ASSUME TypeInv, NEW w \in Workers, Lookup(w) \/ ReadOrg(w) \/ Fail(w)
    PROVE  TypeInv'
<1> DEFINE t == task[w]
<1>1. t \in Task /\ Shaped(t)
  BY DEF TypeInv, AllShaped
<1>2. UNCHANGED <<rows, owner, revoked, wanted, confirmed>>
  BY DEF Lookup, ReadOrg, Fail
<1>3. CASE Lookup(w)
  <2>1. ASSUME NEW m \in Machines, rows[m] # None, rows[m].code = t.code, MayRead(t, rows[m]),
               Resume(w, [t EXCEPT !.machine = m, !.row = rows[m], !.step = "read_org"])
        PROVE  AllShaped(task')
    <3> DEFINE r == rows[m]
               u == [t EXCEPT !.machine = m, !.row = r, !.step = "read_org"]
    <3>1. r \in Row /\ t.op \in Scans /\ r.code = t.code
      BY <1>1, <1>3, <2>1 DEF Lookup, At, Shaped, TypeInv, TypeOK
    <3>2. t.op = "summary" \/ r.org = t.org
      BY <2>1 DEF MayRead
    <3> HIDE DEF r
    <3>3. u \in Task
      BY <1>1, <3>1 DEF Task, Steps
    <3>4. Shaped(u)
      BY <1>1, <3>1, <3>2 DEF Task, Shaped, Edits, Scans, Serving, AllOperations
    <3> QED BY <2>1, <3>3, <3>4, ResumeShaped DEF r
  <2> QED BY <1>2, <1>3, <2>1, AnswerShaped DEF Lookup, TypeInv, TypeOK, AllShaped
<1>4. CASE ReadOrg(w)
  <2>1. Shaped([t EXCEPT !.step = "served"])
    BY <1>1, <1>4 DEF ReadOrg, At, Task, Shaped, Edits, Scans, Serving, AllOperations
  <2> QED BY <1>2, <1>4, <2>1, GotoShaped DEF ReadOrg, Steps, TypeInv, TypeOK, AllShaped
<1>5. CASE Fail(w)
  BY <1>2, <1>5, AnswerShaped DEF Fail, TypeInv, TypeOK, AllShaped
<1> QED BY <1>3, <1>4, <1>5

(* A step of a worker keeps types and shapes. *)
LEMMA NextType ==
    ASSUME IInv, Next
    PROVE  TypeInv'
BY BeginCreateType, BeginEditType, BeginScanType, FindType, WriteType, ScanType
   DEF Next, Arrive, Step, IInv

-----------------------------------------------------------------------------
(***************************************************************************)
(* A handler that writes nothing and goes on with the row, the machine and *)
(* the code it has, or forgets them.                                       *)
(***************************************************************************)
Keeps(w) ==
    /\ task'[w].op = task[w].op
    /\ task'[w].machine = task[w].machine
    /\ task'[w].row = task[w].row
    /\ task'[w].code = task[w].code

Forgets(w) == task'[w].op \notin {"create", "rotate"} /\ task'[w].row = None

Quiet == \A w \in Workers : Keeps(w) \/ Forgets(w)

Rest ==
    /\ WantedIsThere
    /\ RowsOwned
    /\ LocalsOwned
    /\ CreatedOnce
    /\ DeletedOnceAndForAll
    /\ DeletedKnown

(* Such a step disturbs nothing. *)
LEMMA QuietInv ==
    ASSUME IInv, Quiet, UNCHANGED <<rows, owner, wanted, confirmed>>
    PROVE  Rest'
<1>1. LocalsOwned'
  BY DEF IInv, LocalsOwned, Quiet, Keeps, Forgets
<1>2. CreatedOnce'
  <2> SUFFICES ASSUME NEW w \in Workers, Creates(w)'
               PROVE  /\ rows[task[w].machine] = None
                      /\ confirmed[task[w].machine] = 0
                      /\ task'[w].machine = task[w].machine
                      /\ \A x \in Workers \ {w} :
                          Creates(x)' \/ HasRead(x)' => task'[x].machine # task[w].machine
    BY DEF CreatedOnce
  <2>1. Creates(w) /\ Keeps(w)
    BY DEF Creates, Quiet, Keeps, Forgets
  <2>2. ASSUME NEW x \in Workers \ {w}, Creates(x)' \/ HasRead(x)'
        PROVE  Keeps(x) /\ (Creates(x) \/ HasRead(x))
    BY <2>2 DEF Creates, HasRead, Quiet, Keeps, Forgets
  <2> QED BY <2>1, <2>2 DEF IInv, CreatedOnce, Keeps
<1> QED BY <1>1, <1>2 DEF Rest, IInv, WantedIsThere, RowsOwned, DeletedOnceAndForAll, DeletedKnown,
        Known

(* Moving on and answering are quiet. *)
LEMMA GotoQuiet ==
    ASSUME TypeInv, NEW w \in Workers, NEW s \in Steps, Goto(w, s)
    PROVE  Quiet
BY DEF TypeInv, TypeOK, Task, Goto, Quiet, Keeps

(* An answer forgets what the handler held, and nothing more. *)
LEMMA AnswerQuiet ==
    ASSUME TypeInv, NEW w \in Workers, Answer(w)
    PROVE  Quiet /\ task'[w] = Idle /\ \A x \in Workers \ {w} : task'[x] = task[x]
BY NoneAssumption DEF TypeInv, TypeOK, Answer, Resume, Idle, Quiet, Keeps, Forgets,
   AllOperations, Edits

-----------------------------------------------------------------------------
(* What the handlers hold, apart from types. *)
LEMMA LocalsFacts ==
    ASSUME TypeInv, NEW x \in Workers
    PROVE  /\ task[x].row # None => task[x].row.code \in Codes /\ task[x].machine \in Machines
           /\ task[x].op = "rotate" => task[x].code \in Codes /\ task[x].machine \in Machines
           /\ Creates(x) => task[x].row # None /\ task[x].machine \in Machines
           /\ HasRead(x) => task[x].row # None /\ task[x].machine \in Machines
BY NoneAssumption DEF TypeInv, AllShaped, Shaped, Task, Row, Creates, HasRead, Edits

(* Drawing a code takes nothing from its owner. *)
LEMMA DrawnInv ==
    ASSUME IInv, NEW m \in Machines, NEW c \in Fresh, owner' = [owner EXCEPT ![c] = m],
           UNCHANGED <<rows, confirmed>>
    PROVE  /\ owner'[c] = m
           /\ RowsOwned'
           /\ DeletedKnown'
           /\ \A x \in Workers :
                /\ task[x].row # None => owner'[task[x].row.code] = task[x].machine
                /\ task[x].op = "rotate" => owner'[task[x].code] = task[x].machine
<1>1. /\ owner[c] = None /\ c \in Codes /\ owner'[c] = m
      /\ \A d \in Codes : owner[d] # None => owner'[d] = owner[d]
  BY DEF Fresh, IInv, TypeInv, TypeOK
<1>2. \A k \in Machines : rows[k] # None => rows[k].code \in Codes
  BY DEF IInv, TypeInv, TypeOK, Row
<1>3. RowsOwned'
  BY <1>1, <1>2, NoneAssumption DEF IInv, RowsOwned
<1>4. DeletedKnown'
  BY <1>1, NoneAssumption DEF IInv, DeletedKnown, Known
<1>5. ASSUME NEW x \in Workers
      PROVE  /\ task[x].row # None => owner'[task[x].row.code] = task[x].machine
             /\ task[x].op = "rotate" => owner'[task[x].code] = task[x].machine
  BY <1>1, LocalsFacts, NoneAssumption DEF IInv, LocalsOwned
<1> QED BY <1>1, <1>3, <1>4, <1>5

(* Creating: the machine and its code are new. *)
LEMMA BeginCreateInv ==
    ASSUME IInv, NEW w \in Workers, BeginCreate(w)
    PROVE  Rest'
<1>1. PICK m \in Machines \ Known, c \in Fresh, o \in Orgs, n \in Names :
        /\ owner' = [owner EXCEPT ![c] = m]
        /\ Resume(w, [Idle EXCEPT !.op = "create", !.step = "insert", !.org = o,
                !.machine = m, !.row = [org |-> o, code |-> c, plan |-> None, name |-> n]])
        /\ UNCHANGED <<rows, revoked, wanted, confirmed>>
  BY DEF BeginCreate
<1>2. /\ task'[w].op = "create" /\ task'[w].machine = m
      /\ task'[w].row # None /\ task'[w].row.code = c
      /\ \A x \in Workers \ {w} : task'[x] = task[x]
  <2> DEFINE r == [org |-> o, code |-> c, plan |-> None, name |-> n]
  <2>1. r \in Row /\ r.code = c
    BY DEF Row, Fresh
  <2>2. Resume(w, [Idle EXCEPT !.op = "create", !.step = "insert", !.org = o,
                !.machine = m, !.row = r])
    BY <1>1
  <2> HIDE DEF r
  <2> QED BY <2>1, <2>2, NoneAssumption DEF Resume, Idle, IInv, TypeInv, TypeOK
<1>3. /\ owner'[c] = m /\ RowsOwned' /\ DeletedKnown'
      /\ \A x \in Workers :
            /\ task[x].row # None => owner'[task[x].row.code] = task[x].machine
            /\ task[x].op = "rotate" => owner'[task[x].code] = task[x].machine
  BY <1>1, DrawnInv
<1>4. LocalsOwned'
  BY <1>2, <1>3 DEF LocalsOwned
<1>5. CreatedOnce'
  <2>1. \A d \in Codes : owner[d] # m
    BY <1>1 DEF Known
  <2>2. rows[m] = None /\ confirmed[m] = 0
    BY <1>1, <2>1 DEF IInv, RowsOwned, DeletedKnown, TypeInv, TypeOK, Row
  <2>3. \A x \in Workers : Creates(x) \/ HasRead(x) => task[x].machine # m
    BY <2>1, LocalsFacts DEF IInv, LocalsOwned
  <2> QED BY <1>1, <1>2, <2>2, <2>3 DEF CreatedOnce, IInv, Creates, HasRead, Edits
<1> QED BY <1>1, <1>3, <1>4, <1>5 DEF Rest, IInv, WantedIsThere, DeletedOnceAndForAll

(* Requests that edit or delete: all they hold is the code of a rotation. *)
LEMMA BeginEditInv ==
    ASSUME IInv, NEW w \in Workers, BeginEdit(w) \/ BeginDelete(w)
    PROVE  Rest'
<1>1. CASE BeginDelete(w)
  <2>1. Quiet
    BY <1>1 DEF BeginDelete, Resume, Idle, IInv, TypeInv, TypeOK, Quiet, Keeps, Forgets
  <2> QED BY <1>1, <2>1, QuietInv DEF BeginDelete
<1>2. CASE BeginEdit(w)
  <2>1. PICK m \in Known, o \in Orgs :
          /\ BeginUpdate(w, m, o) \/ BeginSetTier(w, m, o) \/ BeginRotate(w, m, o)
          /\ UNCHANGED <<rows, revoked, wanted, confirmed>>
    BY <1>2 DEF BeginEdit
  <2>2. CASE BeginUpdate(w, m, o) \/ BeginSetTier(w, m, o)
    <3>1. UNCHANGED owner
      BY <2>2 DEF BeginUpdate, BeginSetTier
    <3>2. /\ task'[w].op \in {"update", "set_tier"} /\ task'[w].row = None
          /\ \A x \in Workers \ {w} : task'[x] = task[x]
      BY <2>2 DEF BeginUpdate, BeginSetTier, Resume, Idle, IInv, TypeInv, TypeOK
    <3>3. Quiet
      BY <3>2 DEF Quiet, Keeps, Forgets
    <3> QED BY <2>1, <3>1, <3>3, QuietInv
  <2>3. CASE BeginRotate(w, m, o)
    <3>1. PICK c \in Fresh :
            /\ owner' = [owner EXCEPT ![c] = m]
            /\ Resume(w, [Idle EXCEPT !.op = "rotate", !.step = "find_machine", !.org = o,
                    !.machine = m, !.code = c])
      BY <2>3 DEF BeginRotate
    <3>2. /\ task'[w].op = "rotate" /\ task'[w].machine = m /\ task'[w].row = None
          /\ task'[w].code = c
          /\ \A x \in Workers \ {w} : task'[x] = task[x]
      BY <3>1 DEF Resume, Idle, IInv, TypeInv, TypeOK
    <3>3. m \in Machines
      BY DEF Known
    <3>4. /\ owner'[c] = m /\ RowsOwned' /\ DeletedKnown'
          /\ \A x \in Workers :
                /\ task[x].row # None => owner'[task[x].row.code] = task[x].machine
                /\ task[x].op = "rotate" => owner'[task[x].code] = task[x].machine
      BY <2>1, <3>1, <3>3, DrawnInv
    <3>5. LocalsOwned'
      BY <3>2, <3>4 DEF LocalsOwned
    <3>6. CreatedOnce'
      BY <2>1, <3>2 DEF IInv, CreatedOnce, Creates, HasRead
    <3> QED BY <2>1, <3>4, <3>5, <3>6 DEF Rest, IInv, WantedIsThere, DeletedOnceAndForAll
  <2> QED BY <2>1, <2>2, <2>3
<1> QED BY <1>1, <1>2

(* An edit that has read a row of a machine, which is no longer being created. *)
LEMMA FindInv ==
    ASSUME IInv, NEW w \in Workers, FindPlan(w) \/ FindMachine(w)
    PROVE  Rest'
<1> DEFINE t == task[w]
<1>1. UNCHANGED <<rows, owner, wanted, confirmed>>
  BY DEF FindPlan, FindMachine
<1>2. CASE Quiet
  BY <1>1, <1>2, QuietInv
<1>3. ASSUME FindMachine(w), InOrg(t), t.op # "delete",
             Resume(w, [t EXCEPT !.row = Patched(t, rows[t.machine]), !.step = "write"])
      PROVE  Rest'
  <2> DEFINE r == Patched(t, rows[t.machine])
  <2>1. t \in Task /\ Shaped(t) /\ t.step = "find_machine" /\ t.op \in Edits
        /\ t.machine \in Machines
    BY <1>3 DEF FindMachine, At, IInv, TypeInv, AllShaped, Shaped
  <2>2. rows[t.machine] \in Row /\ rows[t.machine] # None
    BY <1>3, <2>1 DEF InOrg, IInv, TypeInv, TypeOK
  <2>3. r \in Row /\ owner[r.code] = t.machine
    <3>1. r \in Row
      BY <2>1, <2>2, PatchedType
    <3>2. r.code = IF t.op = "rotate" THEN t.code ELSE rows[t.machine].code
      BY <2>1, <2>2 DEF Patched, Row, Edits
    <3> QED BY <2>1, <2>2, <3>1, <3>2 DEF IInv, RowsOwned, LocalsOwned
  <2>4. /\ task'[w].op = t.op /\ task'[w].machine = t.machine /\ task'[w].row = r
        /\ task'[w].code = t.code
        /\ \A x \in Workers \ {w} : task'[x] = task[x]
    <3> HIDE DEF r
    <3>1. Resume(w, [t EXCEPT !.row = r, !.step = "write"])
      BY <1>3 DEF r
    <3> QED BY <2>1, <3>1 DEF Resume, Task, IInv, TypeInv, TypeOK
  <2> HIDE DEF r
  <2>5. LocalsOwned'
    BY <1>1, <2>3, <2>4 DEF IInv, LocalsOwned
  <2>6. CreatedOnce'
    <3>1. \A x \in Workers : Creates(x) => task[x].machine # t.machine
      BY <2>2 DEF IInv, CreatedOnce
    <3> QED BY <1>1, <2>1, <2>4, <3>1 DEF IInv, CreatedOnce, Creates, HasRead, Edits
  <2> QED BY <1>1, <2>5, <2>6 DEF Rest, IInv, WantedIsThere, RowsOwned, DeletedOnceAndForAll,
          DeletedKnown, Known
<1> QED BY <1>2, <1>3, GotoQuiet, AnswerQuiet DEF FindPlan, FindMachine, Steps, IInv

(* The INSERT: the creator's row, which carries the creator's code. *)
LEMMA InsertInv ==
    ASSUME IInv, NEW w \in Workers, Insert(w)
    PROVE  Rest'
<1> DEFINE t == task[w]
<1>1. Quiet /\ task'[w] = Idle /\ \A x \in Workers \ {w} : task'[x] = task[x]
  BY AnswerQuiet DEF Insert, IInv
<1>2. Creates(w) /\ t.machine \in Machines /\ t.row \in Row /\ t.row # None
      /\ owner[t.row.code] = t.machine /\ confirmed[t.machine] = 0
  BY NoneAssumption DEF Insert, At, Creates, IInv, TypeInv, AllShaped, Shaped, LocalsOwned, CreatedOnce
<1>3. CASE UNCHANGED <<rows, wanted>>
  BY <1>1, <1>3, QuietInv DEF Insert
<1>4. CASE /\ rows' = [rows EXCEPT ![t.machine] = t.row]
           /\ wanted' = [wanted EXCEPT ![t.machine] = t.row]
  <2>1. UNCHANGED <<owner, confirmed>>
    BY DEF Insert
  <2>2. WantedIsThere' /\ RowsOwned' /\ DeletedOnceAndForAll' /\ DeletedKnown'
    BY <1>2, <1>4, <2>1 DEF IInv, TypeInv, TypeOK, WantedIsThere, RowsOwned, DeletedOnceAndForAll,
       DeletedKnown, Known
  <2>3. LocalsOwned'
    BY <1>1, <2>1 DEF IInv, LocalsOwned, Idle, Quiet, Keeps, Forgets
  <2>4. ~Creates(w)'
    BY <1>1, NoneAssumption DEF Creates, Idle, AllOperations
  <2>5. CreatedOnce'
    <3> SUFFICES ASSUME NEW x \in Workers, Creates(x)'
                 PROVE  /\ rows'[task'[x].machine] = None
                        /\ confirmed'[task'[x].machine] = 0
                        /\ \A y \in Workers \ {x} :
                            Creates(y)' \/ HasRead(y)' => task'[y].machine # task'[x].machine
      BY DEF CreatedOnce
    <3>1. x # w /\ Creates(x) /\ task'[x] = task[x]
      BY <1>1, <2>4 DEF Creates
    <3>2. task[x].machine # t.machine
      BY <1>2, <3>1 DEF IInv, CreatedOnce
    <3>3. rows'[task[x].machine] = None /\ confirmed'[task[x].machine] = 0
      BY <1>4, <2>1, <3>1, <3>2, LocalsFacts DEF IInv, CreatedOnce, TypeInv, TypeOK
    <3>4. ~HasRead(w)'
      BY <1>1 DEF HasRead, Idle
    <3> QED BY <1>1, <2>4, <3>1, <3>3, <3>4 DEF IInv, CreatedOnce, Creates, HasRead
  <2> QED BY <2>2, <2>3, <2>5 DEF Rest
<1> QED BY <1>3, <1>4 DEF Insert

(* The UPDATE replaces a row that is there by one of the same machine. *)
LEMMA WriteInv ==
    ASSUME IInv, NEW w \in Workers, Write(w)
    PROVE  Rest'
<1> DEFINE t == task[w]
<1>1. Quiet /\ task'[w] = Idle /\ \A x \in Workers \ {w} : task'[x] = task[x]
  BY AnswerQuiet DEF Write, IInv
<1>2. /\ t.op \in Edits /\ t.machine \in Machines /\ t.row \in Row /\ t.row # None
      /\ owner[t.row.code] = t.machine
  BY NoneAssumption DEF Write, At, IInv, TypeInv, AllShaped, Shaped, LocalsOwned
<1>3. UNCHANGED <<owner, confirmed>>
  BY DEF Write
<1>4. CASE UNCHANGED <<rows, wanted>>
  BY <1>1, <1>3, <1>4, QuietInv
<1>5. CASE /\ InOrg(t)
           /\ rows' = [rows EXCEPT ![t.machine] = t.row]
           /\ wanted' = [wanted EXCEPT ![t.machine] = Asked(t, wanted[t.machine])]
  <2>1. rows[t.machine] # None
    BY <1>5 DEF InOrg
  <2>2. Asked(t, wanted[t.machine]) # None
    <3>1. wanted[t.machine] \in Row
      BY <1>2, <2>1 DEF IInv, WantedIsThere, TypeInv, TypeOK
    <3>2. t \in Task /\ Shaped(t) /\ t.step = "write"
      BY DEF Write, At, IInv, TypeInv, AllShaped
    <3> QED BY <1>2, <3>1, <3>2, AskedType, NoneAssumption
  <2>3. WantedIsThere' /\ RowsOwned' /\ DeletedOnceAndForAll'
    BY <1>2, <1>3, <1>5, <2>1, <2>2 DEF IInv, TypeInv, TypeOK, WantedIsThere, RowsOwned,
       DeletedOnceAndForAll
  <2>4. DeletedKnown'
    BY <1>3 DEF IInv, DeletedKnown, Known
  <2>5. LocalsOwned'
    BY <1>1, <1>3 DEF IInv, LocalsOwned, Idle, Quiet, Keeps, Forgets
  <2>6. CreatedOnce'
    <3>1. \A x \in Workers : Creates(x) => task[x].machine # t.machine
      BY <2>1 DEF IInv, CreatedOnce
    <3>2. \A m \in Machines : m # t.machine => rows'[m] = rows[m]
      BY <1>5 DEF IInv, TypeInv, TypeOK
    <3>3. ~Creates(w)' /\ ~HasRead(w)'
      BY <1>1, NoneAssumption DEF Creates, HasRead, Idle, AllOperations
    <3> QED BY <1>1, <1>3, <3>1, <3>2, <3>3, LocalsFacts DEF IInv, CreatedOnce, Creates, HasRead
  <2> QED BY <2>3, <2>4, <2>5, <2>6 DEF Rest
<1> QED BY <1>4, <1>5 DEF Write, Written

(* The DELETE: the machine's row was there, so nobody is creating it. *)
LEMMA EraseInv ==
    ASSUME IInv, NEW w \in Workers, Erase(w)
    PROVE  Rest'
<1> DEFINE m == task[w].machine
<1>1. Quiet /\ task'[w] = Idle /\ \A x \in Workers \ {w} : task'[x] = task[x]
  BY AnswerQuiet DEF Erase, IInv
<1>2. m \in Machines
  BY DEF Erase, At, IInv, TypeInv, AllShaped, Shaped
<1>3. UNCHANGED owner
  BY DEF Erase
<1>4. CASE UNCHANGED <<rows, wanted, confirmed>>
  BY <1>1, <1>3, <1>4, QuietInv
<1>5. CASE /\ rows[m] # None
           /\ rows' = [rows EXCEPT ![m] = None]
           /\ wanted' = [wanted EXCEPT ![m] = None]
           /\ confirmed' = [confirmed EXCEPT ![m] = @ + 1]
  <2>1. confirmed[m] = 0
    BY <1>2, <1>5 DEF IInv, DeletedOnceAndForAll, TypeInv, TypeOK
  <2>2. confirmed' = [confirmed EXCEPT ![m] = 1]
    BY <1>2, <1>5, <2>1
  <2>3. WantedIsThere' /\ RowsOwned' /\ DeletedOnceAndForAll'
    BY <1>2, <1>3, <1>5, <2>2 DEF IInv, TypeInv, TypeOK, WantedIsThere, RowsOwned,
       DeletedOnceAndForAll
  <2>4. DeletedKnown'
    <3>1. \E c \in Codes : owner[c] = m
      BY <1>2, <1>5 DEF IInv, RowsOwned, TypeInv, TypeOK, Row
    <3> QED BY <1>2, <1>3, <2>2, <3>1 DEF IInv, TypeInv, TypeOK, DeletedKnown, Known
  <2>5. LocalsOwned'
    BY <1>1, <1>3 DEF IInv, LocalsOwned, Idle, Quiet, Keeps, Forgets
  <2>6. CreatedOnce'
    <3>1. \A x \in Workers : Creates(x) => task[x].machine # m
      BY <1>5 DEF IInv, CreatedOnce
    <3>2. \A n \in Machines : n # m => rows'[n] = rows[n] /\ confirmed'[n] = confirmed[n]
      BY <1>5 DEF IInv, TypeInv, TypeOK
    <3>3. ~Creates(w)' /\ ~HasRead(w)'
      BY <1>1, NoneAssumption DEF Creates, HasRead, Idle, AllOperations
    <3> QED BY <1>1, <3>1, <3>2, <3>3, LocalsFacts DEF IInv, CreatedOnce, Creates, HasRead
  <2> QED BY <2>3, <2>4, <2>5, <2>6 DEF Rest
<1> QED BY <1>4, <1>5 DEF Erase, InOrg

(* Scans: the row found by its code is of the machine the code was drawn for. *)
LEMMA ScanInv ==
    ASSUME IInv, NEW w \in Workers, BeginScan(w) \/ Lookup(w) \/ ReadOrg(w) \/ Fail(w)
    PROVE  Rest'
<1> DEFINE t == task[w]
<1>1. UNCHANGED <<rows, owner, wanted, confirmed>>
  BY DEF BeginScan, Lookup, ReadOrg, Fail
<1>2. CASE Quiet
  BY <1>1, <1>2, QuietInv
<1>3. CASE BeginScan(w)
  <2>1. ASSUME NEW op \in Scans, NEW c, NEW o,
               Resume(w, [Idle EXCEPT !.op = op, !.step = "lookup", !.code = c, !.org = o])
        PROVE  Quiet
    <3>1. /\ task'[w].op = op /\ task'[w].row = None
          /\ \A x \in Workers \ {w} : task'[x] = task[x]
      BY <2>1 DEF Resume, Idle, IInv, TypeInv, TypeOK
    <3> QED BY <3>1 DEF Quiet, Keeps, Forgets, Scans
  <2>2. ASSUME NEW c,
               Resume(w, [Idle EXCEPT !.op = "summary", !.step = "lookup", !.code = c])
        PROVE  Quiet
    <3>1. /\ task'[w].op = "summary" /\ task'[w].row = None
          /\ \A x \in Workers \ {w} : task'[x] = task[x]
      BY <2>2 DEF Resume, Idle, IInv, TypeInv, TypeOK
    <3> QED BY <3>1 DEF Quiet, Keeps, Forgets
  <2>3. PICK c \in Codes, o \in Orgs :
            \/ Resume(w, [Idle EXCEPT !.op = "summary", !.step = "lookup", !.code = c])
            \/ Resume(w, [Idle EXCEPT !.op = "full", !.step = "lookup", !.code = c, !.org = o])
    BY <1>3 DEF BeginScan
  <2>4. Quiet
    BY <2>1, <2>2, <2>3 DEF Scans
  <2> QED BY <1>2, <2>4
<1>4. ASSUME Lookup(w), NEW m \in Machines, rows[m] # None,
             Resume(w, [t EXCEPT !.machine = m, !.row = rows[m], !.step = "read_org"])
      PROVE  Rest'
  <2>1. t \in Task /\ t.op \in Scans
    BY <1>4 DEF Lookup, At, IInv, TypeInv, AllShaped, Shaped
  <2>2. /\ task'[w].op = t.op /\ task'[w].machine = m /\ task'[w].row = rows[m]
        /\ \A x \in Workers \ {w} : task'[x] = task[x]
    BY <1>4, <2>1 DEF Resume, Task, IInv, TypeInv, TypeOK
  <2>3. LocalsOwned'
    BY <1>1, <1>4, <2>1, <2>2 DEF IInv, LocalsOwned, RowsOwned, Scans
  <2>4. CreatedOnce'
    BY <1>1, <2>1, <2>2 DEF IInv, CreatedOnce, Creates, HasRead, Scans, Edits
  <2> QED BY <1>1, <2>3, <2>4 DEF Rest, IInv, WantedIsThere, RowsOwned, DeletedOnceAndForAll,
          DeletedKnown, Known
<1> QED BY <1>2, <1>3, <1>4, GotoQuiet, AnswerQuiet DEF Lookup, ReadOrg, Fail, Steps, IInv

(* Every step preserves the invariant. *)
LEMMA NextInv ==
    ASSUME IInv, Next
    PROVE  IInv'
<1>1. TypeInv'
  BY NextType
<1>2. Rest'
  BY BeginCreateInv, BeginEditInv, FindInv, InsertInv, WriteInv, EraseInv, ScanInv
     DEF Next, Arrive, Step
<1> QED BY <1>1, <1>2 DEF IInv, Rest

(* The empty table satisfies it. *)
LEMMA InitInv ==
    ASSUME Init
    PROVE  IInv
<1>1. TypeInv
  BY IdleShaped DEF Init, TypeInv, TypeOK, AllShaped
<1>2. \A w \in Workers : ~Creates(w) /\ task[w].row = None /\ task[w].op = None
  BY NoneAssumption DEF Init, Idle, Creates, AllOperations
<1> QED BY <1>1, <1>2, NoneAssumption DEF Init, IInv, WantedIsThere, RowsOwned, LocalsOwned, CreatedOnce,
        DeletedOnceAndForAll, DeletedKnown, AllOperations, Edits, Creates

(* Whatever the requests, the invariant holds. *)
THEOREM InvariantHolds == Spec => []IInv
<1>1. Init => IInv
  BY InitInv
<1>2. IInv /\ [Next]_vars => IInv'
  <2> SUFFICES ASSUME IInv, [Next]_vars PROVE IInv'
    OBVIOUS
  <2>1. CASE Next
    BY <2>1, NextInv
  <2>2. CASE UNCHANGED vars
    BY <2>2 DEF vars, IInv, TypeInv, TypeOK, AllShaped, WantedIsThere, RowsOwned, LocalsOwned,
       CreatedOnce, DeletedOnceAndForAll, DeletedKnown, Known, Creates, HasRead
  <2> QED BY <2>1, <2>2
<1> QED BY <1>1, <1>2, PTL DEF Spec

-----------------------------------------------------------------------------
(* Tables and request locals have their types, whatever the requests. *)
THEOREM TypeCorrect == Spec => []TypeOK
<1>1. IInv => TypeOK
  BY DEF IInv, TypeInv
<1> QED BY <1>1, InvariantHolds, PTL

(* A row carries only codes drawn for it, and a scan serves the machine its code was *)
(* drawn for, also when edits write stale rows back.                                 *)
THEOREM TagsNameOneMachine == Spec => []TagNamesOneMachine
<1>1. IInv => TagNamesOneMachine
  <2> SUFFICES ASSUME IInv PROVE TagNamesOneMachine
    OBVIOUS
  <2>1. ASSUME NEW w \in Workers, task[w].op \in Scans, At(w, "served")
        PROVE  owner[task[w].code] = task[w].machine
    <3>1. task[w].row \in Row /\ task[w].row.code = task[w].code
      BY <2>1, NoneAssumption DEF At, IInv, TypeInv, AllShaped, Shaped, Serving
    <3>2. task[w].row # None
      BY <3>1, NoneAssumption
    <3> QED BY <3>1, <3>2 DEF IInv, LocalsOwned
  <2> QED BY <2>1 DEF TagNamesOneMachine, IInv, RowsOwned
<1> QED BY <1>1, InvariantHolds, PTL

(* Of several deletions of a machine one at most is confirmed, and no edit that read the *)
(* row before brings it back.                                                           *)
THEOREM DeletionsAreFinal == Spec => []DeletedOnceAndForAll
<1>1. IInv => DeletedOnceAndForAll
  BY DEF IInv
<1> QED BY <1>1, InvariantHolds, PTL

(* Requests and full scans get hold of rows of the caller's organisation only. *)
THEOREM RowsInTheirOrg == Spec => []RowsStayInTheirOrg
<1>1. IInv => RowsStayInTheirOrg
  BY DEF IInv, TypeInv, AllShaped, Shaped, RowsStayInTheirOrg
<1> QED BY <1>1, InvariantHolds, PTL

(* A worker that answers is not where it was. *)
LEMMA AnswerMoves ==
    ASSUME IInv, NEW w \in Workers, Answer(w), ~At(w, "idle")
    PROVE  task'[w] # task[w]
BY DEF IInv, TypeInv, TypeOK, Answer, Resume, Idle, At

(* Rows change and go only for requests of their own organisation. *)
THEOREM OnlyOwnOrg == Spec => OnlyOwnOrgChangesRows
<1>1. IInv /\ [Next]_vars => [ChangedByOwnOrg]_vars
  <2> SUFFICES ASSUME IInv, Next, NEW m \in Machines, rows[m] # None, rows'[m] # rows[m]
               PROVE  \E w \in Workers : task'[w] # task[w] /\ task[w].org = rows[m].org
    BY DEF ChangedByOwnOrg
  <2>1. PICK w \in Workers : Insert(w) \/ Write(w) \/ Erase(w)
    BY DEF Next, Arrive, Step, BeginCreate, BeginEdit, BeginDelete, BeginScan, FindPlan,
       FindMachine, Lookup, ReadOrg, Fail
  <2>2. task'[w] # task[w]
    BY <2>1, AnswerMoves DEF Insert, Write, Erase, At
  <2>3. task[w].machine \in Machines
    BY <2>1 DEF Insert, Write, Erase, At, IInv, TypeInv, AllShaped, Shaped
  <2>4. CASE Insert(w)
    <3>1. Creates(w)
      BY <2>4 DEF Insert, At, Creates, IInv, TypeInv, AllShaped, Shaped
    <3>2. rows[task[w].machine] = None
      BY <3>1 DEF IInv, CreatedOnce
    <3> QED BY <2>3, <2>4, <3>2 DEF Insert, IInv, TypeInv, TypeOK
  <2>5. CASE Write(w) \/ Erase(w)
    <3>1. m = task[w].machine /\ InOrg(task[w])
      BY <2>3, <2>5 DEF Write, Written, Erase, IInv, TypeInv, TypeOK
    <3> QED BY <2>2, <3>1 DEF InOrg
  <2> QED BY <2>1, <2>4, <2>5
<1> QED BY <1>1, InvariantHolds, PTL DEF Spec, OnlyOwnOrgChangesRows

-----------------------------------------------------------------------------
(***************************************************************************)
(* The organisation's users edit a machine one at a time.  Then what an    *)
(* edit has read is what it writes over, and the code of a rotation is in  *)
(* no row until the rotation writes it.                                    *)
(***************************************************************************)
OneEdit ==
    \A w, x \in Workers :
        w # x /\ task[w].op \in Edits /\ task[x].op \in Edits =>
            task[w].machine # task[x].machine

ReadsFresh ==
    \A w \in Workers : LET t == task[w] IN
        At(w, "write") /\ rows[t.machine] # None => t.row = Patched(t, rows[t.machine])

CodesNew ==
    \A w \in Workers :
        /\ task[w].op = "rotate" =>
            /\ task[w].code \notin revoked
            /\ \A m \in Machines : rows[m] # None => rows[m].code # task[w].code
            /\ \A x \in Workers : Creates(x) => task[x].row.code # task[w].code
        /\ Creates(w) => task[w].row.code \notin revoked

RevokedKnown == \A c \in revoked : owner[c] # None

TurnsInv ==
    /\ OneEdit
    /\ ReadsFresh
    /\ CodesNew
    /\ RevokedKnown
    /\ RevokedStaysRevoked
    /\ NoLostEdit

(***************************************************************************)
(* A step that writes nothing and starts no edit and no creation.          *)
(***************************************************************************)
Calm ==
    \A x \in Workers :
        \/ task'[x] = task[x]
        \/ task'[x].op \notin Edits \cup {"create"}
        \/ Keeps(x) /\ task'[x].step # "write"

(* Such a step keeps the turns. *)
LEMMA CalmTurns ==
    ASSUME IInv, TypeInv', TurnsInv, Calm, UNCHANGED <<rows, owner, revoked, wanted>>
    PROVE  TurnsInv'
<1>1. OneEdit'
  BY DEF TurnsInv, OneEdit, Calm, Keeps
<1>2. ReadsFresh'
  <2> SUFFICES ASSUME NEW w \in Workers, At(w, "write")', rows[task'[w].machine] # None
               PROVE  task'[w].row = Patched(task'[w], rows[task'[w].machine])
    BY DEF ReadsFresh
  <2>1. task'[w].op \in Edits
    BY DEF TypeInv, AllShaped, Shaped, At
  <2>2. task'[w] = task[w]
    BY <2>1 DEF Calm, At
  <2> QED BY <2>2 DEF TurnsInv, ReadsFresh, At
<1>3. CodesNew'
  BY DEF TurnsInv, CodesNew, Calm, Keeps, Creates, Edits
<1> QED BY <1>1, <1>2, <1>3 DEF TurnsInv, RevokedKnown, RevokedStaysRevoked, NoLostEdit

(* What is wanted of a row that has been read is what the edit made of it. *)
LEMMA PatchedIsAsked ==
    ASSUME NEW t \in Task, Shaped(t), t.op \in Edits, t.step = "write", NEW row \in Row
    PROVE  /\ Patched(t, row) = Asked(t, row)
           /\ Patched(t, row).code = IF t.op = "rotate" THEN t.code ELSE row.code
<1>1. CASE t.op = "update"
  BY <1>1 DEF Patched, Asked, Row, Task, Shaped
<1>2. CASE t.op = "set_tier"
  BY <1>2, NoneAssumption, PlansAssumption DEF Patched, Asked, Row, Task, Shaped
<1>3. CASE t.op = "rotate"
  BY <1>3, NoneAssumption DEF Patched, Asked, Row, Task, Shaped
<1> QED BY <1>1, <1>2, <1>3 DEF Edits

(* Goto and Answer are calm where they do not lead to a write. *)
LEMMA GotoCalm ==
    ASSUME TypeInv, NEW w \in Workers, NEW s \in Steps \ {"write"}, Goto(w, s)
    PROVE  Calm
BY DEF TypeInv, TypeOK, Task, Goto, Calm, Keeps

(* An answered request edits nothing. *)
LEMMA AnswerCalm ==
    ASSUME TypeInv, NEW w \in Workers, Answer(w)
    PROVE  /\ Calm
           /\ task'[w].op \notin Edits \cup {"create"}
           /\ \A x \in Workers \ {w} : task'[x] = task[x]
BY NoneAssumption DEF TypeInv, TypeOK, Answer, Resume, Idle, Calm, AllOperations, Edits

(* A code that is drawn is in no row, revoked or held by anybody. *)
LEMMA FreshIsNew ==
    ASSUME IInv, TurnsInv, NEW c \in Fresh
    PROVE  /\ c \notin revoked
           /\ \A m \in Machines : rows[m] # None => rows[m].code # c
           /\ \A x \in Workers :
                /\ Creates(x) => task[x].row.code # c
                /\ task[x].op = "rotate" => task[x].code # c
<1>1. owner[c] = None
  BY DEF Fresh
<1>2. c \notin revoked
  BY <1>1 DEF TurnsInv, RevokedKnown
<1>3. \A m \in Machines : rows[m] # None => rows[m].code # c
  BY <1>1, NoneAssumption DEF IInv, RowsOwned
<1>4. ASSUME NEW x \in Workers
      PROVE  /\ Creates(x) => task[x].row.code # c
             /\ task[x].op = "rotate" => task[x].code # c
  BY <1>1, LocalsFacts, NoneAssumption DEF IInv, LocalsOwned
<1> QED BY <1>2, <1>3, <1>4

(* Creating draws a new code. *)
LEMMA BeginCreateTurns ==
    ASSUME IInv, TurnsInv, NEW w \in Workers, BeginCreate(w)
    PROVE  TurnsInv'
<1>1. PICK m \in Machines \ Known, c \in Fresh, o \in Orgs, n \in Names :
        /\ owner' = [owner EXCEPT ![c] = m]
        /\ Resume(w, [Idle EXCEPT !.op = "create", !.step = "insert", !.org = o,
                !.machine = m, !.row = [org |-> o, code |-> c, plan |-> None, name |-> n]])
        /\ UNCHANGED <<rows, revoked, wanted, confirmed>>
  BY DEF BeginCreate
<1>2. /\ task'[w].op = "create" /\ task'[w].step = "insert" /\ task'[w].row.code = c
      /\ \A x \in Workers \ {w} : task'[x] = task[x]
  <2> DEFINE r == [org |-> o, code |-> c, plan |-> None, name |-> n]
  <2>1. r.code = c
    OBVIOUS
  <2>2. Resume(w, [Idle EXCEPT !.op = "create", !.step = "insert", !.org = o,
                !.machine = m, !.row = r])
    BY <1>1
  <2> HIDE DEF r
  <2> QED BY <2>1, <2>2 DEF Resume, Idle, IInv, TypeInv, TypeOK
<1>3. /\ c \notin revoked
      /\ \A x \in Workers : task[x].op = "rotate" => task[x].code # c
  BY FreshIsNew
<1>4. OneEdit'
  BY <1>2 DEF TurnsInv, OneEdit, Edits
<1>5. ReadsFresh'
  BY <1>1, <1>2 DEF TurnsInv, ReadsFresh, At
<1>6. CodesNew'
  BY <1>1, <1>2, <1>3 DEF TurnsInv, CodesNew, Creates
<1>7. RevokedKnown'
  BY <1>1, NoneAssumption DEF TurnsInv, RevokedKnown, IInv, TypeInv, TypeOK
<1> QED BY <1>1, <1>4, <1>5, <1>6, <1>7 DEF TurnsInv, RevokedStaysRevoked, NoLostEdit

(* An edit starts when no other edit of the machine is under way. *)
LEMMA BeginEditTurns ==
    ASSUME Turns, IInv, TypeInv', TurnsInv, NEW w \in Workers, BeginEdit(w)
    PROVE  TurnsInv'
<1>1. PICK m \in Known, o \in Orgs :
        /\ ~Editing(m)
        /\ BeginUpdate(w, m, o) \/ BeginSetTier(w, m, o) \/ BeginRotate(w, m, o)
        /\ UNCHANGED <<rows, revoked, wanted, confirmed>>
  BY DEF BeginEdit
<1>2. ASSUME NEW x \in Workers, task[x].op \in Edits
      PROVE  task[x].machine # m
  <2>1. Running(x)
    BY <1>2 DEF Running, IInv, TypeInv, AllShaped, Shaped
  <2> QED BY <1>1, <1>2, <2>1 DEF Editing
<1>3. /\ task'[w].machine = m /\ task'[w].step # "write" /\ task'[w].op # "create"
      /\ \A x \in Workers \ {w} : task'[x] = task[x]
  <2>1. CASE BeginUpdate(w, m, o)
    BY <2>1 DEF BeginUpdate, Resume, Idle, IInv, TypeInv, TypeOK
  <2>2. CASE BeginSetTier(w, m, o)
    BY <2>2 DEF BeginSetTier, Resume, Idle, IInv, TypeInv, TypeOK
  <2>3. CASE BeginRotate(w, m, o)
    BY <2>3 DEF BeginRotate, Resume, Idle, IInv, TypeInv, TypeOK
  <2> QED BY <1>1, <2>1, <2>2, <2>3
<1>4. OneEdit'
  BY <1>2, <1>3 DEF TurnsInv, OneEdit
<1>5. ReadsFresh'
  BY <1>1, <1>3 DEF TurnsInv, ReadsFresh, At
<1>6. CASE BeginUpdate(w, m, o) \/ BeginSetTier(w, m, o)
  <2>1. UNCHANGED owner /\ task'[w].op # "rotate"
    BY <1>6 DEF BeginUpdate, BeginSetTier, Resume, Idle, IInv, TypeInv, TypeOK
  <2>2. CodesNew'
    BY <1>1, <1>3, <2>1 DEF TurnsInv, CodesNew, Creates
  <2> QED BY <1>1, <1>4, <1>5, <2>1, <2>2 DEF TurnsInv, RevokedStaysRevoked, NoLostEdit,
          RevokedKnown
<1>7. CASE BeginRotate(w, m, o)
  <2>1. PICK c \in Fresh :
          /\ owner' = [owner EXCEPT ![c] = m]
          /\ Resume(w, [Idle EXCEPT !.op = "rotate", !.step = "find_machine", !.org = o,
                  !.machine = m, !.code = c])
    BY <1>7 DEF BeginRotate
  <2>2. task'[w].code = c
    BY <2>1 DEF Resume, Idle, IInv, TypeInv, TypeOK
  <2>3. /\ c \notin revoked
        /\ \A k \in Machines : rows[k] # None => rows[k].code # c
        /\ \A x \in Workers : Creates(x) => task[x].row.code # c
    BY FreshIsNew
  <2>4. CodesNew'
    BY <1>1, <1>3, <2>2, <2>3 DEF TurnsInv, CodesNew, Creates
  <2>5. RevokedKnown'
    BY <1>1, <2>1, NoneAssumption DEF TurnsInv, RevokedKnown, Known, IInv, TypeInv, TypeOK
  <2> QED BY <1>1, <1>4, <1>5, <2>4, <2>5 DEF TurnsInv, RevokedStaysRevoked, NoLostEdit
<1> QED BY <1>1, <1>6, <1>7

(* An edit reads what is in the table. *)
LEMMA FindTurns ==
    ASSUME IInv, TypeInv', TurnsInv, NEW w \in Workers, FindPlan(w) \/ FindMachine(w)
    PROVE  TurnsInv'
<1> DEFINE t == task[w]
<1>1. UNCHANGED <<rows, owner, revoked, wanted>>
  BY DEF FindPlan, FindMachine
<1>2. CASE Calm
  BY <1>1, <1>2, CalmTurns
<1>3. ASSUME FindMachine(w), InOrg(t), t.op # "delete",
             Resume(w, [t EXCEPT !.row = Patched(t, rows[t.machine]), !.step = "write"])
      PROVE  TurnsInv'
  <2> DEFINE r == Patched(t, rows[t.machine])
  <2>1. t \in Task /\ t.op \in Edits
    BY <1>3 DEF FindMachine, At, IInv, TypeInv, AllShaped, Shaped
  <2>2. /\ task'[w].op = t.op /\ task'[w].machine = t.machine /\ task'[w].row = r
        /\ task'[w].code = t.code /\ task'[w].name = t.name /\ task'[w].plan = t.plan
        /\ \A x \in Workers \ {w} : task'[x] = task[x]
    <3> HIDE DEF r
    <3>1. Resume(w, [t EXCEPT !.row = r, !.step = "write"])
      BY <1>3 DEF r
    <3> QED BY <2>1, <3>1 DEF Resume, Task, IInv, TypeInv, TypeOK
  <2>3. r = Patched(task'[w], rows[task'[w].machine])
    BY <2>2 DEF Patched
  <2> HIDE DEF r
  <2>4. ReadsFresh'
    <3> SUFFICES ASSUME NEW x \in Workers, At(x, "write")', rows[task'[x].machine] # None
                 PROVE  task'[x].row = Patched(task'[x], rows[task'[x].machine])
      BY <1>1 DEF ReadsFresh, Patched
    <3>1. CASE x = w
      BY <2>2, <2>3, <3>1
    <3>2. CASE x # w
      BY <2>2, <3>2 DEF TurnsInv, ReadsFresh, At
    <3> QED BY <3>1, <3>2
  <2>5. OneEdit'
    BY <2>2 DEF TurnsInv, OneEdit
  <2>6. CodesNew'
    BY <1>1, <2>1, <2>2 DEF TurnsInv, CodesNew, Creates, Edits
  <2> QED BY <1>1, <2>4, <2>5, <2>6 DEF TurnsInv, RevokedKnown, RevokedStaysRevoked, NoLostEdit
<1> QED BY <1>2, <1>3, GotoCalm, AnswerCalm DEF FindPlan, FindMachine, Steps, IInv

(* The INSERT brings a code that nobody else has. *)
LEMMA InsertTurns ==
    ASSUME IInv, TypeInv', TurnsInv, NEW w \in Workers, Insert(w)
    PROVE  TurnsInv'
<1> DEFINE t == task[w]
<1>1. /\ Calm /\ task'[w].op \notin Edits \cup {"create"}
      /\ \A x \in Workers \ {w} : task'[x] = task[x]
  BY AnswerCalm DEF Insert, IInv
<1>2. UNCHANGED <<owner, revoked>>
  BY DEF Insert
<1>3. CASE UNCHANGED <<rows, wanted>>
  BY <1>1, <1>2, <1>3, CalmTurns
<1>4. CASE /\ rows' = [rows EXCEPT ![t.machine] = t.row]
           /\ wanted' = [wanted EXCEPT ![t.machine] = t.row]
  <2>1. Creates(w) /\ t.machine \in Machines /\ t.row # None
    BY NoneAssumption DEF Insert, At, Creates, IInv, TypeInv, AllShaped, Shaped
  <2>2. \A k \in Machines : rows'[k] = IF k = t.machine THEN t.row ELSE rows[k]
    BY <1>4, <2>1 DEF IInv, TypeInv, TypeOK
  <2>3. OneEdit'
    BY <1>1 DEF TurnsInv, OneEdit
  <2>4. ReadsFresh'
    <3> SUFFICES ASSUME NEW x \in Workers, At(x, "write")', rows'[task'[x].machine] # None
                 PROVE  task'[x].row = Patched(task'[x], rows'[task'[x].machine])
      BY DEF ReadsFresh, Patched
    <3>1. task'[x].op \in Edits
      BY DEF TypeInv, AllShaped, Shaped, At
    <3>2. x # w /\ task'[x] = task[x]
      BY <1>1, <3>1
    <3>3. HasRead(x) /\ task[x].machine \in Machines
      BY <3>1, <3>2, NoneAssumption DEF HasRead, At, IInv, TypeInv, AllShaped, Shaped
    <3>4. task[x].machine # t.machine
      BY <2>1, <3>2, <3>3 DEF IInv, CreatedOnce
    <3>5. rows'[task[x].machine] = rows[task[x].machine]
      BY <2>2, <3>3, <3>4
    <3> QED BY <3>2, <3>5 DEF TurnsInv, ReadsFresh, At
  <2>5. CodesNew'
    BY <1>1, <1>2, <2>1, <2>2 DEF TurnsInv, CodesNew, Creates, Edits
  <2>6. RevokedStaysRevoked'
    BY <1>2, <2>1, <2>2 DEF TurnsInv, CodesNew, RevokedStaysRevoked
  <2>7. NoLostEdit' /\ RevokedKnown'
    BY <1>2, <1>4 DEF TurnsInv, NoLostEdit, RevokedKnown
  <2> QED BY <2>3, <2>4, <2>5, <2>6, <2>7 DEF TurnsInv
<1> QED BY <1>3, <1>4 DEF Insert

(* The UPDATE writes over what its edit has read. *)
LEMMA WriteTurns ==
    ASSUME IInv, TypeInv', TurnsInv, NEW w \in Workers, Write(w)
    PROVE  TurnsInv'
<1> DEFINE t == task[w]
           m == t.machine
<1>1. /\ Calm /\ task'[w].op \notin Edits \cup {"create"}
      /\ \A x \in Workers \ {w} : task'[x] = task[x]
  BY AnswerCalm DEF Write, IInv
<1>2. UNCHANGED owner
  BY DEF Write
<1>3. CASE UNCHANGED <<rows, revoked, wanted>>
  BY <1>1, <1>2, <1>3, CalmTurns
<1>4. CASE /\ InOrg(t)
           /\ rows' = [rows EXCEPT ![m] = t.row]
           /\ revoked' = IF t.op = "rotate" THEN revoked \cup {rows[m].code} ELSE revoked
           /\ wanted' = [wanted EXCEPT ![m] = Asked(t, wanted[m])]
  <2>1. /\ t \in Task /\ Shaped(t) /\ t.step = "write" /\ t.op \in Edits /\ m \in Machines
        /\ t.row \in Row /\ t.row # None
    BY NoneAssumption DEF Write, At, IInv, TypeInv, AllShaped, Shaped
  <2>2. rows[m] \in Row /\ rows[m] # None /\ rows = wanted
    BY <1>4, <2>1 DEF InOrg, IInv, TypeInv, TypeOK, TurnsInv, NoLostEdit
  <2>3. t.row = Patched(t, rows[m])
    BY <2>1, <2>2 DEF TurnsInv, ReadsFresh, At
  <2>4. /\ t.row = Asked(t, rows[m])
        /\ t.row.code = IF t.op = "rotate" THEN t.code ELSE rows[m].code
    BY <2>1, <2>2, <2>3, PatchedIsAsked
  <2>5. \A k \in Machines : rows'[k] = IF k = m THEN t.row ELSE rows[k]
    BY <1>4, <2>1 DEF IInv, TypeInv, TypeOK
  <2>6. ASSUME NEW x \in Workers \ {w}, task[x].op \in Edits
        PROVE  task[x].machine # m
    BY <2>1, <2>6 DEF TurnsInv, OneEdit
  <2>7. OneEdit'
    BY <1>1 DEF TurnsInv, OneEdit
  <2>8. ReadsFresh'
    <3> SUFFICES ASSUME NEW x \in Workers, At(x, "write")', rows'[task'[x].machine] # None
                 PROVE  task'[x].row = Patched(task'[x], rows'[task'[x].machine])
      BY DEF ReadsFresh, Patched
    <3>1. task'[x].op \in Edits
      BY DEF TypeInv, AllShaped, Shaped, At
    <3>2. x # w /\ task'[x] = task[x]
      BY <1>1, <3>1
    <3>3. task[x].machine # m /\ task[x].machine \in Machines
      BY <2>6, <3>1, <3>2 DEF IInv, TypeInv, AllShaped, Shaped
    <3>4. rows'[task[x].machine] = rows[task[x].machine]
      BY <2>5, <3>3
    <3> QED BY <3>2, <3>4 DEF TurnsInv, ReadsFresh, At
  <2>9. owner[t.row.code] = m /\ owner[rows[m].code] = m
    BY <2>1, <2>2 DEF IInv, LocalsOwned, RowsOwned
  <2>10. CodesNew'
    <3>1. ASSUME NEW x \in Workers, task'[x].op = "rotate"
          PROVE  /\ task'[x].code \notin revoked'
                 /\ \A k \in Machines : rows'[k] # None => rows'[k].code # task'[x].code
                 /\ \A y \in Workers : Creates(y)' => task'[y].row.code # task'[x].code
      <4>1. x # w /\ task'[x] = task[x]
        BY <1>1, <3>1 DEF Edits
      <4>2. owner[task[x].code] # m
        BY <2>6, <3>1, <4>1 DEF IInv, LocalsOwned, Edits
      <4>3. /\ task[x].code \notin revoked
            /\ \A k \in Machines : rows[k] # None => rows[k].code # task[x].code
        BY <3>1, <4>1 DEF TurnsInv, CodesNew
      <4>4. task[x].code \notin revoked'
        BY <1>4, <2>9, <4>2, <4>3
      <4>5. \A k \in Machines : rows'[k] # None => rows'[k].code # task[x].code
        BY <2>5, <2>9, <4>2, <4>3
      <4>6. \A y \in Workers : Creates(y)' => task'[y].row.code # task[x].code
        BY <1>1, <3>1, <4>1 DEF TurnsInv, CodesNew, Creates
      <4> QED BY <4>1, <4>4, <4>5, <4>6
    <3>2. ASSUME NEW x \in Workers, Creates(x)'
          PROVE  task'[x].row.code \notin revoked'
      <4>1. x # w /\ task'[x] = task[x] /\ Creates(x)
        BY <1>1, <3>2 DEF Creates
      <4>2. task[x].machine # m
        BY <2>1, <2>2, <4>1 DEF IInv, CreatedOnce
      <4>3. owner[task[x].row.code] # m
        BY <4>1, <4>2, LocalsFacts DEF IInv, LocalsOwned
      <4> QED BY <1>4, <2>9, <4>1, <4>3 DEF TurnsInv, CodesNew
    <3> QED BY <3>1, <3>2 DEF CodesNew
  <2>11. RevokedStaysRevoked'
    <3> SUFFICES ASSUME NEW k \in Machines, rows'[k] # None
                 PROVE  rows'[k].code \notin revoked'
      BY DEF RevokedStaysRevoked
    <3>1. CASE k = m /\ t.op = "rotate"
      BY <1>4, <2>1, <2>2, <2>4, <2>5, <3>1 DEF TurnsInv, CodesNew
    <3>2. CASE k = m /\ t.op # "rotate"
      BY <1>4, <2>1, <2>2, <2>4, <2>5, <3>2 DEF TurnsInv, RevokedStaysRevoked
    <3>3. CASE k # m
      <4>1. rows'[k] = rows[k] /\ owner[rows[k].code] = k
        BY <2>5, <3>3 DEF IInv, RowsOwned
      <4>2. rows[k].code \notin revoked
        BY <4>1 DEF TurnsInv, RevokedStaysRevoked
      <4> QED BY <1>4, <2>9, <3>3, <4>1, <4>2
    <3> QED BY <3>1, <3>2, <3>3
  <2>12. NoLostEdit'
    BY <1>4, <2>2, <2>4 DEF NoLostEdit
  <2>13. RevokedKnown'
    BY <1>2, <1>4, <2>1, <2>9, NoneAssumption DEF TurnsInv, RevokedKnown
  <2> QED BY <2>7, <2>8, <2>10, <2>11, <2>12, <2>13 DEF TurnsInv
<1> QED BY <1>3, <1>4 DEF Write, Written

(* The DELETE takes a row away, in the table and in what is wanted. *)
LEMMA EraseTurns ==
    ASSUME IInv, TypeInv', TurnsInv, NEW w \in Workers, Erase(w)
    PROVE  TurnsInv'
<1> DEFINE m == task[w].machine
<1>1. /\ Calm /\ task'[w].op \notin Edits \cup {"create"}
      /\ \A x \in Workers \ {w} : task'[x] = task[x]
  BY AnswerCalm DEF Erase, IInv
<1>2. UNCHANGED <<owner, revoked>>
  BY DEF Erase
<1>3. CASE UNCHANGED <<rows, wanted>>
  BY <1>1, <1>2, <1>3, CalmTurns
<1>4. CASE rows' = [rows EXCEPT ![m] = None] /\ wanted' = [wanted EXCEPT ![m] = None]
  <2>1. m \in Machines
    BY DEF Erase, At, IInv, TypeInv, AllShaped, Shaped
  <2>2. \A k \in Machines : rows'[k] = IF k = m THEN None ELSE rows[k]
    BY <1>4, <2>1 DEF IInv, TypeInv, TypeOK
  <2>3. OneEdit'
    BY <1>1 DEF TurnsInv, OneEdit
  <2>4. ReadsFresh'
    <3> SUFFICES ASSUME NEW x \in Workers, At(x, "write")', rows'[task'[x].machine] # None
                 PROVE  task'[x].row = Patched(task'[x], rows'[task'[x].machine])
      BY DEF ReadsFresh, Patched
    <3>1. task'[x].op \in Edits
      BY DEF TypeInv, AllShaped, Shaped, At
    <3>2. x # w /\ task'[x] = task[x]
      BY <1>1, <3>1
    <3>3. task[x].machine \in Machines
      BY <3>1, <3>2 DEF IInv, TypeInv, AllShaped, Shaped
    <3>4. rows'[task[x].machine] = rows[task[x].machine]
      BY <2>2, <3>2, <3>3
    <3> QED BY <3>2, <3>4 DEF TurnsInv, ReadsFresh, At
  <2>5. CodesNew'
    BY <1>1, <1>2, <2>2 DEF TurnsInv, CodesNew, Creates, Edits
  <2>6. RevokedStaysRevoked'
    BY <1>2, <2>2 DEF TurnsInv, RevokedStaysRevoked
  <2>7. NoLostEdit' /\ RevokedKnown'
    BY <1>2, <1>4 DEF TurnsInv, NoLostEdit, RevokedKnown
  <2> QED BY <2>3, <2>4, <2>5, <2>6, <2>7 DEF TurnsInv
<1> QED BY <1>3, <1>4 DEF Erase

(* Scans and deletions that are asked for are calm. *)
LEMMA ReadTurns ==
    ASSUME IInv, TypeInv', TurnsInv, NEW w \in Workers,
           BeginDelete(w) \/ BeginScan(w) \/ Lookup(w) \/ ReadOrg(w) \/ Fail(w)
    PROVE  TurnsInv'
<1> DEFINE t == task[w]
<1>1. UNCHANGED <<rows, owner, revoked, wanted>>
  BY DEF BeginDelete, BeginScan, Lookup, ReadOrg, Fail
<1>2. ASSUME task'[w].op \notin Edits \cup {"create"},
             \A x \in Workers \ {w} : task'[x] = task[x]
      PROVE  TurnsInv'
  <2>1. Calm
    BY <1>2 DEF Calm
  <2> QED BY <1>1, <2>1, CalmTurns
<1>3. CASE BeginDelete(w) \/ BeginScan(w)
  <2>1. /\ task'[w].op \notin Edits \cup {"create"}
        /\ \A x \in Workers \ {w} : task'[x] = task[x]
    <3>1. CASE BeginDelete(w)
      BY <3>1 DEF BeginDelete, Resume, Idle, Edits, IInv, TypeInv, TypeOK
    <3>2. CASE BeginScan(w)
      <4>1. PICK c \in Codes, o \in Orgs :
              \/ Resume(w, [Idle EXCEPT !.op = "summary", !.step = "lookup", !.code = c])
              \/ Resume(w, [Idle EXCEPT !.op = "full", !.step = "lookup", !.code = c,
                               !.org = o])
        BY <3>2 DEF BeginScan
      <4> QED BY <4>1 DEF Resume, Idle, Edits, IInv, TypeInv, TypeOK
    <3> QED BY <1>3, <3>1, <3>2
  <2> QED BY <1>2, <2>1
<1>4. ASSUME Lookup(w), NEW m \in Machines,
             Resume(w, [t EXCEPT !.machine = m, !.row = rows[m], !.step = "read_org"])
      PROVE  TurnsInv'
  <2>1. t \in Task /\ t.op \in Scans
    BY <1>4 DEF Lookup, At, IInv, TypeInv, AllShaped, Shaped
  <2>2. task'[w].op = t.op /\ \A x \in Workers \ {w} : task'[x] = task[x]
    BY <1>4, <2>1 DEF Resume, Task, IInv, TypeInv, TypeOK
  <2> QED BY <1>2, <2>1, <2>2 DEF Scans, Edits
<1>5. CASE Calm
  BY <1>1, <1>5, CalmTurns
<1> QED BY <1>3, <1>4, <1>5, GotoCalm, AnswerCalm DEF Lookup, ReadOrg, Fail, Steps, IInv

(* Where users take turns, every step keeps the turns. *)
LEMMA NextTurns ==
    ASSUME Turns, IInv, TurnsInv, Next
    PROVE  TurnsInv'
<1>1. TypeInv'
  BY NextType
<1> QED BY <1>1, BeginCreateTurns, BeginEditTurns, FindTurns, InsertTurns, WriteTurns,
        EraseTurns, ReadTurns DEF Next, Arrive, Step

(* Where users take turns, the second invariant holds too. *)
THEOREM TurnsInvariantHolds == Turns => (Spec => []TurnsInv)
<1> SUFFICES ASSUME Turns PROVE Spec => []TurnsInv
  OBVIOUS
<1>1. Init => TurnsInv
  BY NoneAssumption DEF Init, Idle, TurnsInv, OneEdit, ReadsFresh, CodesNew, RevokedKnown,
     RevokedStaysRevoked, NoLostEdit, At, Creates, AllOperations, Edits
<1>2. IInv /\ TurnsInv /\ [Next]_vars => TurnsInv'
  <2> SUFFICES ASSUME IInv, TurnsInv, [Next]_vars PROVE TurnsInv'
    OBVIOUS
  <2>1. CASE Next
    BY <2>1, NextTurns
  <2>2. CASE UNCHANGED vars
    BY <2>2 DEF vars, TurnsInv, OneEdit, ReadsFresh, CodesNew, RevokedKnown,
       RevokedStaysRevoked, NoLostEdit, At, Creates, Patched
  <2> QED BY <2>1, <2>2
<1> QED BY <1>1, <1>2, InvariantHolds, PTL DEF Spec

(* Users who take turns never bring a revoked tag back. *)
THEOREM RevocationsStand == Turns => (Spec => []RevokedStaysRevoked)
<1> SUFFICES ASSUME Turns PROVE Spec => []RevokedStaysRevoked
  OBVIOUS
<1>1. TurnsInv => RevokedStaysRevoked
  BY DEF TurnsInv
<1> QED BY <1>1, TurnsInvariantHolds, PTL

(* Users who take turns lose no edit. *)
THEOREM EditsAreKept == Turns => (Spec => []NoLostEdit)
<1> SUFFICES ASSUME Turns PROVE Spec => []NoLostEdit
  OBVIOUS
<1>1. TurnsInv => NoLostEdit
  BY DEF TurnsInv
<1> QED BY <1>1, TurnsInvariantHolds, PTL

-----------------------------------------------------------------------------
(***************************************************************************)
(* The refinement of MachineRegister.  A creation or a rotation that       *)
(* arrives draws its code; what an edit does to the register it does when *)
(* it writes, since what it read is then still what is there.              *)
(***************************************************************************)
Gone == {m \in Machines : confirmed[m] # 0}

RegisterView == <<rows, owner, revoked, Gone>>

(* Steps that leave the tables and the codes alone show nothing. *)
LEMMA ReadsShowNothing ==
    ASSUME NEW w \in Workers,
           \/ BeginDelete(w) \/ BeginScan(w) \/ FindPlan(w) \/ FindMachine(w)
           \/ Lookup(w) \/ ReadOrg(w) \/ Fail(w)
    PROVE  UNCHANGED RegisterView
BY DEF BeginDelete, BeginScan, FindPlan, FindMachine, Lookup, ReadOrg, Fail, RegisterView, Gone

(* Creations and rotations draw a code when they arrive; other edits show nothing. *)
LEMMA ArrivalDraws ==
    ASSUME NEW w \in Workers, BeginCreate(w) \/ BeginEdit(w)
    PROVE  [Register!Next]_RegisterView
<1>1. ASSUME NEW m \in Machines, NEW c \in Fresh, owner' = [owner EXCEPT ![c] = m],
             UNCHANGED <<rows, revoked, confirmed>>
      PROVE  Register!Next
  <2>1. Register!Draw(m, c)
    BY <1>1 DEF Register!Draw, Fresh
  <2>2. c \in Codes
    BY DEF Fresh
  <2> QED BY <2>1, <2>2 DEF Register!Next
<1>2. CASE BeginCreate(w)
  BY <1>1, <1>2 DEF BeginCreate
<1>3. CASE BeginEdit(w)
  <2>1. \A m \in Known : m \in Machines
    BY DEF Known
  <2>2. CASE UNCHANGED owner
    BY <1>3, <2>2 DEF BeginEdit, RegisterView, Gone
  <2> QED BY <1>1, <1>3, <2>1, <2>2 DEF BeginEdit, BeginUpdate, BeginSetTier, BeginRotate
<1> QED BY <1>2, <1>3

(* The INSERT enters a machine that was never there. *)
LEMMA InsertEnters ==
    ASSUME IInv, TurnsInv, NEW w \in Workers, Insert(w)
    PROVE  [Register!Next]_RegisterView
<1> DEFINE t == task[w]
           m == t.machine
           c == t.row.code
<1>1. /\ Creates(w) /\ m \in Machines /\ t.row \in Row /\ t.row.plan = None /\ t.row # None
  BY NoneAssumption DEF Insert, At, Creates, IInv, TypeInv, AllShaped, Shaped
<1>2. rows[m] = None /\ confirmed[m] = 0 /\ owner[c] = m /\ c \in Codes
  BY <1>1 DEF IInv, CreatedOnce, LocalsOwned, Row
<1>3. c \notin revoked
  BY <1>1 DEF TurnsInv, CodesNew
<1>4. UNCHANGED <<owner, revoked, confirmed>>
  BY DEF Insert
<1>5. CASE UNCHANGED rows
  BY <1>4, <1>5 DEF RegisterView, Gone
<1>6. CASE rows' = [rows EXCEPT ![m] = t.row]
  <2>1. /\ t.row.org \in Orgs /\ t.row.name \in Names
        /\ t.row = [org |-> t.row.org, code |-> c, plan |-> None, name |-> t.row.name]
    BY <1>1 DEF Row
  <2>2. m \notin Gone /\ Register!Usable(m, c)
    BY <1>2, <1>3 DEF Gone, Register!Usable
  <2>3. Register!Enter(m, c)
    BY <1>2, <1>4, <1>6, <2>1, <2>2 DEF Register!Enter, Gone
  <2> QED BY <1>1, <1>2, <2>3 DEF Register!Next
<1> QED BY <1>5, <1>6 DEF Insert

(***************************************************************************)
(* The UPDATE changes the fields the request is about in the row as it is: *)
(* a rename, an assignment of a plan, or a code that was never used.       *)
(***************************************************************************)
LEMMA WriteChangesFields ==
    ASSUME IInv, TurnsInv, NEW w \in Workers, Write(w)
    PROVE  [Register!Next]_RegisterView
<1> DEFINE t == task[w]
           m == t.machine
<1>1. UNCHANGED <<owner, confirmed>>
  BY DEF Write
<1>2. CASE UNCHANGED <<rows, revoked>>
  BY <1>1, <1>2 DEF RegisterView, Gone
<1>3. CASE /\ InOrg(t)
           /\ rows' = [rows EXCEPT ![m] = t.row]
           /\ revoked' = IF t.op = "rotate" THEN revoked \cup {rows[m].code} ELSE revoked
  <2>1. t \in Task /\ Shaped(t) /\ t.step = "write" /\ t.op \in Edits /\ m \in Machines
    BY DEF Write, At, IInv, TypeInv, AllShaped, Shaped
  <2>2. rows[m] \in Row /\ rows[m] # None
    BY <1>3, <2>1 DEF InOrg, IInv, TypeInv, TypeOK
  <2>3. t.row = Patched(t, rows[m])
    BY <2>1, <2>2 DEF TurnsInv, ReadsFresh, At
  <2>4. CASE t.op = "update" /\ t.name = None
    <3>1. t.row = rows[m]
      BY <2>3, <2>4 DEF Patched
    <3>2. rows' = rows
      BY <1>3, <2>1, <3>1 DEF IInv, TypeInv, TypeOK
    <3> QED BY <1>1, <1>3, <2>4, <3>2 DEF RegisterView, Gone
  <2>5. CASE t.op = "update" /\ t.name # None
    <3>1. t.row = [rows[m] EXCEPT !.name = t.name] /\ t.name \in Names
      BY <2>1, <2>3, <2>5 DEF Patched, Task
    <3>2. Register!Rename(m, t.name)
      BY <1>1, <1>3, <2>2, <2>5, <3>1 DEF Register!Rename, Gone, IInv, TypeInv, TypeOK
    <3> QED BY <2>1, <3>1, <3>2 DEF Register!Next
  <2>6. CASE t.op = "set_tier"
    <3>1. t.row = [rows[m] EXCEPT !.plan = t.plan] /\ t.plan \in Plans
      BY <2>1, <2>3, <2>6 DEF Patched, Shaped
    <3>2. Register!Assign(m, t.plan)
      BY <1>1, <1>3, <2>2, <2>6, <3>1 DEF Register!Assign, Gone, IInv, TypeInv, TypeOK
    <3> QED BY <2>1, <3>1, <3>2 DEF Register!Next
  <2>7. CASE t.op = "rotate"
    <3>1. t.row = [rows[m] EXCEPT !.code = t.code] /\ t.code \in Codes
      BY <2>1, <2>3, <2>7 DEF Patched, Shaped
    <3>2. owner[t.code] = m /\ t.code \notin revoked /\ rows[m].code # t.code
      BY <2>1, <2>2, <2>7 DEF IInv, LocalsOwned, TurnsInv, CodesNew
    <3>3. Register!Usable(m, t.code)
      BY <3>2 DEF Register!Usable
    <3>4. Register!Reissue(m, t.code)
      BY <1>1, <1>3, <2>2, <2>7, <3>1, <3>2, <3>3
         DEF Register!Reissue, Gone, IInv, TypeInv, TypeOK
    <3> QED BY <2>1, <3>1, <3>4 DEF Register!Next
  <2> QED BY <2>1, <2>4, <2>5, <2>6, <2>7 DEF Edits
<1> QED BY <1>2, <1>3 DEF Write, Written

(* The DELETE withdraws the machine. *)
LEMMA EraseWithdraws ==
    ASSUME IInv, NEW w \in Workers, Erase(w)
    PROVE  [Register!Next]_RegisterView
<1>1. PICK m \in Machines : m = task[w].machine
  BY DEF Erase, At, IInv, TypeInv, AllShaped, Shaped
<1>2. UNCHANGED <<owner, revoked>>
  BY DEF Erase
<1>3. CASE UNCHANGED <<rows, confirmed>>
  BY <1>2, <1>3 DEF RegisterView, Gone
<1>4. CASE /\ rows[m] # None
           /\ rows' = [rows EXCEPT ![m] = None]
           /\ confirmed' = [confirmed EXCEPT ![m] = @ + 1]
  <2>1. Gone' = Gone \cup {m}
    BY <1>4 DEF Gone, IInv, TypeInv, TypeOK
  <2>2. Register!Withdraw(m)
    BY <1>2, <1>4, <2>1 DEF Register!Withdraw, Gone
  <2> QED BY <2>2 DEF Register!Next
<1> QED BY <1>1, <1>3, <1>4 DEF Erase, InOrg

(* Every step is a step of the register, or shows nothing. *)
LEMMA NextRegister ==
    ASSUME IInv, TurnsInv, [Next]_vars
    PROVE  [Register!Next]_RegisterView
<1>1. CASE Next
  BY <1>1, ReadsShowNothing, ArrivalDraws, InsertEnters, WriteChangesFields, EraseWithdraws
     DEF Next, Arrive, Step
<1>2. CASE UNCHANGED vars
  BY <1>2 DEF vars, RegisterView, Gone
<1> QED BY <1>1, <1>2

(***************************************************************************)
(* Users who take turns see the register: every request takes effect at    *)
(* once, on the fields it is about, or not at all.                         *)
(***************************************************************************)
THEOREM RegisterKept == Turns => (Spec => ImplementsRegister)
<1> SUFFICES ASSUME Turns PROVE Spec => ImplementsRegister
  OBVIOUS
<1>1. Init => Register!Init
  BY DEF Init, Register!Init
<1>2. IInv /\ TurnsInv /\ [Next]_vars => [Register!Next]_(Register!vars)
  BY NextRegister DEF RegisterView, Gone, Register!vars
<1> QED BY <1>1, <1>2, InvariantHolds, TurnsInvariantHolds, PTL
        DEF Spec, ImplementsRegister, Register!Spec
=============================================================================
