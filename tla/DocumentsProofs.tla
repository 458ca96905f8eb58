---------------------------- MODULE DocumentsProofs ----------------------------
(***************************************************************************)
(* Machine-checked proofs about Documents, for any number of machines,     *)
(* slots, versions, payloads and workers, any set of endpoints in use and  *)
(* any set of faults, lost commit acknowledgements included.               *)
(***************************************************************************)
EXTENDS Documents, TLAPS

VersionOps == {"add_file_version", "add_json_version", "restore"}
MachineOps == {"create_slot", "delete_machine", "update_machine"}

(***************************************************************************)
(* What the locals of a handler hold at each of its awaits.                *)
(***************************************************************************)
MachineSteps == {"find_machine", "insert_doc", "erase_machine", "write_machine"}
ContentSteps == {"fetch", "put", "lock", "commit"}
RowSteps == ContentSteps \cup {"find_version", "read_current", "list", "write_meta", "erase_doc"}

Shaped(t) ==
    /\ t.step \in MachineSteps => t.op \in MachineOps /\ t.machine \in Machines
    /\ t.step \in RowSteps => t.row \in DocRow
    /\ t.step \in RowSteps \cup {"find_doc"} =>
         t.op \in AllOperations \ MachineOps /\ t.doc \in Docs
    /\ t.step \in ContentSteps \/ t.op \in {"add_file_version", "add_json_version"} =>
         t.content \in Payloads
    /\ t.step \in {"put", "lock", "commit"} => t.op \in VersionOps
    /\ t.op \in VersionOps => t.id \in Versions
    /\ t.step \in {"find_version", "fetch"} => t.op \in {"restore", "download"}
    /\ t.step = "find_version" /\ t.op = "download" => t.row.kind = "file"
    /\ t.step = "fetch" => t.key \in Versions
    /\ t.step = "insert_doc" => t.op = "create_slot"
    /\ t.op = "create_slot" =>
         t.doc \in Docs /\ t.row \in DocRow /\ t.row.machine = t.machine /\ t.row.current = 0

AllShaped(tasks) == tasks \in [Workers -> Task] /\ \A x \in Workers : Shaped(tasks[x])

TypeInv == TypeOK /\ AllShaped(task)

(***************************************************************************)
(* Who knows a slot by its UUID: a create_slot that has drawn it, and the  *)
(* handlers that have read its row.  No two creators share one, a creator's*)
(* slot is not there yet, and a slot never changes its machine, so the     *)
(* machine read with the row is the one whose lock protects the slot.      *)
(***************************************************************************)
Creates(t) == t.op = "create_slot"
Holds(t) == t.step \in RowSteps

LiveIssued == \A d \in Docs : Live(d) => d \in issued

KnownIssued ==
    \A w \in Workers : Creates(task[w]) \/ Holds(task[w]) => task[w].doc \in issued

CreatedAbsent == \A w \in Workers : Creates(task[w]) => ~Live(task[w].doc)

CreatedUnknown ==
    \A w, x \in Workers :
        w # x /\ Creates(task[w]) /\ (Creates(task[x]) \/ Holds(task[x])) =>
            task[w].doc # task[x].doc

MachineFixed ==
    \A w \in Workers :
        Holds(task[w]) /\ Live(task[w].doc) =>
            task[w].row.machine = docs[task[w].doc].machine

SlotIdentity == LiveIssued /\ KnownIssued /\ CreatedAbsent /\ CreatedUnknown /\ MachineFixed

(***************************************************************************)
(* The inductive invariant.                                                *)
(***************************************************************************)
IInv == TypeInv /\ SlotIdentity /\ NumberIsNext /\ HistoryWellFormed

-----------------------------------------------------------------------------
(* Answering a request forgets it.                                         *)
LEMMA IdleShaped == Idle \in Task /\ Shaped(Idle)
BY NoneAssumption DEF Idle, Task, Steps, Kinds, Categories, AllOperations, Shaped, RowSteps,
           MachineSteps, ContentSteps, VersionOps, MachineOps

(* A worker's locals stay well shaped when it goes on with well shaped ones. *)
LEMMA ResumeShaped ==
    ASSUME TypeInv, NEW w \in Workers, NEW t \in Task, Shaped(t), Resume(w, t)
    PROVE  AllShaped(task')
BY DEF TypeInv, TypeOK, AllShaped, Resume

(* The locals of an answered request are well shaped: there are none. *)
LEMMA AnswerShaped ==
    ASSUME TypeInv, NEW w \in Workers, Answer(w)
    PROVE  AllShaped(task')
BY IdleShaped, ResumeShaped DEF Answer

(* So do they when a step only moves on, within the locals already there.   *)
LEMMA GotoShaped ==
    ASSUME TypeInv, NEW w \in Workers, NEW s \in Steps, Goto(w, s),
           Shaped([task[w] EXCEPT !.step = s])
    PROVE  AllShaped(task')
<1>1. [task[w] EXCEPT !.step = s] \in Task
  BY DEF TypeInv, TypeOK, Task
<1>2. Resume(w, [task[w] EXCEPT !.step = s])
  BY DEF Goto, Resume, TypeInv, TypeOK
<1> QED BY <1>1, <1>2, ResumeShaped

(* Arriving requests keep types and shapes. *)
LEMMA ArriveType ==
    ASSUME TypeInv, NEW w \in Workers, Arrive(w)
    PROVE  TypeInv'
<1>1. machines' = machines /\ photo' = photo /\ docs' = docs /\ versions' = versions
      /\ blobs' = blobs /\ holder' = holder /\ issued' \subseteq Docs \cup Versions
  BY DEF Arrive, BeginCreate, BeginVersion, BeginRestore, BeginRead, BeginSlotChange,
         BeginMachineChange, Begin, Tables, TypeInv, TypeOK
<1>2. AllShaped(task')
  <2>1. CASE BeginCreate(w)
    <3>1. PICK m \in Machines, c \in Categories, k \in Kinds, d \in Docs \ issued :
            Resume(w, [Idle EXCEPT !.op = "create_slot", !.step = "find_machine",
                        !.machine = m, !.doc = d,
                        !.row = [machine |-> m, category |-> c, kind |-> k,
                                 current |-> 0]])
      BY <2>1 DEF BeginCreate
    <3> DEFINE r == [machine |-> m, category |-> c, kind |-> k, current |-> 0]
               t == [Idle EXCEPT !.op = "create_slot", !.step = "find_machine",
                        !.machine = m, !.doc = d, !.row = r]
    <3>2. r \in DocRow
      BY DEF DocRow
    <3>3. r.machine = m /\ r.current = 0
      OBVIOUS
    <3> HIDE DEF r
    <3>4. t \in Task /\ Shaped(t)
      BY <3>2, <3>3, NoneAssumption DEF Idle, Task, Steps, Kinds, Categories, AllOperations, Shaped, RowSteps,
           MachineSteps, ContentSteps, VersionOps, MachineOps
    <3> QED BY <3>1, <3>4, ResumeShaped DEF r
  <2>2. ASSUME NEW op \in {"add_file_version", "add_json_version"}, BeginVersion(w, op)
        PROVE  AllShaped(task')
    <3>1. PICK d \in Docs \cap issued, v \in Versions \ issued, p \in Payloads :
            Resume(w, [Idle EXCEPT !.op = op, !.step = "find_doc", !.doc = d, !.id = v,
                        !.content = p, !.bytes = IF op = "add_file_version" THEN p ELSE None])
      BY <2>2 DEF BeginVersion
    <3> DEFINE b == IF op = "add_file_version" THEN p ELSE None
               t == [Idle EXCEPT !.op = op, !.step = "find_doc", !.doc = d, !.id = v,
                        !.content = p, !.bytes = b]
    <3>2. b \in Payloads \cup {None}
      OBVIOUS
    <3> HIDE DEF b
    <3>3. t \in Task /\ Shaped(t)
      BY <3>2, NoneAssumption DEF Idle, Task, Steps, Kinds, Categories, AllOperations, Shaped, RowSteps,
           MachineSteps, ContentSteps, VersionOps, MachineOps
    <3> QED BY <3>1, <3>3, ResumeShaped DEF b
  <2>3. CASE BeginRestore(w)
    <3>1. PICK d \in Docs \cap issued, v \in Versions \ issued, n \in 1 .. Cardinality(Versions) :
            Resume(w, [Idle EXCEPT !.op = "restore", !.step = "find_doc", !.doc = d,
                        !.id = v, !.no = n])
      BY <2>3 DEF BeginRestore
    <3> DEFINE t == [Idle EXCEPT !.op = "restore", !.step = "find_doc", !.doc = d,
                        !.id = v, !.no = n]
    <3>2. n \in Nat
      OBVIOUS
    <3>3. t \in Task /\ Shaped(t)
      BY <3>2, NoneAssumption DEF Idle, Task, Steps, Kinds, Categories, AllOperations, Shaped, RowSteps,
           MachineSteps, ContentSteps, VersionOps, MachineOps
    <3> QED BY <3>1, <3>3, ResumeShaped
  <2>4. CASE BeginRead(w)
    <3>1. ASSUME NEW d \in Docs,
                 Resume(w, [Idle EXCEPT !.op = "get", !.step = "find_doc", !.doc = d])
          PROVE  AllShaped(task')
      <4> DEFINE t == [Idle EXCEPT !.op = "get", !.step = "find_doc", !.doc = d]
      <4>1. t \in Task /\ Shaped(t)
        BY NoneAssumption DEF Idle, Task, Steps, Kinds, Categories, AllOperations, Shaped, RowSteps,
           MachineSteps, ContentSteps, VersionOps, MachineOps
      <4> QED BY <3>1, <4>1, ResumeShaped
    <3>2. ASSUME NEW d \in Docs, NEW n \in 1 .. Cardinality(Versions),
                 Resume(w, [Idle EXCEPT !.op = "download", !.step = "find_doc",
                                !.doc = d, !.no = n])
          PROVE  AllShaped(task')
      <4> DEFINE t == [Idle EXCEPT !.op = "download", !.step = "find_doc",
                                !.doc = d, !.no = n]
      <4>1. n \in Nat
        OBVIOUS
      <4>2. t \in Task /\ Shaped(t)
        BY <4>1, NoneAssumption DEF Idle, Task, Steps, Kinds, Categories, AllOperations, Shaped, RowSteps,
           MachineSteps, ContentSteps, VersionOps, MachineOps
      <4> QED BY <3>2, <4>2, ResumeShaped
    <3> QED BY <2>4, <3>1, <3>2 DEF BeginRead
  <2>5. CASE BeginSlotChange(w)
    <3>1. ASSUME NEW d \in Docs, NEW c \in Categories \cup {None},
                 Resume(w, [Idle EXCEPT !.op = "rename", !.step = "find_doc",
                                !.doc = d, !.category = c])
          PROVE  AllShaped(task')
      <4> DEFINE t == [Idle EXCEPT !.op = "rename", !.step = "find_doc", !.doc = d,
                                !.category = c]
      <4>1. t \in Task /\ Shaped(t)
        BY NoneAssumption DEF Idle, Task, Steps, Kinds, Categories, AllOperations, Shaped, RowSteps,
           MachineSteps, ContentSteps, VersionOps, MachineOps
      <4> QED BY <3>1, <4>1, ResumeShaped
    <3>2. ASSUME NEW d \in Docs,
                 Resume(w, [Idle EXCEPT !.op = "delete", !.step = "find_doc", !.doc = d])
          PROVE  AllShaped(task')
      <4> DEFINE t == [Idle EXCEPT !.op = "delete", !.step = "find_doc", !.doc = d]
      <4>1. t \in Task /\ Shaped(t)
        BY NoneAssumption DEF Idle, Task, Steps, Kinds, Categories, AllOperations, Shaped, RowSteps,
           MachineSteps, ContentSteps, VersionOps, MachineOps
      <4> QED BY <3>2, <4>1, ResumeShaped
    <3> QED BY <2>5, <3>1, <3>2 DEF BeginSlotChange
  <2>6. CASE BeginMachineChange(w)
    <3>1. PICK m \in Machines, op \in {"delete_machine", "update_machine"} :
            Resume(w, [Idle EXCEPT !.op = op, !.step = "find_machine", !.machine = m])
      BY <2>6 DEF BeginMachineChange
    <3> DEFINE t == [Idle EXCEPT !.op = op, !.step = "find_machine", !.machine = m]
    <3>2. t \in Task /\ Shaped(t)
      BY NoneAssumption DEF Idle, Task, Steps, Kinds, Categories, AllOperations, Shaped, RowSteps,
           MachineSteps, ContentSteps, VersionOps, MachineOps
    <3> QED BY <3>1, <3>2, ResumeShaped
  <2> QED BY <2>1, <2>2, <2>3, <2>4, <2>5, <2>6 DEF Arrive
<1> QED BY <1>1, <1>2 DEF TypeInv, TypeOK, AllShaped

(***************************************************************************)
(* The steps that read: only the locals of the worker change.              *)
(***************************************************************************)
LEMMA FindMachineType ==
    ASSUME TypeInv, NEW w \in Workers, FindMachine(w)
    PROVE  AllShaped(task')
<1>1. CASE Answer(w)
  BY <1>1, AnswerShaped
<1>2. CASE task[w].machine \in machines /\ ~Answer(w)
  <2> DEFINE t == task[w]
             p == IF t.op = "update_machine" THEN photo[t.machine] ELSE None
             s == CASE t.op = "create_slot" -> "insert_doc"
                    [] t.op = "delete_machine" -> "erase_machine"
                    [] OTHER -> "write_machine"
             u == [t EXCEPT !.pointer = p, !.step = s]
  <2>1. t \in Task /\ Shaped(t) /\ t.step = "find_machine" /\ t.op \in MachineOps
    BY DEF FindMachine, At, TypeInv, AllShaped, Shaped, MachineSteps
  <2>2. p \in Versions \cup {None}
    BY <1>2 DEF TypeInv, TypeOK
  <2>3. /\ s \in {"insert_doc", "erase_machine", "write_machine"}
        /\ s = "insert_doc" => t.op = "create_slot"
    OBVIOUS
  <2>4. Resume(w, u)
    BY <1>2 DEF FindMachine
  <2> HIDE DEF p, s, t
  <2>5. u \in Task
    <3>1. s \in Steps
      BY <2>3 DEF Steps
    <3> QED BY <2>1, <2>2, <3>1 DEF Task
  <2>6. Shaped(u)
    BY <2>1, <2>3 DEF Task, Shaped, MachineSteps, RowSteps, ContentSteps, VersionOps, MachineOps
  <2> QED BY <2>4, <2>5, <2>6, ResumeShaped
<1> QED BY <1>1, <1>2 DEF FindMachine

(* find_by_id of a slot, then the check of its storage kind. *)
LEMMA FindDocType ==
    ASSUME TypeInv, NEW w \in Workers, FindDoc(w)
    PROVE  AllShaped(task')
<1> DEFINE t == task[w]
           r == docs[t.doc]
           s == AfterFindDoc(t.op)
           u == [t EXCEPT !.row = r, !.step = s]
<1>1. t \in Task /\ Shaped(t) /\ t.step = "find_doc" /\ t.doc \in Docs
      /\ t.op \in AllOperations \ MachineOps
  BY DEF FindDoc, At, TypeInv, AllShaped, Shaped, RowSteps
<1>2. CASE Answer(w)
  BY <1>2, AnswerShaped
<1>3. CASE Live(t.doc) /\ r.kind \in KindOf(t.op) /\ Resume(w, u)
  <2>1. r \in DocRow
    BY <1>1, <1>3 DEF Live, TypeInv, TypeOK
  <2>2. /\ s \in {"put", "lock", "find_version", "read_current", "write_meta", "erase_doc"}
        /\ s \in {"put", "lock"} => t.op \in {"add_file_version", "add_json_version"}
        /\ s = "find_version" => t.op \in {"restore", "download"}
        /\ t.op = "download" => r.kind = "file"
    BY <1>1, <1>3 DEF AfterFindDoc, KindOf, AllOperations, MachineOps
  <2> HIDE DEF s, t, r
  <2>3. u \in Task
    BY <1>1, <2>1, <2>2 DEF Task, Steps
  <2>4. Shaped(u)
    BY <1>1, <2>1, <2>2 DEF Task, Shaped, MachineSteps, RowSteps, ContentSteps, VersionOps,
       MachineOps
  <2> QED BY <1>3, <2>3, <2>4, ResumeShaped
<1> QED BY <1>2, <1>3 DEF FindDoc

(* find_version: what restore and download go on with is well shaped. *)
LEMMA FindVersionType ==
    ASSUME TypeInv, NEW w \in Workers, FindVersion(w)
    PROVE  AllShaped(task')
<1> DEFINE t == task[w]
<1>1. t \in Task /\ Shaped(t) /\ t.step = "find_version"
  BY DEF FindVersion, At, TypeInv, AllShaped
<1>2. CASE Answer(w)
  BY <1>2, AnswerShaped
<1>3. ASSUME NEW v \in versions, Resume(w, Loaded(t, v))
      PROVE  AllShaped(task')
  <2>1. v \in VersionRow
    BY DEF TypeInv, TypeOK
  <2> HIDE DEF t
  <2>2. Loaded(t, v) \in Task
    <3> DEFINE k == IF t.row.kind = "file" THEN v.id ELSE None
               s == IF t.row.kind = "file" THEN "fetch" ELSE "lock"
    <3>1. k \in Versions \cup {None} /\ s \in Steps /\ v.content \in Payloads
      BY <2>1 DEF VersionRow, Steps
    <3> HIDE DEF k, s
    <3>2. [t EXCEPT !.content = v.content, !.key = k, !.step = s] \in Task
      BY <1>1, <3>1 DEF Task
    <3> QED BY <3>2 DEF Loaded, k, s
  <2>3. Shaped(Loaded(t, v))
    <3>1. /\ v.id \in Versions /\ v.content \in Payloads
          /\ t.row \in DocRow /\ t.doc \in Docs /\ t.op \in {"restore", "download"}
          /\ t.op = "download" => t.row.kind = "file"
          /\ t.op = "restore" => t.id \in Versions
      BY <1>1, <2>1 DEF VersionRow, Shaped, RowSteps, VersionOps
    <3>2. CASE t.row.kind = "file"
      BY <1>1, <3>1, <3>2 DEF Loaded, Task, Shaped, MachineSteps, RowSteps,
         ContentSteps, VersionOps, MachineOps, AllOperations
    <3>3. CASE t.row.kind # "file"
      BY <1>1, <3>1, <3>3 DEF Loaded, Task, Shaped, MachineSteps, RowSteps,
         ContentSteps, VersionOps, MachineOps, AllOperations
    <3> QED BY <3>2, <3>3
  <2> QED BY <1>3, <2>2, <2>3, ResumeShaped
<1> QED BY <1>2, <1>3 DEF FindVersion, RowsOf

(* storage.get *)
LEMMA FetchType ==
    ASSUME TypeInv, NEW w \in Workers, Fetch(w)
    PROVE  AllShaped(task')
<1> DEFINE t == task[w]
<1>1. t \in Task /\ Shaped(t) /\ t.step = "fetch"
  BY DEF Fetch, At, TypeInv, AllShaped
<1>2. CASE Answer(w)
  BY <1>2, AnswerShaped
<1>3. ASSUME NEW s \in {"put", "served"}, blobs[t.key] # None,
             s = "put" => t.op # "download",
             Resume(w, [[t EXCEPT !.bytes = blobs[t.key]] EXCEPT !.step = s])
      PROVE  AllShaped(task')
  <2> DEFINE b == blobs[t.key]
             u == [[t EXCEPT !.bytes = b] EXCEPT !.step = s]
  <2>1. b \in Payloads
    BY <1>1, <1>3 DEF TypeInv, TypeOK, Shaped
  <2> HIDE DEF t, b
  <2>2. u \in Task
    BY <1>1, <2>1 DEF Task, Steps
  <2>3. Shaped(u)
    BY <1>1, <1>3 DEF Task, Shaped, MachineSteps, RowSteps, ContentSteps, VersionOps
  <2> QED BY <1>3, <2>2, <2>3, ResumeShaped DEF b
<1> QED BY <1>2, <1>3 DEF Fetch, Serve

(* get: its second and third read. *)
LEMMA GetType ==
    ASSUME TypeInv, NEW w \in Workers, ReadCurrent(w) \/ ListVersions(w)
    PROVE  AllShaped(task')
<1> DEFINE t == task[w]
<1>1. t \in Task /\ Shaped(t)
  BY DEF TypeInv, AllShaped
<1>2. \A v \in versions : v.no \in Nat
  BY DEF TypeInv, TypeOK, VersionRow
<1>3. "list" \in Steps /\ "served" \in Steps
  BY DEF Steps
<1>4. CASE ReadCurrent(w)
  <2>1. t.step = "read_current"
    BY <1>4 DEF ReadCurrent, At
  <2>2. ASSUME NEW n \in Nat, Resume(w, [t EXCEPT !.no = n, !.step = "list"])
        PROVE  AllShaped(task')
    <3>1. [t EXCEPT !.no = n, !.step = "list"] \in Task
      BY <1>1, <1>3 DEF Task
    <3>2. Shaped([t EXCEPT !.no = n, !.step = "list"])
      BY <1>1, <2>1 DEF Task, Shaped, MachineSteps, RowSteps, ContentSteps
    <3> QED BY <2>2, <3>1, <3>2, ResumeShaped
  <2>3. Shaped([t EXCEPT !.step = "list"])
    BY <1>1, <2>1 DEF Task, Shaped, MachineSteps, RowSteps, ContentSteps
  <2>4. CASE Goto(w, "list")
    BY <1>3, <2>3, <2>4, GotoShaped
  <2> QED BY <1>2, <1>4, <2>2, <2>4 DEF ReadCurrent, RowsOf
<1>5. CASE ListVersions(w)
  <2>1. t.step = "list" /\ t.newest \in Nat
    BY <1>1, <1>5 DEF ListVersions, At, Task
  <2>2. ASSUME NEW n \in Nat, Resume(w, [[t EXCEPT !.newest = n] EXCEPT !.step = "served"])
        PROVE  AllShaped(task')
    <3>1. [[t EXCEPT !.newest = n] EXCEPT !.step = "served"] \in Task
      BY <1>1, <1>3 DEF Task
    <3>2. Shaped([[t EXCEPT !.newest = n] EXCEPT !.step = "served"])
      BY <1>1, <2>1 DEF Task, Shaped, MachineSteps, RowSteps, ContentSteps
    <3> QED BY <2>2, <3>1, <3>2, ResumeShaped
  <2>3. CASE Serve(w, t)
    <3>1. Goto(w, "served")
      BY <2>3 DEF Serve, Resume, Goto, TypeInv, TypeOK
    <3>2. Shaped([t EXCEPT !.step = "served"])
      BY <1>1, <2>1 DEF Task, Shaped, MachineSteps, RowSteps, ContentSteps
    <3> QED BY <1>3, <3>1, <3>2, GotoShaped
  <2> QED BY <1>2, <1>5, <2>2, <2>3 DEF ListVersions, Heads, RowsOf, Serve
<1> QED BY <1>4, <1>5

(* All reads together. *)
LEMMA ReadType ==
    ASSUME TypeInv, NEW w \in Workers,
           \/ FindMachine(w) \/ FindDoc(w) \/ FindVersion(w) \/ Fetch(w)
           \/ ReadCurrent(w) \/ ListVersions(w) \/ DatabaseError(w)
    PROVE  TypeInv'
<1>1. AllShaped(task')
  <2>1. CASE DatabaseError(w)
    BY <2>1, AnswerShaped DEF DatabaseError
  <2> QED BY <2>1, FindMachineType, FindDocType, FindVersionType, FetchType, GetType
<1>2. UNCHANGED <<machines, photo, docs, versions, blobs, issued, holder>>
  BY DEF FindMachine, FindDoc, FindVersion, Fetch, ReadCurrent, ListVersions,
         DatabaseError, Tables
<1> QED BY <1>1, <1>2 DEF TypeInv, TypeOK, AllShaped

(***************************************************************************)
(* The steps on the blob store.                                            *)
(***************************************************************************)
LEMMA StorageType ==
    ASSUME TypeInv, NEW w \in Workers, Put(w) \/ CleanUp(w) \/ StorageError(w)
    PROVE  TypeInv'
<1>1. task[w] \in Task /\ Shaped(task[w])
  BY DEF TypeInv, AllShaped
<1>2. AllShaped(task')
  <2>1. CASE Put(w)
    <3>1. Shaped([task[w] EXCEPT !.step = "lock"]) /\ "lock" \in Steps
      BY <1>1, <2>1 DEF Put, At, Task, Steps, Shaped, MachineSteps, RowSteps, ContentSteps
    <3> QED BY <2>1, <3>1, GotoShaped DEF Put
  <2> QED BY <2>1, AnswerShaped DEF CleanUp, StorageError
<1>3. task[w].bytes \in Payloads \cup {None}
  BY <1>1 DEF Task
<1>4. blobs' \in [Versions -> Payloads \cup {None}]
  BY <1>3 DEF Put, CleanUp, StorageError, Stored, TypeInv, TypeOK
<1>5. UNCHANGED <<machines, photo, docs, versions, issued, holder>>
  BY DEF Put, CleanUp, StorageError, Tables
<1> QED BY <1>2, <1>4, <1>5 DEF TypeInv, TypeOK, AllShaped

(***************************************************************************)
(* The steps of add_version.                                               *)
(***************************************************************************)
LEMMA AddVersionFailedShaped ==
    ASSUME TypeInv, NEW w \in Workers, AddVersionFailed(w),
           task[w].step \in {"lock", "commit"}
    PROVE  AllShaped(task')
<1>1. task[w] \in Task /\ Shaped(task[w])
  BY DEF TypeInv, AllShaped
<1>2. Shaped([task[w] EXCEPT !.step = "cleanup"]) /\ "cleanup" \in Steps
  BY <1>1 DEF Task, Steps, Shaped, MachineSteps, RowSteps, ContentSteps
<1> QED BY <1>2, GotoShaped, AnswerShaped DEF AddVersionFailed

(* SELECT ... FOR UPDATE *)
LEMMA LockSlotType ==
    ASSUME TypeInv, NEW w \in Workers, LockSlot(w)
    PROVE  TypeInv'
<1> DEFINE t == task[w]
           d == docs[t.doc]
<1>1. t \in Task /\ Shaped(t) /\ t.step = "lock" /\ t.doc \in Docs
  BY DEF LockSlot, At, TypeInv, AllShaped, Shaped, RowSteps, ContentSteps
<1>2. UNCHANGED <<machines, photo, docs, versions, blobs, issued>>
  BY DEF LockSlot, Tables
<1>3. CASE AddVersionFailed(w) /\ UNCHANGED holder
  BY <1>1, <1>2, <1>3, AddVersionFailedShaped DEF TypeInv, TypeOK, AllShaped
<1>4. CASE /\ Live(t.doc)
           /\ holder' = [holder EXCEPT ![d.machine] = w]
           /\ Resume(w, [t EXCEPT !.no = d.current + 1, !.step = "commit"])
  <2>1. d \in DocRow
    BY <1>1, <1>4 DEF Live, TypeInv, TypeOK
  <2>2. d.current + 1 \in Nat /\ d.machine \in Machines
    BY <2>1 DEF DocRow
  <2>3. holder' \in [Machines -> Workers \cup {None}]
    BY <1>4, <2>2 DEF TypeInv, TypeOK
  <2>4. "commit" \in Steps
    BY DEF Steps
  <2> DEFINE n == d.current + 1
             u == [t EXCEPT !.no = n, !.step = "commit"]
  <2> HIDE DEF n
  <2>5. u \in Task
    BY <1>1, <2>2, <2>4 DEF Task, n
  <2>6. Shaped(u)
    BY <1>1 DEF Task, Shaped, MachineSteps, RowSteps, ContentSteps
  <2>7. AllShaped(task')
    BY <1>4, <2>5, <2>6, ResumeShaped DEF n
  <2> QED BY <1>2, <2>3, <2>7 DEF TypeInv, TypeOK, AllShaped
<1> QED BY <1>3, <1>4 DEF LockSlot

(* Releasing locks leaves a well-typed lock table. *)
LEMMA ReleasedType ==
    ASSUME TypeInv, NEW w \in Workers
    PROVE  Released(w) \in [Machines -> Workers \cup {None}]
BY DEF Released, TypeInv, TypeOK

(* The rows a committing transaction leaves are rows.                       *)
LEMMA BumpVersionType ==
    ASSUME TypeInv, NEW w \in Workers, At(w, "commit"), BumpVersion(w), AllShaped(task'),
           NumberIsNext
    PROVE  TypeInv'
<1> DEFINE t == task[w]
<1>1. t \in Task /\ Shaped(t) /\ t.step = "commit"
  BY DEF At, TypeInv, AllShaped
<1>2. /\ t.doc \in Docs /\ t.id \in Versions /\ t.content \in Payloads /\ t.no \in Nat
      /\ t.row \in DocRow
  BY <1>1 DEF Task, Shaped, RowSteps, ContentSteps
<1>3. NewVersion(t) \in VersionRow
  BY <1>2 DEF NewVersion, VersionRow
<1>4. versions' \subseteq VersionRow
  <2>1. \A v \in VersionRow : [v EXCEPT !.is_current = FALSE] \in VersionRow
    BY DEF VersionRow
  <2> QED BY <1>3, <2>1 DEF BumpVersion, Demoted, TypeInv, TypeOK
<1>5. docs' \in [Docs -> DocRow \cup {None}]
  <2>1. PICK d \in Docs : d = t.doc
    BY <1>2
  <2>2. docs' = [docs EXCEPT ![d] = [docs[d] EXCEPT !.current = t.no]]
    BY <2>1 DEF BumpVersion, Bumped
  <2>3. docs[d] \in DocRow => [docs[d] EXCEPT !.current = t.no] \in DocRow
    BY <1>2 DEF DocRow
  <2>4. docs[d] \in DocRow
    BY <1>1, <2>1 DEF NumberIsNext, At, Live, TypeInv, TypeOK
  <2> QED BY <2>2, <2>3, <2>4 DEF TypeInv, TypeOK
<1>6. photo' \in [Machines -> Versions \cup {None}]
  BY <1>2 DEF BumpVersion, DocRow, TypeInv, TypeOK
<1>7. holder' \in [Machines -> Workers \cup {None}]
  BY ReleasedType DEF BumpVersion
<1> QED BY <1>4, <1>5, <1>6, <1>7 DEF BumpVersion, TypeInv, TypeOK, AllShaped

(* A rolled-back transaction. *)
LEMMA RollBackType ==
    ASSUME TypeInv, NEW w \in Workers, RollBack(w) \/ Abort(w)
    PROVE  TypeInv'
<1>1. AllShaped(task')
  BY AddVersionFailedShaped, AnswerShaped DEF RollBack, Abort
<1>2. holder' \in [Machines -> Workers \cup {None}]
  BY ReleasedType DEF RollBack, Abort
<1> QED BY <1>1, <1>2 DEF RollBack, Abort, Tables, TypeInv, TypeOK, AllShaped

(***************************************************************************)
(* The autocommit writes.                                                  *)
(***************************************************************************)
LEMMA AutocommitType ==
    ASSUME TypeInv, NEW w \in Workers,
           \/ InsertDoc(w) \/ WriteMeta(w) \/ EraseDoc(w) \/ EraseMachine(w)
           \/ WriteMachine(w)
    PROVE  TypeInv'
<1> DEFINE t == task[w]
<1>1. t \in Task /\ Shaped(t)
  BY DEF TypeInv, AllShaped
<1>2. AllShaped(task')
  BY AnswerShaped DEF InsertDoc, WriteMeta, EraseDoc, EraseMachine, WriteMachine
<1>3. CASE InsertDoc(w)
  <2>1. t.row \in DocRow \cup {None}
    BY <1>1 DEF Task
  <2>2. docs' \in [Docs -> DocRow \cup {None}]
    BY <1>3, <2>1 DEF InsertDoc, TypeInv, TypeOK
  <2> QED BY <1>2, <1>3, <2>2 DEF InsertDoc, TypeInv, TypeOK, AllShaped
<1>4. CASE WriteMeta(w)
  <2>1. t.doc \in Docs /\ t.row \in DocRow /\ t.category \in Categories \cup {None}
    BY <1>1, <1>4 DEF WriteMeta, At, Task, Shaped, RowSteps
  <2> DEFINE c == IF t.category = None THEN t.row.category ELSE t.category
  <2>2. c \in Categories
    BY <2>1 DEF DocRow
  <2>3. \A r \in DocRow : [r EXCEPT !.category = c] \in DocRow
    BY <2>2 DEF DocRow
  <2>4. Live(t.doc) => docs[t.doc] \in DocRow
    BY <2>1 DEF Live, TypeInv, TypeOK
  <2>5. docs' = docs \/ (Live(t.doc) /\ docs' = [docs EXCEPT ![t.doc] = [docs[t.doc] EXCEPT !.category = c]])
    <3>1. Renamed(t) = [docs EXCEPT ![t.doc] = [docs[t.doc] EXCEPT !.category = c]]
      BY DEF Renamed
    <3> QED BY <1>4, <3>1 DEF WriteMeta
  <2> HIDE DEF c
  <2>6. docs' \in [Docs -> DocRow \cup {None}]
    BY <2>1, <2>3, <2>4, <2>5 DEF TypeInv, TypeOK
  <2> QED BY <1>2, <1>4, <2>6 DEF WriteMeta, TypeInv, TypeOK, AllShaped
<1>5. ASSUME NEW D, Cascade(D)
      PROVE  /\ docs' \in [Docs -> DocRow \cup {None}]
             /\ versions' \subseteq VersionRow
             /\ UNCHANGED <<blobs, issued, holder>>
  BY <1>5 DEF Cascade, TypeInv, TypeOK
<1>6. CASE EraseDoc(w)
  BY <1>2, <1>5, <1>6 DEF EraseDoc, TypeInv, TypeOK, AllShaped
<1>7. CASE EraseMachine(w)
  BY <1>2, <1>5, <1>7 DEF EraseMachine, TypeInv, TypeOK, AllShaped
<1>8. CASE WriteMachine(w)
  <2>1. t.pointer \in Versions \cup {None}
    BY <1>1 DEF Task
  <2> QED BY <1>2, <1>8, <2>1 DEF WriteMachine, TypeInv, TypeOK, AllShaped
<1> QED BY <1>3, <1>4, <1>6, <1>7, <1>8

(* The commit, whether its answer arrives or not. *)
LEMMA CommitType ==
    ASSUME TypeInv, NumberIsNext, NEW w \in Workers, Commit(w) \/ CommitLostAck(w)
    PROVE  TypeInv'
<1>1. At(w, "commit") /\ BumpVersion(w)
  BY DEF Commit, CommitLostAck
<1>2. AllShaped(task')
  BY <1>1, AnswerShaped, AddVersionFailedShaped DEF Commit, CommitLostAck, At
<1> QED BY <1>1, <1>2, BumpVersionType

(* Every step keeps types and shapes. *)
LEMMA NextType ==
    ASSUME TypeInv, NumberIsNext, [Next]_vars
    PROVE  TypeInv'
<1>1. CASE UNCHANGED vars
  BY <1>1 DEF vars, TypeInv, TypeOK, AllShaped, VersionRow
<1>2. ASSUME NEW w \in Workers, Arrive(w) \/ Step(w) \/ Fault(w)
      PROVE  TypeInv'
  BY <1>2, ArriveType, ReadType, StorageType, LockSlotType, CommitType, RollBackType,
     AutocommitType DEF Step, Fault
<1> QED BY <1>1, <1>2 DEF Next

-----------------------------------------------------------------------------
(***************************************************************************)
(* Slots.  A step of a worker keeps SlotIdentity when the worker knows no  *)
(* more than before, issued does not shrink and no slot appears.           *)
(***************************************************************************)
KnowsNoMore(old, new) ==
    /\ Creates(new) => Creates(old) /\ new.doc = old.doc
    /\ Holds(new) => Holds(old) /\ new.doc = old.doc /\ new.row = old.row

(* The rule announced above. *)
LEMMA SlotIdentityKept ==
    ASSUME TypeInv, TypeInv', SlotIdentity, issued \subseteq issued', NEW w \in Workers,
           \A x \in Workers \ {w} : task'[x] = task[x],
           KnowsNoMore(task[w], task'[w]),
           \A d \in Docs : Live(d)' => Live(d) /\ docs'[d].machine = docs[d].machine
    PROVE  SlotIdentity'
<1>0. \A x \in Workers : KnowsNoMore(task[x], task'[x])
  BY DEF KnowsNoMore
<1>1. \A x \in Workers :
        /\ Creates(task[x]) \/ Holds(task[x]) => task[x].doc \in Docs
        /\ Creates(task'[x]) \/ Holds(task'[x]) => task'[x].doc \in Docs
  BY DEF TypeInv, AllShaped, Shaped, Creates, Holds
<1>2. LiveIssued' /\ KnownIssued'
  BY <1>0, <1>1 DEF SlotIdentity, LiveIssued, KnownIssued, KnowsNoMore
<1>3. CreatedAbsent'
  BY <1>0, <1>1 DEF SlotIdentity, CreatedAbsent, KnowsNoMore
<1>4. CreatedUnknown'
  BY <1>0 DEF SlotIdentity, CreatedUnknown, KnowsNoMore
<1>5. MachineFixed'
  BY <1>0, <1>1 DEF SlotIdentity, MachineFixed, KnowsNoMore
<1> QED BY <1>2, <1>3, <1>4, <1>5 DEF SlotIdentity

(* An idle worker neither creates nor has read a slot. *)
LEMMA IdleKnowsNothing == ~Creates(Idle) /\ ~Holds(Idle)
BY NoneAssumption DEF Idle, Creates, Holds, RowSteps, ContentSteps, AllOperations

(* Resume, Answer and Goto change one worker and teach it nothing more. *)
LEMMA ResumeTask ==
    ASSUME TypeInv, NEW w \in Workers, NEW t, Resume(w, t)
    PROVE  task'[w] = t /\ \A x \in Workers \ {w} : task'[x] = task[x]
BY DEF Resume, TypeInv, TypeOK

(* See ResumeTask. *)
LEMMA AnswerTask ==
    ASSUME TypeInv, NEW w \in Workers, Answer(w)
    PROVE  /\ task'[w] = Idle
           /\ \A x \in Workers \ {w} : task'[x] = task[x]
           /\ KnowsNoMore(task[w], task'[w])
BY ResumeTask, IdleKnowsNothing DEF Answer, KnowsNoMore

(* See ResumeTask. *)
LEMMA GotoTask ==
    ASSUME TypeInv, NEW w \in Workers, NEW s \in Steps, Goto(w, s)
    PROVE  /\ task'[w] = [task[w] EXCEPT !.step = s]
           /\ task'[w].step = s
           /\ \A x \in Workers \ {w} : task'[x] = task[x]
           /\ Holds(task[w]) => KnowsNoMore(task[w], task'[w])
           /\ s \notin RowSteps => KnowsNoMore(task[w], task'[w])
<1>1. task[w] \in Task
  BY DEF TypeInv, TypeOK
<1>2. /\ task'[w] = [task[w] EXCEPT !.step = s]
      /\ \A x \in Workers \ {w} : task'[x] = task[x]
  BY DEF Goto, TypeInv, TypeOK
<1>3. [task[w] EXCEPT !.step = s].step = s
  BY <1>1 DEF Task
<1>4. LET u == [task[w] EXCEPT !.step = s] IN
      u.op = task[w].op /\ u.doc = task[w].doc /\ u.row = task[w].row
  BY <1>1 DEF Task
<1> QED BY <1>2, <1>3, <1>4 DEF KnowsNoMore, Creates, Holds

(* Steps on the blob store, reads but find_by_id of a slot, failures, locks: *)
(* none of them learns of a slot.                                            *)
LEMMA OnlyFindDocLearns ==
    ASSUME TypeInv, NEW w \in Workers, Step(w) \/ Fault(w), ~FindDoc(w)
    PROVE  /\ \A x \in Workers \ {w} : task'[x] = task[x]
           /\ KnowsNoMore(task[w], task'[w])
<1> DEFINE t == task[w]
           Goal == /\ \A x \in Workers \ {w} : task'[x] = task[x]
                   /\ KnowsNoMore(task[w], task'[w])
<1>1. t \in Task /\ Shaped(t)
  BY DEF TypeInv, AllShaped
<1>2. CASE Answer(w)
  BY <1>2, AnswerTask
<1>3. CASE AddVersionFailed(w)
  BY <1>3, AnswerTask, GotoTask DEF AddVersionFailed, Steps, RowSteps, ContentSteps
<1>4. CASE FindMachine(w) /\ ~Answer(w)
  <2> DEFINE p == IF t.op = "update_machine" THEN photo[t.machine] ELSE None
             s == CASE t.op = "create_slot" -> "insert_doc"
                    [] t.op = "delete_machine" -> "erase_machine"
                    [] OTHER -> "write_machine"
             u == [t EXCEPT !.pointer = p, !.step = s]
  <2>1. s \notin RowSteps
    BY DEF RowSteps, ContentSteps
  <2>2. Resume(w, u)
    BY <1>4 DEF FindMachine
  <2> HIDE DEF p, s
  <2>3. u.op = t.op /\ u.step = s /\ u.doc = t.doc
    BY <1>1 DEF Task
  <2> QED BY <2>1, <2>2, <2>3, ResumeTask DEF KnowsNoMore, Creates, Holds
<1>5. ASSUME Holds(t), NEW u, Resume(w, u), u.op = t.op, u.doc = t.doc, u.row = t.row
      PROVE  Goal
  BY <1>5, ResumeTask DEF KnowsNoMore, Creates, Holds
<1>6. CASE FindVersion(w) /\ ~Answer(w)
  <2>1. PICK v \in versions : Resume(w, Loaded(t, v))
    BY <1>6 DEF FindVersion, RowsOf
  <2>2. Loaded(t, v).op = t.op /\ Loaded(t, v).doc = t.doc /\ Loaded(t, v).row = t.row
    BY <1>1 DEF Loaded, Task
  <2>3. Holds(t)
    BY <1>6 DEF FindVersion, At, Holds, RowSteps
  <2> QED BY <1>5, <2>1, <2>2, <2>3
<1>7. CASE Fetch(w) /\ ~Answer(w)
  <2>1. Holds(t)
    BY <1>7 DEF Fetch, At, Holds, RowSteps, ContentSteps
  <2>2. PICK s \in {"put", "served"} :
          Resume(w, [[t EXCEPT !.bytes = blobs[t.key]] EXCEPT !.step = s])
    BY <1>7 DEF Fetch, Serve, Resume
  <2>3. LET u == [[t EXCEPT !.bytes = blobs[t.key]] EXCEPT !.step = s] IN
        u.op = t.op /\ u.doc = t.doc /\ u.row = t.row
    BY <1>1 DEF Task
  <2> QED BY <1>5, <2>1, <2>2, <2>3
<1>8. CASE ReadCurrent(w)
  <2>1. Holds(t)
    BY <1>8 DEF ReadCurrent, At, Holds, RowSteps
  <2>2. CASE Goto(w, "list")
    BY <2>1, <2>2, GotoTask DEF Steps
  <2>3. ASSUME NEW v \in versions, Resume(w, [t EXCEPT !.no = v.no, !.step = "list"])
        PROVE  Goal
    BY <1>1, <1>5, <2>1, <2>3 DEF Task
  <2> QED BY <1>8, <2>2, <2>3 DEF ReadCurrent, RowsOf
<1>9. CASE ListVersions(w)
  <2>1. Holds(t)
    BY <1>9 DEF ListVersions, At, Holds, RowSteps
  <2>2. CASE Serve(w, t)
    BY <1>1, <1>5, <2>1, <2>2 DEF Serve, Task
  <2>3. ASSUME NEW v \in versions, Serve(w, [t EXCEPT !.newest = v.no])
        PROVE  Goal
    BY <1>1, <1>5, <2>1, <2>3 DEF Serve, Task
  <2> QED BY <1>9, <2>2, <2>3 DEF ListVersions, Heads, RowsOf
<1>10. CASE Put(w)
  BY <1>10, GotoTask DEF Put, At, Holds, RowSteps, ContentSteps, Steps
<1>11. CASE LockSlot(w) /\ ~AddVersionFailed(w)
  <2>1. Holds(t)
    BY <1>11 DEF LockSlot, At, Holds, RowSteps, ContentSteps
  <2>2. Resume(w, [t EXCEPT !.no = docs[t.doc].current + 1, !.step = "commit"])
    BY <1>11 DEF LockSlot
  <2> QED BY <1>1, <1>5, <2>1, <2>2 DEF Task
<1> QED
  BY <1>2, <1>3, <1>4, <1>6, <1>7, <1>8, <1>9, <1>10, <1>11
  DEF Step, Fault, CleanUp, Commit, InsertDoc, WriteMeta, EraseDoc, EraseMachine,
      WriteMachine, StorageError, CommitLostAck, RollBack, DatabaseError, Abort

(***************************************************************************)
(* What the steps do to the table of slots: a commit raises one counter, a *)
(* rename changes a category, a deletion removes rows, and create_slot     *)
(* alone adds one; no slot ever moves to another machine.                  *)
(***************************************************************************)
LEMMA SlotsMayVanish ==
    ASSUME TypeInv, NumberIsNext, NEW w \in Workers,
           Arrive(w) \/ Step(w) \/ Fault(w), ~InsertDoc(w)
    PROVE  \A d \in Docs : Live(d)' => Live(d) /\ docs'[d].machine = docs[d].machine
<1> DEFINE t == task[w]
           Kept == \A d \in Docs : Live(d)' => Live(d) /\ docs'[d].machine = docs[d].machine
<1>1. t \in Task /\ Shaped(t)
  BY DEF TypeInv, AllShaped
<1>2. CASE docs' = docs
  BY <1>2 DEF Live
<1>3. ASSUME NEW D, Cascade(D) PROVE Kept
  BY <1>3 DEF Cascade, Live
<1>4. ASSUME NEW r, Live(t.doc), t.doc \in Docs, r.machine = docs[t.doc].machine,
             docs' = [docs EXCEPT ![t.doc] = r]
      PROVE  Kept
  BY <1>4 DEF Live, TypeInv, TypeOK
<1>5. CASE At(w, "commit") /\ BumpVersion(w)
  <2>1. Live(t.doc) /\ t.doc \in Docs
    BY <1>1, <1>5 DEF NumberIsNext, At, Shaped, RowSteps, ContentSteps
  <2>2. docs[t.doc] \in DocRow
    BY <2>1 DEF Live, TypeInv, TypeOK
  <2>3. docs' = [docs EXCEPT ![t.doc] = [docs[t.doc] EXCEPT !.current = t.no]]
    BY <1>5 DEF BumpVersion, Bumped
  <2>4. [docs[t.doc] EXCEPT !.current = t.no].machine = docs[t.doc].machine
    BY <2>2 DEF DocRow
  <2> QED BY <1>4, <2>1, <2>3, <2>4
<1>6. CASE WriteMeta(w) /\ Live(t.doc)
  <2>1. t.doc \in Docs
    BY <1>1, <1>6 DEF WriteMeta, At, Shaped, RowSteps
  <2>2. docs[t.doc] \in DocRow
    BY <1>6, <2>1 DEF Live, TypeInv, TypeOK
  <2> DEFINE c == IF t.category = None THEN t.row.category ELSE t.category
  <2>3. Renamed(t) = [docs EXCEPT ![t.doc] = [docs[t.doc] EXCEPT !.category = c]]
    BY DEF Renamed
  <2>4. docs' = Renamed(t)
    BY <1>6 DEF WriteMeta
  <2> HIDE DEF c
  <2>5. [docs[t.doc] EXCEPT !.category = c].machine = docs[t.doc].machine
    BY <2>2 DEF DocRow
  <2> QED BY <1>4, <1>6, <2>1, <2>3, <2>4, <2>5
<1>7. CASE WriteMeta(w) /\ ~Live(t.doc)
  BY <1>2, <1>7 DEF WriteMeta
<1>8. CASE EraseDoc(w) \/ EraseMachine(w)
  BY <1>3, <1>8 DEF EraseDoc, EraseMachine
<1>9. CASE Commit(w) \/ CommitLostAck(w)
  BY <1>5, <1>9 DEF Commit, CommitLostAck
<1>10. CASE Arrive(w)
  BY <1>2, <1>10 DEF Arrive, BeginCreate, BeginVersion, BeginRestore, BeginRead,
     BeginSlotChange, BeginMachineChange, Begin, Tables
<1> QED
  BY <1>2, <1>6, <1>7, <1>8, <1>9, <1>10
  DEF Step, Fault, FindMachine, FindDoc, FindVersion, Fetch, ReadCurrent, ListVersions,
      Put, CleanUp, LockSlot, WriteMachine, StorageError, RollBack, DatabaseError,
      Abort, Tables

(* An arriving create_slot draws a UUID that nobody knows. *)
LEMMA ArriveSlots ==
    ASSUME TypeInv, TypeInv', SlotIdentity, NEW w \in Workers, Arrive(w)
    PROVE  SlotIdentity'
<1>1. issued \subseteq issued' /\ docs' = docs
  BY DEF Arrive, BeginCreate, BeginVersion, BeginRestore, BeginRead, BeginSlotChange,
         BeginMachineChange, Begin, Tables
<1>2. ASSUME NEW u, Resume(w, u), ~Creates(u), ~Holds(u)
      PROVE  SlotIdentity'
  <2>1. KnowsNoMore(task[w], task'[w]) /\ \A x \in Workers \ {w} : task'[x] = task[x]
    BY <1>2, ResumeTask DEF KnowsNoMore
  <2> QED BY <1>1, <2>1, SlotIdentityKept DEF Live
<1>3. CASE BeginCreate(w)
  <2>1. PICK m \in Machines, c \in Categories, k \in Kinds, d \in Docs \ issued :
          /\ issued' = issued \cup {d}
          /\ Resume(w, [Idle EXCEPT !.op = "create_slot", !.step = "find_machine",
                          !.machine = m, !.doc = d,
                          !.row = [machine |-> m, category |-> c, kind |-> k,
                                   current |-> 0]])
    BY <1>3 DEF BeginCreate
  <2>2. task'[w].doc = d /\ Creates(task'[w]) /\ ~Holds(task'[w])
        /\ \A x \in Workers \ {w} : task'[x] = task[x]
    <3> DEFINE r == [machine |-> m, category |-> c, kind |-> k, current |-> 0]
               u == [Idle EXCEPT !.op = "create_slot", !.step = "find_machine",
                        !.machine = m, !.doc = d, !.row = r]
    <3>1. Resume(w, u)
      BY <2>1
    <3> HIDE DEF r
    <3>2. u.doc = d /\ u.op = "create_slot" /\ u.step = "find_machine"
      BY DEF Idle
    <3> QED BY <3>1, <3>2, ResumeTask DEF Creates, Holds, RowSteps, ContentSteps
  <2>3. ~Live(d)
    BY DEF SlotIdentity, LiveIssued
  <2>4. \A x \in Workers \ {w} : Creates(task[x]) \/ Holds(task[x]) => task[x].doc # d
    BY DEF SlotIdentity, KnownIssued
  <2>5. LiveIssued' /\ KnownIssued'
    BY <1>1, <2>1, <2>2 DEF SlotIdentity, LiveIssued, KnownIssued, Live
  <2>6. CreatedAbsent'
    BY <1>1, <2>2, <2>3 DEF SlotIdentity, CreatedAbsent, Live
  <2>7. CreatedUnknown'
    BY <2>2, <2>4 DEF SlotIdentity, CreatedUnknown
  <2>8. MachineFixed'
    BY <1>1, <2>2 DEF SlotIdentity, MachineFixed, Live
  <2> QED BY <2>5, <2>6, <2>7, <2>8 DEF SlotIdentity
<1>4. CASE BeginVersion(w, "add_file_version") \/ BeginVersion(w, "add_json_version")
  BY <1>2, <1>4 DEF BeginVersion, Idle, Creates, Holds, RowSteps, ContentSteps
<1>5. CASE BeginRestore(w)
  BY <1>2, <1>5 DEF BeginRestore, Idle, Creates, Holds, RowSteps, ContentSteps
<1>6. CASE BeginRead(w)
  BY <1>2, <1>6 DEF BeginRead, Idle, Creates, Holds, RowSteps, ContentSteps
<1>7. CASE BeginSlotChange(w)
  BY <1>2, <1>7 DEF BeginSlotChange, Idle, Creates, Holds, RowSteps, ContentSteps
<1>8. CASE BeginMachineChange(w)
  BY <1>2, <1>8 DEF BeginMachineChange, Idle, Creates, Holds, RowSteps, ContentSteps
<1> QED BY <1>3, <1>4, <1>5, <1>6, <1>7, <1>8 DEF Arrive

(* A handler that reads a slot learns the machine the slot has. *)
LEMMA FindDocSlots ==
    ASSUME TypeInv, TypeInv', SlotIdentity, NEW w \in Workers, FindDoc(w)
    PROVE  SlotIdentity'
<1> DEFINE t == task[w]
<1>1. t \in Task /\ t.doc \in Docs /\ t.op \notin MachineOps
  BY DEF FindDoc, At, TypeInv, AllShaped, Shaped
<1>2. docs' = docs /\ issued' = issued
  BY DEF FindDoc, Tables
<1>3. CASE Answer(w)
  BY <1>2, <1>3, AnswerTask, SlotIdentityKept DEF Live
<1>4. CASE Live(t.doc) /\ Resume(w, [t EXCEPT !.row = docs[t.doc], !.step = AfterFindDoc(t.op)])
  <2>1. /\ task'[w].doc = t.doc /\ task'[w].op = t.op /\ task'[w].row = docs[t.doc]
        /\ \A x \in Workers \ {w} : task'[x] = task[x]
    <3> DEFINE r == docs[t.doc]
               s == AfterFindDoc(t.op)
               u == [t EXCEPT !.row = r, !.step = s]
    <3>1. Resume(w, u)
      BY <1>4
    <3> HIDE DEF r, s
    <3>2. u.doc = t.doc /\ u.op = t.op /\ u.row = r
      BY <1>1 DEF Task
    <3> QED BY <3>1, <3>2, ResumeTask DEF r
  <2>2. ~Creates(task'[w])
    BY <1>1, <2>1 DEF Creates, MachineOps
  <2>3. t.doc \in issued
    BY <1>1, <1>4 DEF SlotIdentity, LiveIssued
  <2>4. \A x \in Workers : Creates(task[x]) => task[x].doc # t.doc
    BY <1>4 DEF SlotIdentity, CreatedAbsent
  <2>5. LiveIssued' /\ KnownIssued'
    BY <1>2, <2>1, <2>3 DEF SlotIdentity, LiveIssued, KnownIssued, Live
  <2>6. CreatedAbsent'
    BY <1>2, <2>1, <2>2 DEF SlotIdentity, CreatedAbsent, Live
  <2>7. CreatedUnknown'
    BY <2>1, <2>2, <2>4 DEF SlotIdentity, CreatedUnknown
  <2>8. MachineFixed'
    BY <1>2, <2>1 DEF SlotIdentity, MachineFixed, Live
  <2> QED BY <2>5, <2>6, <2>7, <2>8 DEF SlotIdentity
<1> QED BY <1>3, <1>4 DEF FindDoc

(* The slot a create_slot inserts was there for nobody else. *)
LEMMA InsertDocSlots ==
    ASSUME TypeInv, TypeInv', SlotIdentity, NEW w \in Workers, InsertDoc(w)
    PROVE  SlotIdentity'
<1> DEFINE t == task[w]
<1>1. Creates(t) /\ t.doc \in Docs /\ t.row \in DocRow
  BY DEF InsertDoc, At, TypeInv, AllShaped, Shaped, Creates
<1>2. issued' = issued /\ (docs' = docs \/ docs' = [docs EXCEPT ![t.doc] = t.row])
  BY DEF InsertDoc
<1>3. task'[w] = Idle /\ \A x \in Workers \ {w} : task'[x] = task[x]
  BY AnswerTask DEF InsertDoc
<1>4. \A d \in Docs \ {t.doc} : docs'[d] = docs[d]
  BY <1>2 DEF TypeInv, TypeOK
<1>5. \A x \in Workers \ {w} : Creates(task[x]) \/ Holds(task[x]) => task[x].doc # t.doc
  BY <1>1 DEF SlotIdentity, CreatedUnknown
<1>6. \A x \in Workers : Creates(task[x]) \/ Holds(task[x]) => task[x].doc \in Docs
  BY DEF TypeInv, AllShaped, Shaped, Creates, Holds
<1>7. LiveIssued' /\ KnownIssued'
  BY <1>1, <1>2, <1>3, <1>4, IdleKnowsNothing
     DEF SlotIdentity, LiveIssued, KnownIssued, Live
<1>8. CreatedAbsent' /\ CreatedUnknown'
  BY <1>3, <1>4, <1>5, <1>6, IdleKnowsNothing
     DEF SlotIdentity, CreatedAbsent, CreatedUnknown, Live
<1>9. MachineFixed'
  BY <1>3, <1>4, <1>5, <1>6, IdleKnowsNothing DEF SlotIdentity, MachineFixed, Live
<1> QED BY <1>7, <1>8, <1>9 DEF SlotIdentity

(* Every step keeps the identity of slots. *)
LEMMA NextSlots ==
    ASSUME TypeInv, TypeInv', SlotIdentity, NumberIsNext, [Next]_vars
    PROVE  SlotIdentity'
<1>1. CASE UNCHANGED vars
  BY <1>1 DEF vars, SlotIdentity, LiveIssued, KnownIssued, CreatedAbsent, CreatedUnknown,
     MachineFixed, Live, Holds, Creates
<1>2. ASSUME NEW w \in Workers, Arrive(w) \/ Step(w) \/ Fault(w)
      PROVE  SlotIdentity'
  <2>1. CASE Arrive(w) \/ FindDoc(w) \/ InsertDoc(w)
    BY <2>1, ArriveSlots, FindDocSlots, InsertDocSlots
  <2>2. CASE ~(Arrive(w) \/ FindDoc(w) \/ InsertDoc(w))
    <3>1. issued' = issued
      BY <1>2, <2>2 DEF Step, Fault, FindMachine, FindVersion, Fetch, ReadCurrent,
         ListVersions, Put, CleanUp, LockSlot, Commit, BumpVersion, WriteMeta, EraseDoc,
         EraseMachine, Cascade, WriteMachine, StorageError, CommitLostAck, RollBack,
         DatabaseError, Abort
    <3> QED BY <1>2, <2>2, <3>1, OnlyFindDocLearns, SlotsMayVanish, SlotIdentityKept
  <2> QED BY <2>1, <2>2
<1> QED BY <1>1, <1>2 DEF Next

-----------------------------------------------------------------------------
(***************************************************************************)
(* Locks.                                                                  *)
(***************************************************************************)
LEMMA OnlyLockSlotLocks ==
    ASSUME TypeInv, NEW w \in Workers, Arrive(w) \/ Step(w) \/ Fault(w), ~LockSlot(w)
    PROVE  task'[w].step # "commit"
<1> DEFINE t == task[w]
<1>1. t \in Task
  BY DEF TypeInv, TypeOK
<1>2. CASE Answer(w)
  BY <1>2, AnswerTask DEF Idle
<1>3. ASSUME NEW s \in Steps \ {"commit"}, NEW u, Resume(w, u), u.step = s
      PROVE  task'[w].step # "commit"
  BY <1>3, ResumeTask
<1>4. ASSUME NEW s \in Steps \ {"commit"}, Goto(w, s)
      PROVE  task'[w].step # "commit"
  BY <1>4, GotoTask
<1>5. CASE Arrive(w)
  <2>1. ASSUME NEW u, Resume(w, u), u.step \in {"find_doc", "find_machine"}
        PROVE  task'[w].step # "commit"
    BY <1>3, <2>1 DEF Steps
  <2>2. CASE BeginCreate(w)
    BY <2>1, <2>2 DEF BeginCreate, Idle
  <2>3. CASE BeginVersion(w, "add_file_version") \/ BeginVersion(w, "add_json_version")
    BY <2>1, <2>3 DEF BeginVersion, Idle
  <2>4. CASE BeginRestore(w) \/ BeginRead(w)
    BY <2>1, <2>4 DEF BeginRestore, BeginRead, Idle
  <2>5. CASE BeginSlotChange(w) \/ BeginMachineChange(w)
    BY <2>1, <2>5 DEF BeginSlotChange, BeginMachineChange, Idle
  <2> QED BY <1>5, <2>2, <2>3, <2>4, <2>5 DEF Arrive
<1>6. CASE FindMachine(w) /\ ~Answer(w)
  <2> DEFINE s == CASE t.op = "create_slot" -> "insert_doc"
                    [] t.op = "delete_machine" -> "erase_machine"
                    [] OTHER -> "write_machine"
             p == IF t.op = "update_machine" THEN photo[t.machine] ELSE None
             u == [t EXCEPT !.pointer = p, !.step = s]
  <2>1. s \in Steps \ {"commit"}
    BY DEF Steps
  <2>2. Resume(w, u)
    BY <1>6 DEF FindMachine
  <2> HIDE DEF s, p
  <2>3. u.step = s
    BY <1>1 DEF Task
  <2> QED BY <1>3, <2>1, <2>2, <2>3
<1>7. CASE FindDoc(w) /\ ~Answer(w)
  <2> DEFINE s == AfterFindDoc(t.op)
             u == [t EXCEPT !.row = docs[t.doc], !.step = s]
  <2>1. s \in Steps \ {"commit"}
    BY DEF Steps, AfterFindDoc
  <2>2. Resume(w, u)
    BY <1>7 DEF FindDoc
  <2> HIDE DEF s
  <2>3. u.step = s
    BY <1>1 DEF Task
  <2> QED BY <1>3, <2>1, <2>2, <2>3
<1>8. CASE FindVersion(w) /\ ~Answer(w)
  <2>1. PICK v \in versions : Resume(w, Loaded(t, v))
    BY <1>8 DEF FindVersion, RowsOf
  <2>2. Loaded(t, v).step \in {"fetch", "lock"}
    BY <1>1 DEF Loaded, Task
  <2> QED BY <1>3, <2>1, <2>2 DEF Steps
<1>9. CASE Fetch(w) /\ ~Answer(w)
  <2>1. PICK s \in {"put", "served"} :
          Resume(w, [[t EXCEPT !.bytes = blobs[t.key]] EXCEPT !.step = s])
    BY <1>9 DEF Fetch, Serve
  <2>2. [[t EXCEPT !.bytes = blobs[t.key]] EXCEPT !.step = s].step = s
    BY <1>1 DEF Task
  <2> QED BY <1>3, <2>1, <2>2 DEF Steps
<1>10. CASE ReadCurrent(w)
  <2>1. \A v \in versions : [t EXCEPT !.no = v.no, !.step = "list"].step = "list"
    BY <1>1 DEF Task
  <2> QED BY <1>3, <1>4, <1>10, <2>1 DEF ReadCurrent, RowsOf, Steps
<1>11. CASE ListVersions(w)
  <2>1. \A v \in versions : [[t EXCEPT !.newest = v.no] EXCEPT !.step = "served"].step = "served"
    BY <1>1 DEF Task
  <2>2. [t EXCEPT !.step = "served"].step = "served"
    BY <1>1 DEF Task
  <2> QED BY <1>3, <1>11, <2>1, <2>2 DEF ListVersions, Heads, RowsOf, Serve, Steps
<1>12. CASE Put(w)
  BY <1>4, <1>12 DEF Put, Steps
<1>13. CASE AddVersionFailed(w)
  BY <1>2, <1>4, <1>13 DEF AddVersionFailed, Steps
<1> QED
  BY <1>2, <1>5, <1>6, <1>7, <1>8, <1>9, <1>10, <1>11, <1>12, <1>13
  DEF Step, Fault, CleanUp, Commit, InsertDoc, WriteMeta, EraseDoc, EraseMachine,
      WriteMachine, StorageError, CommitLostAck, RollBack, DatabaseError, Abort

(* While a transaction holds its machine, nobody else touches its slot. *)
LEMMA OthersWait ==
    ASSUME TypeInv, NEW w \in Workers, Arrive(w) \/ Step(w) \/ Fault(w)
    PROVE  \A x \in Workers \ {w} : task'[x] = task[x]
<1>1. CASE Arrive(w)
  <2>1. PICK u : Resume(w, u)
    BY <1>1 DEF Arrive, BeginCreate, BeginVersion, BeginRestore, BeginRead,
       BeginSlotChange, BeginMachineChange
  <2> QED BY <2>1, ResumeTask
<1>2. CASE FindDoc(w)
  BY <1>2, ResumeTask DEF FindDoc, Answer
<1> QED BY <1>1, <1>2, OnlyFindDocLearns

(* Where a transaction stands that is about to commit. *)
LEMMA Committing ==
    ASSUME TypeInv, NEW w \in Workers, At(w, "commit")
    PROVE  task[w].doc \in Docs /\ Holds(task[w]) /\ task[w].no \in Nat
           /\ task[w].row \in DocRow /\ task[w].id \in Versions
           /\ task[w].content \in Payloads
BY DEF TypeInv, AllShaped, Shaped, Task, At, Holds, RowSteps, ContentSteps

(***************************************************************************)
(* A step of w leaves the transactions of all others what they rely on.    *)
(***************************************************************************)
SameSlot(d) ==
    /\ docs'[d] # None
    /\ docs'[d].machine = docs[d].machine
    /\ docs'[d].current = docs[d].current

(* A step of one worker leaves what another has locked as it is. *)
LEMMA OthersStayLocked ==
    ASSUME TypeInv, SlotIdentity, NumberIsNext,
           NEW w \in Workers, Arrive(w) \/ Step(w) \/ Fault(w),
           NEW x \in Workers \ {w}, At(x, "commit")
    PROVE  SameSlot(task[x].doc) /\ holder'[docs[task[x].doc].machine] = x
<1> DEFINE t == task[w]
           d == task[x].doc
<1>1. /\ d \in Docs /\ Live(d) /\ docs[d] \in DocRow /\ holder[docs[d].machine] = x
      /\ docs[d].machine \in Machines
  BY Committing DEF NumberIsNext, Live, TypeInv, TypeOK, DocRow
<1>2. x # None
  BY NoneAssumption
<1>3. t \in Task /\ Shaped(t)
  BY DEF TypeInv, AllShaped
<1>4. docs' = docs => SameSlot(d)
  BY <1>1 DEF SameSlot, Live
<1>5. holder' = holder => holder'[docs[d].machine] = x
  BY <1>1
<1>6. holder' = Released(w) => holder'[docs[d].machine] = x
  BY <1>1 DEF Released
<1>7. CASE LockSlot(w)
  BY <1>1, <1>2, <1>4, <1>7 DEF LockSlot, Unlocked, Tables, TypeInv, TypeOK
<1>8. CASE At(w, "commit") /\ BumpVersion(w)
  <2>1. holder[docs[t.doc].machine] = w /\ t.doc # d
    BY <1>1, <1>8 DEF NumberIsNext
  <2>2. docs'[d] = docs[d]
    BY <1>1, <1>8, <2>1 DEF BumpVersion, Bumped, TypeInv, TypeOK
  <2> QED BY <1>1, <1>6, <1>8, <2>2 DEF BumpVersion, SameSlot, Live
<1>9. CASE RollBack(w) \/ Abort(w)
  BY <1>4, <1>6, <1>9 DEF RollBack, Abort, Tables
<1>10. CASE InsertDoc(w)
  <2>1. Creates(t)
    BY <1>3, <1>10 DEF InsertDoc, At, Shaped, Creates
  <2>2. t.doc # d
    BY <2>1, Committing DEF SlotIdentity, CreatedUnknown
  <2> QED BY <1>1, <1>4, <1>5, <1>10, <2>2 DEF InsertDoc, SameSlot, Live, TypeInv, TypeOK
<1>11. CASE WriteMeta(w)
  <2> DEFINE c == IF t.category = None THEN t.row.category ELSE t.category
  <2>1. docs' = docs \/ docs' = [docs EXCEPT ![t.doc] = [docs[t.doc] EXCEPT !.category = c]]
    BY <1>11 DEF WriteMeta, Renamed
  <2> HIDE DEF c
  <2>2. LET r == [docs[d] EXCEPT !.category = c] IN
        r.machine = docs[d].machine /\ r.current = docs[d].current /\ r \in [machine : Machines,
            category : {c}, kind : Kinds, current : Nat]
    BY <1>1 DEF DocRow
  <2>3. t.doc = d => c \in Categories
    BY <1>3, <1>11 DEF WriteMeta, At, Task, Shaped, RowSteps, DocRow, c
  <2>4. t.doc = d => [docs[d] EXCEPT !.category = c] # None
    BY <1>1, <2>3, NoneAssumption DEF DocRow
  <2>5. SameSlot(d)
    BY <1>1, <1>4, <2>1, <2>2, <2>4 DEF SameSlot, Live, TypeInv, TypeOK
  <2> QED BY <1>5, <1>11, <2>5 DEF WriteMeta
<1>12. CASE EraseDoc(w)
  <2>1. Holds(t) /\ Unlocked(t.row.machine)
    BY <1>12 DEF EraseDoc, At, Holds, RowSteps
  <2>2. t.doc # d
    BY <1>1, <1>2, <2>1 DEF SlotIdentity, MachineFixed, Unlocked
  <2> QED BY <1>1, <1>5, <1>12, <2>2 DEF EraseDoc, Cascade, SameSlot, Live
<1>13. CASE EraseMachine(w)
  <2>1. d \notin SlotsOf(t.machine)
    BY <1>1, <1>2, <1>13 DEF EraseMachine, SlotsOf, Unlocked
  <2> QED BY <1>1, <1>5, <1>13, <2>1 DEF EraseMachine, Cascade, SameSlot, Live
<1>14. CASE UNCHANGED <<docs, holder>>
  BY <1>4, <1>5, <1>14
<1> QED
  BY <1>7, <1>8, <1>9, <1>10, <1>11, <1>12, <1>13, <1>14
  DEF Arrive, BeginCreate, BeginVersion, BeginRestore, BeginRead, BeginSlotChange,
      BeginMachineChange, Begin, Step, Fault, FindMachine, FindDoc, FindVersion, Fetch,
      ReadCurrent, ListVersions, Put, CleanUp, Commit, CommitLostAck, WriteMachine,
      StorageError, DatabaseError, Tables

(* Every step leaves the number chosen under the lock the next one. *)
LEMMA NextLocked ==
    ASSUME TypeInv, SlotIdentity, NumberIsNext, [Next]_vars
    PROVE  NumberIsNext'
<1>1. CASE UNCHANGED vars
  BY <1>1 DEF vars, NumberIsNext, At, Live
<1>2. ASSUME NEW w \in Workers, Arrive(w) \/ Step(w) \/ Fault(w)
      PROVE  NumberIsNext'
  <2> DEFINE t == task[w]
  <2>1. \A x \in Workers \ {w} :
          At(x, "commit") => SameSlot(task[x].doc) /\ holder'[docs[task[x].doc].machine] = x
    BY <1>2, OthersStayLocked
  <2>2. \A x \in Workers \ {w} : task'[x] = task[x]
    BY <1>2, OthersWait
  <2>3. \A x \in Workers \ {w} : At(x, "commit")' =>
          /\ Live(task[x].doc)'
          /\ holder'[docs'[task'[x].doc].machine] = x
          /\ task'[x].no = docs'[task'[x].doc].current + 1
    BY <2>1, <2>2 DEF NumberIsNext, At, SameSlot, Live
  <2>4. CASE ~LockSlot(w) \/ AddVersionFailed(w)
    <3>1. task'[w].step # "commit"
      <4>1. CASE AddVersionFailed(w)
        <5>1. CASE Goto(w, "cleanup")
          BY <5>1, GotoTask DEF Steps
        <5>2. CASE Answer(w)
          BY <5>2, AnswerTask DEF Idle
        <5> QED BY <4>1, <5>1, <5>2 DEF AddVersionFailed
      <4> QED BY <1>2, <2>4, <4>1, OnlyLockSlotLocks
    <3> QED BY <2>2, <2>3, <3>1 DEF NumberIsNext, At, Live
  <2>5. CASE LockSlot(w) /\ ~AddVersionFailed(w)
    <3> DEFINE d == docs[t.doc]
               u == [t EXCEPT !.no = d.current + 1, !.step = "commit"]
    <3>1. /\ Live(t.doc) /\ docs' = docs /\ Resume(w, u)
          /\ holder' = [holder EXCEPT ![d.machine] = w]
      BY <2>5 DEF LockSlot, Tables
    <3>2. t \in Task /\ t.doc \in Docs
      BY <2>5 DEF LockSlot, At, TypeInv, AllShaped, Shaped, RowSteps, ContentSteps
    <3>3. d \in DocRow /\ d.machine \in Machines
      BY <3>1, <3>2 DEF Live, TypeInv, TypeOK, DocRow
    <3>4. task'[w] = u /\ u.doc = t.doc /\ u.no = d.current + 1
      BY <3>1, <3>2, ResumeTask DEF Task
    <3>5. holder'[d.machine] = w
      BY <3>1, <3>3 DEF TypeInv, TypeOK
    <3>6. /\ docs'[task'[w].doc] = d
          /\ Live(task[w].doc)'
          /\ holder'[docs'[task'[w].doc].machine] = w
          /\ task'[w].no = docs'[task'[w].doc].current + 1
      BY <3>1, <3>4, <3>5 DEF Live
    <3> QED BY <2>3, <3>6 DEF NumberIsNext, At
  <2> QED BY <2>4, <2>5
<1> QED BY <1>1, <1>2 DEF Next

-----------------------------------------------------------------------------
(***************************************************************************)
(* Histories.                                                              *)
(***************************************************************************)
LEMMA SameCountersHistory ==
    ASSUME TypeInv, HistoryWellFormed, versions' = versions,
           \A d \in Docs : Live(d) => Live(d)' /\ docs'[d].current = docs[d].current,
           \A d \in Docs : Live(d)' => Live(d) \/ docs'[d].current = 0
    PROVE  HistoryWellFormed' /\ HistoryKept
<1>1. \A v \in versions : v.doc \in Docs /\ Live(v.doc)
  BY DEF HistoryWellFormed, VersionsHaveSlots, TypeInv, TypeOK, VersionRow
<1>2. VersionsHaveSlots' /\ NumbersInRange' /\ NumbersUnique' /\ NewestIsCurrent'
  BY <1>1 DEF HistoryWellFormed, VersionsHaveSlots, NumbersInRange, NumbersUnique,
     NewestIsCurrent
<1>3. NoGaps'
  BY DEF HistoryWellFormed, NoGaps
<1>4. HistoryKept
  <2>1. \A d \in Docs : Live(d) => docs[d].current \in Nat
    BY DEF Live, TypeInv, TypeOK, DocRow
  <2> QED BY <2>1 DEF HistoryKept
<1> QED BY <1>2, <1>3, <1>4 DEF HistoryWellFormed

(* Deleting slots with their versions leaves the other histories alone. *)
LEMMA CascadeHistory ==
    ASSUME TypeInv, HistoryWellFormed, NEW D, Cascade(D)
    PROVE  HistoryWellFormed' /\ HistoryKept
<1>1. \A v \in versions : v.doc \in Docs
  BY DEF TypeInv, TypeOK, VersionRow
<1>2. \A d \in Docs : docs'[d] = IF d \in D THEN None ELSE docs[d]
  BY DEF Cascade
<1>3. versions' = {v \in versions : v.doc \notin D}
  BY DEF Cascade
<1>4. VersionsHaveSlots' /\ NumbersInRange' /\ NumbersUnique' /\ NewestIsCurrent'
  BY <1>1, <1>2, <1>3 DEF HistoryWellFormed, VersionsHaveSlots, NumbersInRange,
     NumbersUnique, NewestIsCurrent, Live
<1>5. NoGaps'
  BY <1>2, <1>3 DEF HistoryWellFormed, NoGaps, Live
<1>6. HistoryKept
  <2>1. \A d \in Docs : Live(d) => docs[d].current \in Nat
    BY DEF Live, TypeInv, TypeOK, DocRow
  <2> QED BY <1>1, <1>2, <1>3, <2>1 DEF HistoryKept, Live
<1> QED BY <1>4, <1>5, <1>6 DEF HistoryWellFormed

(* The transaction appends one version and demotes the others.              *)
LEMMA BumpHistory ==
    ASSUME TypeInv, NumberIsNext, HistoryWellFormed,
           NEW w \in Workers, At(w, "commit"), BumpVersion(w)
    PROVE  HistoryWellFormed' /\ HistoryKept
<1> DEFINE t == task[w]
           d == t.doc
           n == t.no
           new == NewVersion(t)
           Dem(v) == IF v.doc = d /\ v.no < n THEN [v EXCEPT !.is_current = FALSE] ELSE v
<1>1. /\ d \in Docs /\ Live(d) /\ docs[d] \in DocRow /\ docs[d].current \in Nat
      /\ n = docs[d].current + 1 /\ n \in Nat \ {0}
  BY Committing DEF NumberIsNext, Live, TypeInv, TypeOK, DocRow
<1>2. new \in VersionRow /\ new.doc = d /\ new.no = n /\ new.is_current = TRUE
  BY Committing DEF NewVersion, VersionRow
<1>3. versions \subseteq VersionRow
  BY DEF TypeInv, TypeOK
<1>4. docs' = [docs EXCEPT ![d] = [docs[d] EXCEPT !.current = n]]
  BY DEF BumpVersion, Bumped
<1>5. /\ docs'[d].current = n
      /\ \A e \in Docs \ {d} : docs'[e] = docs[e]
  BY <1>1, <1>4 DEF TypeInv, TypeOK, DocRow
<1>6. docs'[d] # None
  <2>1. [docs[d] EXCEPT !.current = n] \in DocRow
    BY <1>1 DEF DocRow
  <2> QED BY <1>1, <1>4, <2>1, NoneAssumption DEF TypeInv, TypeOK
<1>7. versions' = {Dem(v) : v \in versions \cup {new}}
  BY DEF BumpVersion, Demoted
<1>8. \A v \in VersionRow :
        /\ Dem(v).id = v.id /\ Dem(v).doc = v.doc /\ Dem(v).no = v.no
        /\ Dem(v).content = v.content /\ Dem(v).no \in Nat /\ Dem(v).doc \in Docs
        /\ Dem(v).is_current = IF v.doc = d /\ v.no < n THEN FALSE ELSE v.is_current
  BY DEF VersionRow
<1> HIDE DEF Dem, new, d, n
<1>9. \A v \in versions : Live(v.doc) /\ v.no \in 1 .. docs[v.doc].current
  BY DEF HistoryWellFormed, VersionsHaveSlots, NumbersInRange
<1>10. \A v \in versions : v.doc = d => v.no < n /\ v.no \in 1 .. n
  BY <1>1, <1>3, <1>9 DEF VersionRow
<1>11. VersionsHaveSlots' /\ NumbersInRange'
  <2>1. ASSUME NEW v \in versions \cup {new}
        PROVE  docs'[v.doc] # None /\ v.no \in 1 .. docs'[v.doc].current
    <3>1. CASE v = new
      BY <1>1, <1>2, <1>5, <1>6, <3>1
    <3>2. CASE v \in versions /\ v.doc = d
      BY <1>5, <1>6, <1>10, <3>2
    <3>3. CASE v \in versions /\ v.doc # d
      BY <1>3, <1>5, <1>9, <3>3 DEF VersionRow, Live
    <3> QED BY <2>1, <3>1, <3>2, <3>3
  <2>2. \A v \in versions \cup {new} : Dem(v).doc = v.doc /\ Dem(v).no = v.no
    BY <1>2, <1>3, <1>8
  <2> QED BY <1>7, <2>1, <2>2 DEF VersionsHaveSlots, NumbersInRange, Live
<1>12. NumbersUnique'
  <2>1. \A u, v \in versions \cup {new} : u.doc = v.doc /\ u.no = v.no => u = v
    BY <1>2, <1>3, <1>10 DEF HistoryWellFormed, NumbersUnique, VersionRow
  <2>2. ASSUME NEW u \in versions', NEW v \in versions', u.doc = v.doc, u.no = v.no
        PROVE  u = v
    <3>1. PICK a \in versions \cup {new} : u = Dem(a)
      BY <1>7
    <3>2. PICK b \in versions \cup {new} : v = Dem(b)
      BY <1>7
    <3>3. a.doc = b.doc /\ a.no = b.no
      BY <1>2, <1>3, <1>8, <2>2, <3>1, <3>2
    <3> QED BY <2>1, <3>1, <3>2, <3>3
  <2> QED BY <2>2 DEF NumbersUnique
<1>13. NoGaps'
  <2>1. ASSUME NEW e \in Docs, Live(e)', NEW k \in 1 .. docs'[e].current
        PROVE  \E v \in versions' : v.doc = e /\ v.no = k
    <3>1. CASE e = d /\ k = n
      BY <1>2, <1>7, <1>8, <3>1
    <3>2. CASE ~(e = d /\ k = n)
      <4>1. Live(e) /\ k \in 1 .. docs[e].current
        BY <1>1, <1>5, <2>1, <3>2 DEF Live
      <4>2. PICK v \in versions : v.doc = e /\ v.no = k
        BY <4>1 DEF HistoryWellFormed, NoGaps
      <4> QED BY <1>3, <1>7, <1>8, <4>2
    <3> QED BY <3>1, <3>2
  <2> QED BY <2>1 DEF NoGaps
<1>14. NewestIsCurrent'
  <2>1. ASSUME NEW v \in versions \cup {new}
        PROVE  Dem(v).is_current <=> Dem(v).no = docs'[Dem(v).doc].current
    <3>0. /\ v \in VersionRow /\ v.no \in Nat /\ v.doc \in Docs /\ n \in Nat
          /\ Dem(v).doc = v.doc /\ Dem(v).no = v.no
          /\ Dem(v).is_current = IF v.doc = d /\ v.no < n THEN FALSE ELSE v.is_current
      BY <1>1, <1>2, <1>3, <1>8 DEF VersionRow
    <3>1. CASE v = new
      BY <1>2, <1>5, <3>0, <3>1
    <3>2. CASE v \in versions /\ v.doc = d
      <4>1. v.no < n
        BY <1>10, <3>2
      <4>2. Dem(v).is_current = FALSE
        BY <3>0, <3>2, <4>1
      <4> QED BY <1>5, <3>0, <3>2, <4>1, <4>2
    <3>3. CASE v \in versions /\ v.doc # d
      <4>1. Dem(v).is_current = v.is_current
        BY <3>0, <3>3
      <4>2. v.is_current <=> v.no = docs[v.doc].current
        BY <3>3 DEF HistoryWellFormed, NewestIsCurrent
      <4> QED BY <1>5, <3>0, <3>3, <4>1, <4>2
    <3> QED BY <2>1, <3>1, <3>2, <3>3
  <2> QED BY <1>7, <2>1 DEF NewestIsCurrent
<1>15. HistoryKept
  <2>1. \A v \in versions : Dem(v) \in versions' /\ Dem(v).id = v.id /\ Dem(v).doc = v.doc
                            /\ Dem(v).no = v.no /\ Dem(v).content = v.content
    BY <1>3, <1>7, <1>8
  <2>2. \A e \in Docs : Live(e) => docs[e].current \in Nat
    BY DEF Live, TypeInv, TypeOK, DocRow
  <2>3. \A e \in Docs : Live(e) => docs[e].current <= docs'[e].current
    BY <1>1, <1>5, <2>2
  <2> QED BY <2>1, <2>3 DEF HistoryKept
<1> QED BY <1>11, <1>12, <1>13, <1>14, <1>15 DEF HistoryWellFormed

(* Every step keeps histories well formed and their past unchanged. *)
LEMMA NextHistory ==
    ASSUME TypeInv, SlotIdentity, NumberIsNext, HistoryWellFormed, [Next]_vars
    PROVE  HistoryWellFormed' /\ HistoryKept
<1>1. CASE UNCHANGED <<docs, versions>>
  BY <1>1, SameCountersHistory DEF Live
<1>2. ASSUME NEW w \in Workers, Arrive(w) \/ Step(w) \/ Fault(w)
      PROVE  HistoryWellFormed' /\ HistoryKept
  <2> DEFINE t == task[w]
  <2>1. t \in Task /\ Shaped(t)
    BY DEF TypeInv, AllShaped
  <2>2. CASE Commit(w) \/ CommitLostAck(w)
    BY <2>2, BumpHistory DEF Commit, CommitLostAck
  <2>3. CASE EraseDoc(w) \/ EraseMachine(w)
    BY <2>3, CascadeHistory DEF EraseDoc, EraseMachine
  <2>4. CASE InsertDoc(w)
    <3>1. ~Live(t.doc) /\ t.doc \in Docs /\ t.row.current = 0
      BY <2>1, <2>4 DEF InsertDoc, At, Shaped, SlotIdentity, CreatedAbsent, Creates
    <3>2. docs' = docs \/ docs' = [docs EXCEPT ![t.doc] = t.row]
      BY <2>4 DEF InsertDoc
    <3>3. versions' = versions
      BY <2>4 DEF InsertDoc
    <3> QED BY <3>1, <3>2, <3>3, SameCountersHistory DEF Live, TypeInv, TypeOK
  <2>5. CASE WriteMeta(w)
    <3> DEFINE c == IF t.category = None THEN t.row.category ELSE t.category
    <3>1. t.doc \in Docs /\ c \in Categories
      BY <2>1, <2>5 DEF WriteMeta, At, Task, Shaped, RowSteps, DocRow
    <3>2. docs' = docs \/
          (Live(t.doc) /\ docs' = [docs EXCEPT ![t.doc] = [docs[t.doc] EXCEPT !.category = c]])
      BY <2>5 DEF WriteMeta, Renamed
    <3> HIDE DEF c
    <3>3. Live(t.doc) => docs[t.doc] \in DocRow
      BY <3>1 DEF Live, TypeInv, TypeOK
    <3>4. LET r == [docs[t.doc] EXCEPT !.category = c] IN
          Live(t.doc) => r.current = docs[t.doc].current /\ r # None
      BY <3>1, <3>3, NoneAssumption DEF DocRow
    <3>5. versions' = versions
      BY <2>5 DEF WriteMeta
    <3> QED BY <3>1, <3>2, <3>4, <3>5, SameCountersHistory DEF Live, TypeInv, TypeOK
  <2> QED
    BY <1>1, <1>2, <2>2, <2>3, <2>4, <2>5
    DEF Arrive, BeginCreate, BeginVersion, BeginRestore, BeginRead, BeginSlotChange,
        BeginMachineChange, Begin, Step, Fault, FindMachine, FindDoc, FindVersion, Fetch,
        ReadCurrent, ListVersions, Put, CleanUp, LockSlot, WriteMachine, StorageError,
        RollBack, DatabaseError, Abort, Tables
<1> QED BY <1>1, <1>2 DEF Next, vars

-----------------------------------------------------------------------------
(* The invariant holds at the start. *)
LEMMA InitInv == Init => IInv
<1> SUFFICES ASSUME Init PROVE IInv
  OBVIOUS
<1>1. \A w \in Workers : task[w] = Idle
  BY DEF Init
<1>2. TypeInv
  BY <1>1, IdleShaped DEF Init, TypeInv, TypeOK, AllShaped
<1>3. SlotIdentity
  BY <1>1, IdleKnowsNothing DEF Init, SlotIdentity, LiveIssued, KnownIssued,
     CreatedAbsent, CreatedUnknown, MachineFixed, Live
<1>4. NumberIsNext
  BY <1>1 DEF NumberIsNext, At, Idle
<1>5. HistoryWellFormed
  BY DEF Init, HistoryWellFormed, VersionsHaveSlots, NumbersInRange, NumbersUnique,
     NoGaps, NewestIsCurrent, Live
<1> QED BY <1>2, <1>3, <1>4, <1>5 DEF IInv

(* Every step keeps the invariant, and the past of every history. *)
LEMMA NextInv == IInv /\ [Next]_vars => IInv' /\ HistoryKept
BY NextType, NextSlots, NextLocked, NextHistory DEF IInv

(* The inductive invariant holds throughout. *)
THEOREM InvariantHolds == Spec => []IInv
<1>1. Init => IInv
  BY InitInv
<1>2. IInv /\ [Next]_vars => IInv'
  BY NextInv
<1> QED BY <1>1, <1>2, PTL DEF Spec

(***************************************************************************)
(* Every table, lock and handler local always has its type.                *)
(***************************************************************************)
THEOREM TypeCorrect == Spec => []TypeOK
<1>1. IInv => TypeOK
  BY DEF IInv, TypeInv
<1> QED BY <1>1, InvariantHolds, PTL

(* What a step of w does to the locks: it leaves them alone, gives w's own *)
(* ones back, or takes one that nobody holds.                              *)
LEMMA StepLocks ==
    ASSUME NEW w \in Workers, Arrive(w) \/ Step(w) \/ Fault(w)
    PROVE  \/ holder' = holder /\ ~At(w, "commit")
           \/ holder' = Released(w)
           \/ LockSlot(w) /\ Live(task[w].doc)
<1>1. CASE Arrive(w)
  BY <1>1 DEF Arrive, BeginCreate, BeginVersion, BeginRestore, BeginRead, BeginSlotChange,
     BeginMachineChange, Begin, Running, At
<1>2. CASE Step(w) /\ ~LockSlot(w)
  BY <1>2 DEF Step, FindMachine, FindDoc, FindVersion, Fetch, ReadCurrent, ListVersions,
     Put, CleanUp, Commit, BumpVersion, InsertDoc, WriteMeta, EraseDoc, EraseMachine,
     WriteMachine, Cascade, At
<1>3. CASE LockSlot(w)
  BY <1>3 DEF LockSlot, At
<1>4. CASE Fault(w)
  BY <1>4 DEF Fault, StorageError, CommitLostAck, BumpVersion, RollBack, DatabaseError,
     AutocommitSteps, Abort, At
<1> QED BY <1>1, <1>2, <1>3, <1>4

(* No step leaves a lock behind. *)
LEMMA LocksStayOwned ==
    ASSUME IInv, IInv', LocksGivenBack, [Next]_vars
    PROVE  LocksGivenBack'
<1>1. CASE UNCHANGED vars
  BY <1>1 DEF vars, LocksGivenBack, At
<1>2. ASSUME NEW w \in Workers, Arrive(w) \/ Step(w) \/ Fault(w)
      PROVE  LocksGivenBack'
  <2>1. ASSUME NEW m \in Machines, NEW x \in Workers \ {w}, holder[m] = x
        PROVE  At(x, "commit")' /\ docs'[task'[x].doc].machine = m
    <3>1. At(x, "commit") /\ docs[task[x].doc].machine = m
      BY <2>1 DEF LocksGivenBack
    <3>2. SameSlot(task[x].doc)
      BY <1>2, <3>1, OthersStayLocked DEF IInv
    <3>3. task'[x] = task[x]
      BY <1>2, OthersWait DEF IInv
    <3> QED BY <3>1, <3>2, <3>3 DEF At, SameSlot
  <2>2. \A m \in Machines : holder[m] = w => At(w, "commit")
    BY DEF LocksGivenBack
  <2>3. w # None
    BY NoneAssumption
  <2>4. CASE holder' = holder /\ ~At(w, "commit")
    BY <2>1, <2>2, <2>4 DEF LocksGivenBack
  <2>5. CASE holder' = Released(w)
    BY <2>1, <2>3, <2>5, NoneAssumption DEF Released, LocksGivenBack
  <2>6. CASE LockSlot(w) /\ Live(task[w].doc)
    <3> DEFINE t == task[w]
               d == docs[t.doc]
               u == [t EXCEPT !.no = d.current + 1, !.step = "commit"]
    <3>1. /\ docs' = docs /\ Resume(w, u) /\ ~At(w, "commit")
          /\ holder' = [holder EXCEPT ![d.machine] = w]
      BY <2>6 DEF LockSlot, Tables, At
    <3>2. t \in Task
      BY DEF IInv, TypeInv, AllShaped
    <3>3. u.step = "commit" /\ u.doc = t.doc
      BY <3>2 DEF Task
    <3>4. task'[w] = u
      BY <3>1, ResumeTask DEF IInv
    <3>5. \A m \in Machines : holder'[m] = IF m = d.machine THEN w ELSE holder[m]
      BY <3>1 DEF IInv, TypeInv, TypeOK
    <3> HIDE DEF u
    <3>6. ASSUME NEW m \in Machines, NEW x \in Workers, holder'[m] = x
          PROVE  At(x, "commit")' /\ docs'[task'[x].doc].machine = m
      <4>1. CASE x = w
        <5>1. m = d.machine
          BY <2>2, <3>1, <3>5, <3>6, <4>1
        <5> QED BY <3>1, <3>3, <3>4, <4>1, <5>1 DEF At
      <4>2. CASE x # w
        <5>1. holder[m] = x
          BY <3>5, <3>6, <4>2
        <5> QED BY <2>1, <4>2, <5>1
      <4> QED BY <4>1, <4>2
    <3> QED BY <3>6 DEF LocksGivenBack
  <2> QED BY <1>2, <2>4, <2>5, <2>6, StepLocks
<1> QED BY <1>1, <1>2 DEF Next

(***************************************************************************)
(* A transaction of add_version that is about to commit still holds its    *)
(* machine's lock, its slot is still there and its number is still next;   *)
(* and nobody else holds a lock, whichever transactions failed, were       *)
(* dropped or lost the answer to their COMMIT.                             *)
(***************************************************************************)
THEOREM LockProtectsNumber == Spec => []LockedNumberIsNext
<1>1. Init => LocksGivenBack
  BY NoneAssumption DEF Init, LocksGivenBack
<1>2. IInv /\ IInv' /\ LocksGivenBack /\ [Next]_vars => LocksGivenBack'
  BY LocksStayOwned
<1>3. IInv /\ LocksGivenBack => LockedNumberIsNext
  BY DEF IInv, LockedNumberIsNext
<1> QED BY <1>1, <1>2, <1>3, InvariantHolds, PTL DEF Spec

(***************************************************************************)
(* Histories have no duplicate and no missing number, exactly the newest   *)
(* version is current, and no version outlives its slot.                   *)
(***************************************************************************)
THEOREM HistoriesWellFormed == Spec => []HistoryWellFormed
<1>1. IInv => HistoryWellFormed
  BY DEF IInv
<1> QED BY <1>1, InvariantHolds, PTL

(***************************************************************************)
(* No step ever changes a version's payload, number or slot, loses a       *)
(* version of a living slot or lowers a counter.                           *)
(***************************************************************************)
THEOREM HistoriesImmutable == Spec => HistoryImmutable
<1>1. IInv /\ [Next]_vars => [HistoryKept]_vars
  BY NextInv
<1> QED BY <1>1, InvariantHolds, PTL DEF Spec, HistoryImmutable
=============================================================================
