------------------------------ MODULE Documents ------------------------------
(***************************************************************************)
(* Document slots, their version history, the blobs behind file versions   *)
(* and the photo pointer of a machine, for one organisation.               *)
(*                                                                         *)
(* Every HTTP request is an asynchronous task (a worker here).  Each call  *)
(* of a repository or of the blob store is one step, and tasks interleave  *)
(* between them.  Repository statements autocommit, except add_version,    *)
(* which is one InnoDB transaction: it locks the slot and its machine,     *)
(* and its four writes become visible together at COMMIT.                  *)
(*                                                                         *)
(* Data is abstract: a payload stands for the bytes of a file or for a     *)
(* JSON text, and its SHA-256 is the payload itself (no collisions).  A    *)
(* blob key contains the version's UUID, so the UUID is the key.           *)
(***************************************************************************)
EXTENDS Integers, FiniteSets, Sequences

CONSTANTS
    Machines,    \* machine ids; every machine exists at the start
    Docs,        \* UUIDs available for slots (a bound on create_slot calls)
    Versions,    \* UUIDs available for versions (a bound on add_version calls)
    Payloads,    \* distinguishable file contents / JSON texts
    Workers,     \* request tasks that run at the same time
    Operations,  \* the endpoints that are called, a subset of AllOperations
    Faults,      \* the failures that may happen, a subset of AllFaults
    None         \* SQL NULL, a missing row, Option::None

AllOperations ==
    {"create_slot", "add_file_version", "add_json_version", "restore", "download",
     "get", "rename", "delete", "delete_machine", "update_machine"}

\* abort: the handler future is dropped (client gone, process killed) at an await.
\* storage: a call of the blob store fails.
\* database: a statement fails and its transaction is rolled back.
\* lost_ack: COMMIT takes effect but the caller gets an error instead of the answer.
AllFaults == {"abort", "storage", "database", "lost_ack"}

Categories == {"photo", "other"}
Kinds == {"file", "json"}
DocRow == [machine : Machines, category : Categories, kind : Kinds, current : Nat]

ASSUME OperationsAssumption == Operations \subseteq AllOperations
ASSUME FaultsAssumption == Faults \subseteq AllFaults
ASSUME NoneAssumption ==
    /\ None \notin Machines \cup Docs \cup Versions \cup Payloads \cup Workers
    /\ None \notin DocRow
    /\ None \notin AllOperations
    /\ None \notin Seq(Payloads)
ASSUME IdsAssumption == Docs \cap Versions = {}

VARIABLES
    machines,  \* ids of the rows of table machines
    photo,     \* machines.primary_photo_version_id (it has no foreign key)
    docs,      \* table documents, None where there is no row
    versions,  \* the rows of table document_versions
    blobs,     \* the blob store: the bytes under each key, or None
    issued,    \* every UUID drawn so far
    holder,    \* the transaction that has locked a machine row and its slots
    task       \* the request each worker serves, with the handler's locals

vars == <<machines, photo, docs, versions, blobs, issued, holder, task>>

VersionRow == [id : Versions, doc : Docs, no : Nat, is_current : BOOLEAN,
               content : Payloads]

Steps == {"idle", "find_machine", "insert_doc", "find_doc", "find_version", "fetch",
          "put", "lock", "commit", "cleanup", "read_current", "list", "write_meta",
          "erase_doc", "erase_machine", "write_machine", "served"}

Task == [op : AllOperations \cup {None},
         step : Steps,
         machine : Machines \cup {None},           \* machine named by the request
         doc : Docs \cup {None},                   \* slot named by the request
         row : DocRow \cup {None},                 \* slot row read, or to insert
         category : Categories \cup {None},        \* PATCH body of rename
         id : Versions \cup {None},                \* NewVersionInput.id
         key : Versions \cup {None},               \* storage_key of the version read
         content : Payloads \cup {None},           \* checksum, or JSON text
         bytes : Payloads \cup {None},             \* file bytes in hand
         no : Nat,                                 \* version number at hand
         newest : Nat,                             \* head of the listed history
         pointer : Versions \cup {None}]           \* photo column of the machine read

Idle == [op |-> None, step |-> "idle", machine |-> None, doc |-> None, row |-> None,
         category |-> None, id |-> None, key |-> None, content |-> None,
         bytes |-> None, no |-> 0, newest |-> 0, pointer |-> None]

(* Tables, blob store, locks and request locals have their types. *)
TypeOK ==
    /\ machines \subseteq Machines
    /\ photo \in [Machines -> Versions \cup {None}]
    /\ docs \in [Docs -> DocRow \cup {None}]
    /\ versions \subseteq VersionRow
    /\ blobs \in [Versions -> Payloads \cup {None}]
    /\ issued \subseteq Docs \cup Versions
    /\ holder \in [Machines -> Workers \cup {None}]
    /\ task \in [Workers -> Task]

Init ==
    /\ machines = Machines
    /\ photo = [m \in Machines |-> None]
    /\ docs = [d \in Docs |-> None]
    /\ versions = {}
    /\ blobs = [v \in Versions |-> None]
    /\ issued = {}
    /\ holder = [m \in Machines |-> None]
    /\ task = [w \in Workers |-> Idle]

-----------------------------------------------------------------------------
(* Control of a request.                                                   *)

Live(d) == docs[d] # None

\* Mutant: rows are read without FOR UPDATE and nobody waits.
MutantUnlocked(m) == TRUE

Unlocked(m) == holder[m] = None
RowsOf(d) == {v \in versions : v.doc = d}

At(w, s) == task[w].step = s
Running(w) == task[w].step \notin {"idle", "served"}
Resume(w, t) == task' = [task EXCEPT ![w] = t]
Goto(w, s) == task' = [task EXCEPT ![w].step = s]
\* The response is sent; the handler's locals are gone.
Answer(w) == Resume(w, Idle)
\* As Answer, for a response whose content a property speaks of.
Serve(w, t) == Resume(w, [t EXCEPT !.step = "served"])

Released(w) == [m \in Machines |-> IF holder[m] = w THEN None ELSE holder[m]]

Tables == <<machines, photo, docs, versions>>

(***************************************************************************)
(* A request arrives.  The UUIDs of the slot or version it may create are  *)
(* drawn here; the handler draws them later, which nothing can tell.       *)
(* require_role refuses a request before it touches anything, so only      *)
(* permitted requests appear.                                              *)
(***************************************************************************)
Begin(w, op) ==
    /\ op \in Operations
    /\ ~Running(w)
    /\ UNCHANGED <<Tables, blobs, holder>>

BeginCreate(w) ==
    \E m \in Machines, c \in Categories, k \in Kinds, d \in Docs \ issued :
        /\ Begin(w, "create_slot")
        /\ issued' = issued \cup {d}
        /\ Resume(w, [Idle EXCEPT !.op = "create_slot", !.step = "find_machine",
                        !.machine = m, !.doc = d,
                        !.row = [machine |-> m, category |-> c, kind |-> k,
                                 current |-> 0]])

BeginVersion(w, op) ==
    \E d \in Docs \cap issued, v \in Versions \ issued, p \in Payloads :
        /\ Begin(w, op)
        /\ issued' = issued \cup {v}
        /\ Resume(w, [Idle EXCEPT !.op = op, !.step = "find_doc", !.doc = d, !.id = v,
                        !.content = p, !.bytes = IF op = "add_file_version" THEN p ELSE None])

BeginRestore(w) ==
    \E d \in Docs \cap issued, v \in Versions \ issued, n \in 1 .. Cardinality(Versions) :
        /\ Begin(w, "restore")
        /\ issued' = issued \cup {v}
        /\ Resume(w, [Idle EXCEPT !.op = "restore", !.step = "find_doc", !.doc = d,
                        !.id = v, !.no = n])

BeginRead(w) ==
    \E d \in Docs \cap issued :
        /\ \/ /\ Begin(w, "get")
              /\ Resume(w, [Idle EXCEPT !.op = "get", !.step = "find_doc", !.doc = d])
           \/ \E n \in 1 .. Cardinality(Versions) :
                /\ Begin(w, "download")
                /\ Resume(w, [Idle EXCEPT !.op = "download", !.step = "find_doc",
                                !.doc = d, !.no = n])
        /\ UNCHANGED issued

BeginSlotChange(w) ==
    \E d \in Docs \cap issued :
        /\ \/ \E c \in Categories \cup {None} :
                /\ Begin(w, "rename")
                /\ Resume(w, [Idle EXCEPT !.op = "rename", !.step = "find_doc",
                                !.doc = d, !.category = c])
           \/ /\ Begin(w, "delete")
              /\ Resume(w, [Idle EXCEPT !.op = "delete", !.step = "find_doc", !.doc = d])
        /\ UNCHANGED issued

BeginMachineChange(w) ==
    \E m \in Machines, op \in {"delete_machine", "update_machine"} :
        /\ Begin(w, op)
        /\ Resume(w, [Idle EXCEPT !.op = op, !.step = "find_machine", !.machine = m])
        /\ UNCHANGED issued

Arrive(w) ==
    \/ BeginCreate(w)
    \/ BeginVersion(w, "add_file_version")
    \/ BeginVersion(w, "add_json_version")
    \/ BeginRestore(w)
    \/ BeginRead(w)
    \/ BeginSlotChange(w)
    \/ BeginMachineChange(w)

-----------------------------------------------------------------------------
(* Reads.                                                                  *)

\* machines.find_by_id.  update, set_tier and rotate_public_code keep the whole
\* row, photo pointer included, to write it back.
FindMachine(w) ==
    LET t == task[w] IN
    /\ At(w, "find_machine")
    /\ \/ /\ t.machine \notin machines
          /\ Answer(w)
       \/ /\ t.machine \in machines
          /\ Resume(w, [t EXCEPT
                !.pointer = IF t.op = "update_machine" THEN photo[t.machine] ELSE None,
                !.step = CASE t.op = "create_slot" -> "insert_doc"
                           [] t.op = "delete_machine" -> "erase_machine"
                           [] OTHER -> "write_machine"])
    /\ UNCHANGED <<Tables, blobs, issued, holder>>

\* Operations that a slot of the other storage kind refuses.
KindOf(op) ==
    CASE op \in {"add_file_version", "download"} -> {"file"}
      [] op = "add_json_version" -> {"json"}
      [] OTHER -> Kinds

\* Mutant: the row is committed without storing the bytes first.
MutantAfterFindDoc(op) ==
    CASE op \in {"add_file_version", "add_json_version"} -> "lock"
      [] op \in {"restore", "download"} -> "find_version"
      [] op = "get" -> "read_current"
      [] op = "rename" -> "write_meta"
      [] OTHER -> "erase_doc"

AfterFindDoc(op) ==
    CASE op = "add_file_version" -> "put"
      [] op = "add_json_version" -> "lock"
      [] op \in {"restore", "download"} -> "find_version"
      [] op = "get" -> "read_current"
      [] op = "rename" -> "write_meta"
      [] OTHER -> "erase_doc"

\* docs.find_by_id, then the check of storage_kind.
FindDoc(w) ==
    LET t == task[w] IN
    /\ At(w, "find_doc")
    /\ \/ /\ Live(t.doc) => docs[t.doc].kind \notin KindOf(t.op)
          /\ Answer(w)
       \/ /\ Live(t.doc)
          /\ docs[t.doc].kind \in KindOf(t.op)
          /\ Resume(w, [t EXCEPT !.row = docs[t.doc], !.step = AfterFindDoc(t.op)])
    /\ UNCHANGED <<Tables, blobs, issued, holder>>

\* Mutant: a restored JSON version leaves its payload out.
MutantLoaded(t, v) ==
    [t EXCEPT !.content = IF t.row.kind = "file" THEN v.content ELSE None,
              !.key = IF t.row.kind = "file" THEN v.id ELSE None,
              !.step = IF t.row.kind = "file" THEN "fetch" ELSE "lock"]

\* The version a restore or download goes on with: its content, and its key if a file.
Loaded(t, v) ==
    [t EXCEPT !.content = v.content,
              !.key = IF t.row.kind = "file" THEN v.id ELSE None,
              !.step = IF t.row.kind = "file" THEN "fetch" ELSE "lock"]

\* docs.find_version, for restore and download.
FindVersion(w) ==
    LET t == task[w]
        found == {v \in RowsOf(t.doc) : v.no = t.no} IN
    /\ At(w, "find_version")
    /\ \/ /\ found = {}
          /\ Answer(w)
       \/ \E v \in found :
            Resume(w, Loaded(t, v))
    /\ UNCHANGED <<Tables, blobs, issued, holder>>

\* storage.get: download answers with the bytes, restore copies them on.
Fetch(w) ==
    LET t == task[w] IN
    /\ At(w, "fetch")
    /\ \/ /\ blobs[t.key] = None
          /\ Answer(w)
       \/ /\ blobs[t.key] # None
          /\ IF t.op = "download"
             THEN Serve(w, [t EXCEPT !.bytes = blobs[t.key]])
             ELSE Resume(w, [t EXCEPT !.bytes = blobs[t.key], !.step = "put"])
    /\ UNCHANGED <<Tables, blobs, issued, holder>>

\* get: the second of its three reads, the row flagged is_current.
ReadCurrent(w) ==
    LET t == task[w]
        current == {v \in RowsOf(t.doc) : v.is_current} IN
    /\ At(w, "read_current")
    /\ \/ /\ current = {}
          /\ Goto(w, "list")
       \/ \E v \in current : Resume(w, [t EXCEPT !.no = v.no, !.step = "list"])
    /\ UNCHANGED <<Tables, blobs, issued, holder>>

\* Mutant: the history is listed oldest first.
MutantHeads(rows) == {v \in rows : \A u \in rows : v.no <= u.no}

\* The head of the history: ORDER BY version_no DESC.
Heads(rows) == {v \in rows : \A u \in rows : u.no <= v.no}

\* get: the third read, the history with the newest version first.
ListVersions(w) ==
    LET t == task[w]
        rows == RowsOf(t.doc) IN
    /\ At(w, "list")
    /\ \/ /\ rows = {}
          /\ Serve(w, t)
       \/ \E v \in Heads(rows) : Serve(w, [t EXCEPT !.newest = v.no])
    /\ UNCHANGED <<Tables, blobs, issued, holder>>

-----------------------------------------------------------------------------
(* Blob store.                                                             *)

\* Mutant: the key lacks the version's UUID, so a slot's uploads share one key.
MutantStored(t) ==
    [v \in Versions |-> IF v = t.id \/ \E r \in RowsOf(t.doc) : r.id = v
                       THEN t.bytes ELSE blobs[v]]

Stored(t) == [blobs EXCEPT ![t.id] = t.bytes]

\* storage.put, always under a key that contains a UUID of its own.
Put(w) ==
    LET t == task[w] IN
    /\ At(w, "put")
    /\ blobs' = Stored(t)
    /\ Goto(w, "lock")
    /\ UNCHANGED <<Tables, issued, holder>>

\* storage.delete after a failed add_version; its own failure is ignored.
CleanUp(w) ==
    /\ At(w, "cleanup")
    /\ blobs' = [blobs EXCEPT ![task[w].id] = None]
    /\ Answer(w)
    /\ UNCHANGED <<Tables, issued, holder>>

\* A call of the blob store fails.  A failed put may leave the bytes behind.
StorageError(w) ==
    LET t == task[w] IN
    /\ "storage" \in Faults
    /\ t.step \in {"fetch", "put", "cleanup"}
    /\ \/ UNCHANGED blobs
       \/ t.step = "put" /\ blobs' = Stored(t)
    /\ Answer(w)
    /\ UNCHANGED <<Tables, issued, holder>>

-----------------------------------------------------------------------------
(* add_version: the version-bump transaction.                              *)

\* Mutant: no upload cleans up.
MutantAddVersionFailed(w) == Answer(w)

\* What the caller does with an error of add_version.  restore only reports it.
AddVersionFailed(w) ==
    IF task[w].op = "add_file_version" THEN Goto(w, "cleanup") ELSE Answer(w)

\* SELECT ... FOR UPDATE of the slot joined with its machine.
LockSlot(w) ==
    LET t == task[w]
        d == docs[t.doc] IN
    /\ At(w, "lock")
    /\ \/ /\ ~Live(t.doc)
          /\ AddVersionFailed(w)
          /\ UNCHANGED holder
       \/ /\ Live(t.doc)
          /\ Unlocked(d.machine)
          /\ holder' = [holder EXCEPT ![d.machine] = w]
          /\ Resume(w, [t EXCEPT !.no = d.current + 1, !.step = "commit"])
    /\ UNCHANGED <<Tables, blobs, issued>>

NewVersion(t) ==
    [id |-> t.id, doc |-> t.doc, no |-> t.no, is_current |-> TRUE, content |-> t.content]

\* Mutant: the older versions stay current.
MutantDemoted(rows, d, next) == rows

\* Mutant: the older versions are pruned.
MutantPruned(rows, d, next) == {v \in rows : v.doc # d \/ v.no >= next}

Demoted(rows, d, next) ==
    {IF v.doc = d /\ v.no < next THEN [v EXCEPT !.is_current = FALSE] ELSE v : v \in rows}

\* Mutant: JSON versions of photo slots repoint too.
MutantRepoints(t) == t.row.category = "photo"

\* Mutant: only the first version of a photo slot repoints.
MutantRepointsFirst(t) ==
    t.row.category = "photo" /\ t.row.kind = "file" /\ t.row.current = 0

\* primary_photo_for: a file version of a slot that was a photo slot when read.
Repoints(t) == t.row.category = "photo" /\ t.row.kind = "file"

Bumped(t) == [docs EXCEPT ![t.doc].current = t.no]

\* The four writes of the transaction, and its end.
BumpVersion(w) ==
    LET t == task[w] IN
    /\ versions' = Demoted(versions \cup {NewVersion(t)}, t.doc, t.no)
    /\ docs' = Bumped(t)
    /\ photo' = IF Repoints(t) THEN [photo EXCEPT ![t.row.machine] = t.id] ELSE photo
    /\ holder' = Released(w)
    /\ UNCHANGED <<machines, blobs, issued>>

Commit(w) ==
    /\ At(w, "commit")
    /\ BumpVersion(w)
    /\ Answer(w)

\* The connection breaks after the server committed: add_version returns an error.
CommitLostAck(w) ==
    /\ "lost_ack" \in Faults
    /\ At(w, "commit")
    /\ BumpVersion(w)
    /\ AddVersionFailed(w)

\* Mutant: a failed transaction keeps its connection, and its locks.
MutantRollBack(w) ==
    /\ "database" \in Faults
    /\ task[w].step \in {"lock", "commit"}
    /\ AddVersionFailed(w)
    /\ UNCHANGED <<Tables, blobs, issued, holder>>

\* BEGIN or a statement of the transaction fails (lock wait timeout, deadlock victim,
\* lost connection): everything is rolled back.
RollBack(w) ==
    /\ "database" \in Faults
    /\ task[w].step \in {"lock", "commit"}
    /\ AddVersionFailed(w)
    /\ holder' = Released(w)
    /\ UNCHANGED <<Tables, blobs, issued>>

-----------------------------------------------------------------------------
(* Autocommit writes.  Each waits for the transaction that has locked the  *)
(* machine row: they write or share-lock it, or the slot rows behind it.   *)

\* INSERT of a slot; the foreign key requires the machine.
InsertDoc(w) ==
    LET t == task[w] IN
    /\ At(w, "insert_doc")
    /\ Unlocked(t.machine)
    /\ docs' = IF t.machine \in machines THEN [docs EXCEPT ![t.doc] = t.row] ELSE docs
    /\ Answer(w)
    /\ UNCHANGED <<machines, photo, versions, blobs, issued, holder>>

\* Mutant: the whole row is written back, counter included.
MutantRenamed(t) ==
    [docs EXCEPT ![t.doc] = [t.row EXCEPT
        !.category = IF t.category = None THEN @ ELSE t.category]]

\* Only category and name are SET; what the PATCH left out is written as read.
Renamed(t) ==
    [docs EXCEPT ![t.doc].category =
        IF t.category = None THEN t.row.category ELSE t.category]

\* docs.update_meta
WriteMeta(w) ==
    LET t == task[w] IN
    /\ At(w, "write_meta")
    /\ Unlocked(t.row.machine)
    /\ docs' = IF Live(t.doc) THEN Renamed(t) ELSE docs
    /\ Answer(w)
    /\ UNCHANGED <<machines, photo, versions, blobs, issued, holder>>

\* Mutant: the blobs of deleted slots are deleted too, whoever still reads them.
MutantSwept(gone) ==
    LET swept == {v.id : v \in {u \in versions : u.doc \in gone}} IN
    /\ docs' = [d \in Docs |-> IF d \in gone THEN None ELSE docs[d]]
    /\ versions' = {v \in versions : v.doc \notin gone}
    /\ blobs' = [v \in Versions |-> IF v \in swept THEN None ELSE blobs[v]]
    /\ UNCHANGED <<issued, holder>>

\* Deleting slots takes their versions with them, and nothing else.
Cascade(gone) ==
    /\ docs' = [d \in Docs |-> IF d \in gone THEN None ELSE docs[d]]
    /\ versions' = {v \in versions : v.doc \notin gone}
    /\ UNCHANGED <<blobs, issued, holder>>

EraseDoc(w) ==
    LET t == task[w] IN
    /\ At(w, "erase_doc")
    /\ Unlocked(t.row.machine)
    /\ Cascade({t.doc})
    /\ Answer(w)
    /\ UNCHANGED <<machines, photo>>

SlotsOf(m) == {d \in Docs : Live(d) /\ docs[d].machine = m}

EraseMachine(w) ==
    LET m == task[w].machine IN
    /\ At(w, "erase_machine")
    /\ Unlocked(m)
    /\ Cascade(SlotsOf(m))
    /\ machines' = machines \ {m}
    /\ photo' = [photo EXCEPT ![m] = None]
    /\ Answer(w)

\* machines.update writes every column as read; no row is no error.
WriteMachine(w) ==
    LET t == task[w] IN
    /\ At(w, "write_machine")
    /\ Unlocked(t.machine)
    /\ photo' = IF t.machine \in machines
                THEN [photo EXCEPT ![t.machine] = t.pointer] ELSE photo
    /\ Answer(w)
    /\ UNCHANGED <<machines, docs, versions, blobs, issued, holder>>

AutocommitSteps ==
    {"find_machine", "insert_doc", "find_doc", "find_version", "read_current", "list",
     "write_meta", "erase_doc", "erase_machine", "write_machine"}

\* An autocommit statement fails; the handler reports it and has nothing to undo.
DatabaseError(w) ==
    /\ "database" \in Faults
    /\ task[w].step \in AutocommitSteps
    /\ Answer(w)
    /\ UNCHANGED <<Tables, blobs, issued, holder>>

\* The handler future is dropped at an await; an open transaction is rolled back.
Abort(w) ==
    /\ "abort" \in Faults
    /\ Running(w)
    /\ Answer(w)
    /\ holder' = Released(w)
    /\ UNCHANGED <<Tables, blobs, issued>>

-----------------------------------------------------------------------------
Step(w) ==
    \/ FindMachine(w)
    \/ FindDoc(w)
    \/ FindVersion(w)
    \/ Fetch(w)
    \/ ReadCurrent(w)
    \/ ListVersions(w)
    \/ Put(w)
    \/ CleanUp(w)
    \/ LockSlot(w)
    \/ Commit(w)
    \/ InsertDoc(w)
    \/ WriteMeta(w)
    \/ EraseDoc(w)
    \/ EraseMachine(w)
    \/ WriteMachine(w)

Fault(w) ==
    \/ StorageError(w)
    \/ CommitLostAck(w)
    \/ RollBack(w)
    \/ DatabaseError(w)
    \/ Abort(w)

Next == \E w \in Workers : Arrive(w) \/ Step(w) \/ Fault(w)

Spec == Init /\ [][Next]_vars

(***************************************************************************)
(* Fairness: the runtime polls every task, every statement ends, and       *)
(* InnoDB grants row locks to waiters in the order they came, so a request *)
(* that can move again and again does move.  No request need arrive and no *)
(* fault need happen.                                                      *)
(***************************************************************************)
FairSpec == Spec /\ \A w \in Workers : SF_vars(Step(w))

-----------------------------------------------------------------------------
(* Properties.                                                             *)

(***************************************************************************)
(* What a transaction relies on between its locking read and its commit:   *)
(* it alone holds the machine of its slot, the slot is still there, and    *)
(* the number it chose is still the next one.  add_version decides the     *)
(* number "inside the locked transaction so concurrent uploads serialize". *)
(* Conversely a lock is only ever held by such a transaction: one that     *)
(* failed, was dropped, or lost the answer to its COMMIT has given it      *)
(* back, so who waits, waits for somebody who waits for nobody.            *)
(***************************************************************************)
NumberIsNext ==
    \A w \in Workers : At(w, "commit") =>
        /\ Live(task[w].doc)
        /\ holder[docs[task[w].doc].machine] = w
        /\ task[w].no = docs[task[w].doc].current + 1

LocksGivenBack ==
    \A m \in Machines, w \in Workers : holder[m] = w =>
        At(w, "commit") /\ docs[task[w].doc].machine = m

LockedNumberIsNext == NumberIsNext /\ LocksGivenBack

(***************************************************************************)
(* The history of a live slot is numbered 1, 2, ... up to its counter, no  *)
(* number twice and none missing, and exactly the newest version is the    *)
(* current one; a version never outlives its slot.                         *)
(***************************************************************************)
VersionsHaveSlots == \A v \in versions : Live(v.doc)

NumbersInRange == \A v \in versions : v.no \in 1 .. docs[v.doc].current

NumbersUnique == \A u, v \in versions : u.doc = v.doc /\ u.no = v.no => u = v

NoGaps ==
    \A d \in Docs : Live(d) =>
        \A n \in 1 .. docs[d].current : \E v \in versions : v.doc = d /\ v.no = n

NewestIsCurrent == \A v \in versions : v.is_current <=> v.no = docs[v.doc].current

HistoryWellFormed ==
    VersionsHaveSlots /\ NumbersInRange /\ NumbersUnique /\ NoGaps /\ NewestIsCurrent

(***************************************************************************)
(* "A dated backup you never delete ... you can reload an old one": the    *)
(* blob of every file version in a history is in the store, with the bytes *)
(* whose checksum the row records, through failed uploads, failed clean-up *)
(* and restores that copy the source's checksum.                           *)
(***************************************************************************)
VersionsReloadable ==
    \A v \in versions : docs[v.doc].kind = "file" => blobs[v.id] = v.content

(***************************************************************************)
(* Where the photo pointer of a machine names a version that exists, it is *)
(* a file version of a slot of that very machine, although the target      *)
(* machine and the category were read long before the pointer is written,  *)
(* and although machine updates write the pointer back as they read it.    *)
(***************************************************************************)
PhotoIsOfItsMachine ==
    \A m \in Machines, v \in versions : photo[m] = v.id =>
        docs[v.doc].machine = m /\ docs[v.doc].kind = "file"

(***************************************************************************)
(* get reads the slot, its current version and its history in three        *)
(* statements.  While the slot lives, what it answers is at most as old as *)
(* the slot row and in order: counter read <= current shown <= newest      *)
(* listed; only a slot deleted meanwhile makes a later part vanish.        *)
(***************************************************************************)
GetIsMonotone ==
    \A w \in Workers :
        LET t == task[w] IN
        t.op = "get" /\ At(w, "served") /\ Live(t.doc) =>
            t.row.current <= t.no /\ t.no <= t.newest

(***************************************************************************)
(* A download that succeeds serves the bytes the version row vouches for,  *)
(* whatever happened to the slot between the three reads.                  *)
(***************************************************************************)
DownloadMatchesChecksum ==
    \A w \in Workers :
        task[w].op = "download" /\ At(w, "served") => task[w].bytes = task[w].content

(***************************************************************************)
(* "Don't leave an orphan blob if the DB step failed": a blob belongs to a *)
(* version or to a request that is still running.                          *)
(***************************************************************************)
NoOrphanBlob ==
    \A id \in Versions : blobs[id] # None =>
        \/ \E v \in versions : v.id = id
        \/ \E w \in Workers : Running(w) /\ task[w].id = id

(***************************************************************************)
(* "Convenience pointer to the current primary photo version": while slots *)
(* are neither renamed nor deleted and the machine row is not rewritten,   *)
(* the pointer names the current version of a photo slot.                  *)
(***************************************************************************)
PhotoIsCurrent ==
    \A m \in Machines : photo[m] # None =>
        \E v \in versions :
            /\ v.id = photo[m]
            /\ v.is_current
            /\ docs[v.doc].category = "photo"

(***************************************************************************)
(* "An immutable snapshot. INSERT only": a step may never change the       *)
(* payload, the number or the slot of a version, lose a version while its  *)
(* slot lives, or lower a slot's counter.                                  *)
(***************************************************************************)
HistoryKept ==
    /\ \A v \in versions : docs'[v.doc] # None =>
        \E u \in versions' :
            u.id = v.id /\ u.doc = v.doc /\ u.no = v.no /\ u.content = v.content
    /\ \A d \in Docs : Live(d) /\ docs'[d] # None => docs[d].current <= docs'[d].current

HistoryImmutable == [][HistoryKept]_vars

(***************************************************************************)
(* The tables implement the promise of VersionHistory: the log of a slot   *)
(* is the contents of its versions in the order of their numbers, with     *)
(* nothing in the place of a version that is missing.                      *)
(***************************************************************************)
ContentOf(d, n) ==
    LET rows == {v \in versions : v.doc = d /\ v.no = n} IN
    IF rows = {} THEN None ELSE (CHOOSE v \in rows : TRUE).content

History ==
    [d \in Docs |-> IF Live(d) THEN [n \in 1 .. docs[d].current |-> ContentOf(d, n)]
                    ELSE None]

Promise == INSTANCE VersionHistory WITH history <- History

ImplementsVersionHistory == Promise!Spec

(***************************************************************************)
(* Every request is answered, also when uploads to a machine's slots and   *)
(* the creation of slots wait for the row lock of that machine again and   *)
(* again, and when statements fail inside the transaction that holds it.   *)
(* The runs check it with those requests; that renames, deletions and      *)
(* machine edits never wait for a lock left behind is LocksGivenBack.      *)
(***************************************************************************)
EveryRequestAnswered == \A w \in Workers : Running(w) ~> ~Running(w)
=============================================================================
