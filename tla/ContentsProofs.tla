---------------------------- MODULE ContentsProofs ----------------------------
(***************************************************************************)
(* What versions, photo pointers and reads of Documents show: that a       *)
(* version can be reloaded and a download is what its row vouches for as   *)
(* long as no answer to a COMMIT is lost, and, whatever fails, that the    *)
(* photo of a machine is its own and that get never shows a present older  *)
(* than the slot it read.  At the end, what holds where some endpoints are *)
(* not called: that uploads leave no orphan and the photo is the current   *)
(* one.                                                                    *)
(***************************************************************************)
EXTENDS DocumentsProofs

-----------------------------------------------------------------------------
(***************************************************************************)
(* What a step does to the locals of the handler that takes it.            *)
(***************************************************************************)
SameRequest(t, n) ==
    /\ n.op = t.op
    /\ n.machine = t.machine
    /\ n.doc = t.doc
    /\ n.id = t.id

SameRow(t, n) == SameRequest(t, n) /\ n.row = t.row

SamePayload(t, n) == SameRow(t, n) /\ n.content = t.content

(* A machine edit keeps the photo pointer it finds. *)
LEMMA FindMachineLocals ==
    ASSUME TypeInv, NEW w \in Workers, FindMachine(w)
    PROVE  \/ task'[w] = Idle
           \/ /\ SamePayload(task[w], task'[w]) /\ task'[w].key = task[w].key
              /\ task'[w].bytes = task[w].bytes /\ task'[w].no = task[w].no
              /\ task'[w].step \in MachineSteps \ {"find_machine"}
              /\ task'[w].pointer \in {None, photo[task[w].machine]}
<1> DEFINE t == task[w]
           p == IF t.op = "update_machine" THEN photo[t.machine] ELSE None
           s == CASE t.op = "create_slot" -> "insert_doc"
                  [] t.op = "delete_machine" -> "erase_machine"
                  [] OTHER -> "write_machine"
           u == [t EXCEPT !.pointer = p, !.step = s]
<1>1. CASE Answer(w)
  BY <1>1, AnswerTask
<1>2. CASE ~Answer(w)
  <2>1. Resume(w, u) /\ t \in Task
    BY <1>2 DEF FindMachine, TypeInv, TypeOK
  <2>2. s \in MachineSteps \ {"find_machine"} /\ p \in {None, photo[t.machine]}
    BY DEF MachineSteps
  <2> HIDE DEF p, s
  <2>3. /\ SamePayload(t, u) /\ u.key = t.key /\ u.bytes = t.bytes /\ u.no = t.no
        /\ u.step = s /\ u.pointer = p
    BY <2>1 DEF Task, SamePayload, SameRow, SameRequest
  <2> QED BY <2>1, <2>2, <2>3, ResumeTask
<1> QED BY <1>1, <1>2

(* A handler that finds its slot keeps the row it has. *)
LEMMA FindDocLocals ==
    ASSUME TypeInv, NEW w \in Workers, FindDoc(w)
    PROVE  \/ task'[w] = Idle
           \/ /\ SameRequest(task[w], task'[w]) /\ task'[w].content = task[w].content
              /\ task'[w].key = task[w].key /\ task'[w].pointer = task[w].pointer
              /\ task'[w].bytes = task[w].bytes /\ task'[w].no = task[w].no
              /\ task'[w].row = docs[task[w].doc]
              /\ task'[w].row.kind \in KindOf(task[w].op)
              /\ task'[w].step = AfterFindDoc(task[w].op)
              /\ Live(task[w].doc)
<1> DEFINE t == task[w]
           r == docs[t.doc]
           s == AfterFindDoc(t.op)
           u == [t EXCEPT !.row = r, !.step = s]
<1>1. CASE Answer(w)
  BY <1>1, AnswerTask
<1>2. CASE ~Answer(w)
  <2>1. Resume(w, u) /\ t \in Task /\ Live(t.doc) /\ r.kind \in KindOf(t.op)
    BY <1>2 DEF FindDoc, TypeInv, TypeOK
  <2> HIDE DEF r, s
  <2>2. /\ SameRequest(t, u) /\ u.content = t.content /\ u.key = t.key
        /\ u.pointer = t.pointer /\ u.bytes = t.bytes /\ u.no = t.no
        /\ u.row = r /\ u.step = s
    BY <2>1 DEF Task, SameRequest
  <2> QED BY <2>1, <2>2, ResumeTask DEF r, s
<1> QED BY <1>1, <1>2

(* A restore or download takes payload and key from the version it finds. *)
LEMMA FindVersionLocals ==
    ASSUME TypeInv, NEW w \in Workers, FindVersion(w)
    PROVE  \/ task'[w] = Idle
           \/ /\ SameRow(task[w], task'[w]) /\ task'[w].pointer = task[w].pointer
              /\ task'[w].bytes = task[w].bytes /\ task'[w].no = task[w].no
              /\ \E v \in versions :
                    /\ v.doc = task[w].doc /\ task'[w].content = v.content
                    /\ \/ /\ task[w].row.kind = "file"
                          /\ task'[w].key = v.id /\ task'[w].step = "fetch"
                       \/ /\ task[w].row.kind # "file"
                          /\ task'[w].key = None /\ task'[w].step = "lock"
<1> DEFINE t == task[w]
<1>1. CASE Answer(w)
  BY <1>1, AnswerTask
<1>2. CASE ~Answer(w)
  <2>1. PICK v \in versions : v.doc = t.doc /\ Resume(w, Loaded(t, v))
    BY <1>2 DEF FindVersion, RowsOf
  <2> DEFINE k == IF t.row.kind = "file" THEN v.id ELSE None
             s == IF t.row.kind = "file" THEN "fetch" ELSE "lock"
             c == v.content
             u == [t EXCEPT !.content = c, !.key = k, !.step = s]
  <2>2. t \in Task /\ Resume(w, u)
    BY <2>1 DEF Loaded, TypeInv, TypeOK
  <2> HIDE DEF k, s, c
  <2>3. /\ SameRow(t, u) /\ u.pointer = t.pointer /\ u.bytes = t.bytes /\ u.no = t.no
        /\ u.content = c /\ u.key = k /\ u.step = s
    BY <2>2 DEF Task, SameRow, SameRequest
  <2>4. task'[w] = u
    BY <2>2, ResumeTask
  <2> QED BY <2>1, <2>3, <2>4 DEF k, s, c
<1> QED BY <1>1, <1>2

(* Fetching gets the bytes under the key. *)
LEMMA FetchLocals ==
    ASSUME TypeInv, NEW w \in Workers, Fetch(w)
    PROVE  \/ task'[w] = Idle
           \/ /\ SamePayload(task[w], task'[w]) /\ task'[w].pointer = task[w].pointer
              /\ task'[w].key = task[w].key /\ task'[w].no = task[w].no
              /\ task'[w].bytes = blobs[task[w].key]
              /\ task'[w].step \in {"put", "served"}
              /\ task'[w].step = "served" => task[w].op = "download"
<1> DEFINE t == task[w]
           b == blobs[t.key]
<1>1. CASE Answer(w)
  BY <1>1, AnswerTask
<1>2. CASE ~Answer(w)
  <2>1. PICK s \in {"put", "served"} :
          /\ Resume(w, [[t EXCEPT !.bytes = b] EXCEPT !.step = s])
          /\ s = "served" => t.op = "download"
    BY <1>2 DEF Fetch, Serve, Resume
  <2> DEFINE u == [[t EXCEPT !.bytes = b] EXCEPT !.step = s]
  <2>2. t \in Task
    BY DEF TypeInv, TypeOK
  <2> HIDE DEF b
  <2>3. /\ SamePayload(t, u) /\ u.pointer = t.pointer /\ u.key = t.key /\ u.no = t.no
        /\ u.bytes = b /\ u.step = s
    BY <2>2 DEF Task, SamePayload, SameRow, SameRequest
  <2> QED BY <2>1, <2>3, ResumeTask DEF b
<1> QED BY <1>1, <1>2

(* get goes on with the number of the version flagged as current, if there is one. *)
LEMMA ReadCurrentLocals ==
    ASSUME TypeInv, NEW w \in Workers, ReadCurrent(w)
    PROVE  /\ SamePayload(task[w], task'[w]) /\ task'[w].pointer = task[w].pointer
           /\ task'[w].key = task[w].key /\ task'[w].bytes = task[w].bytes
           /\ task'[w].step = "list"
           /\ \/ /\ \A v \in versions : v.doc = task[w].doc => ~v.is_current
                 /\ task'[w].no = task[w].no
              \/ \E v \in versions :
                    v.doc = task[w].doc /\ v.is_current /\ task'[w].no = v.no
<1> DEFINE t == task[w]
<1>1. t \in Task
  BY DEF TypeInv, TypeOK
<1>2. CASE /\ \A v \in versions : v.doc = t.doc => ~v.is_current
           /\ Goto(w, "list")
  <2> DEFINE u == [t EXCEPT !.step = "list"]
  <2>1. task'[w] = u
    BY <1>2, GotoTask DEF Steps
  <2>2. /\ SamePayload(t, u) /\ u.pointer = t.pointer /\ u.key = t.key /\ u.bytes = t.bytes
        /\ u.no = t.no /\ u.step = "list"
    BY <1>1 DEF Task, SamePayload, SameRow, SameRequest
  <2> QED BY <1>2, <2>1, <2>2
<1>3. ASSUME NEW v \in versions, v.doc = t.doc, v.is_current,
             Resume(w, [t EXCEPT !.no = v.no, !.step = "list"])
      PROVE  /\ SamePayload(task[w], task'[w]) /\ task'[w].pointer = task[w].pointer
             /\ task'[w].key = task[w].key /\ task'[w].bytes = task[w].bytes
             /\ task'[w].step = "list" /\ task'[w].no = v.no
  <2> DEFINE n == v.no
             u == [t EXCEPT !.no = n, !.step = "list"]
  <2>1. task'[w] = u
    BY <1>3, ResumeTask
  <2> HIDE DEF n
  <2>2. /\ SamePayload(t, u) /\ u.pointer = t.pointer /\ u.key = t.key /\ u.bytes = t.bytes
        /\ u.no = n /\ u.step = "list"
    BY <1>1 DEF Task, SamePayload, SameRow, SameRequest
  <2> QED BY <2>1, <2>2 DEF n
<1>4. CASE {v \in RowsOf(t.doc) : v.is_current} = {} /\ Goto(w, "list")
  BY <1>2, <1>4 DEF RowsOf
<1>5. CASE \E v \in {u \in RowsOf(t.doc) : u.is_current} :
             Resume(w, [t EXCEPT !.no = v.no, !.step = "list"])
  BY <1>3, <1>5 DEF RowsOf
<1> QED BY <1>2, <1>3, <1>4, <1>5 DEF ReadCurrent

(* get answers with the head of the history, if there is one. *)
LEMMA ListVersionsLocals ==
    ASSUME TypeInv, NEW w \in Workers, ListVersions(w)
    PROVE  /\ SamePayload(task[w], task'[w]) /\ task'[w].pointer = task[w].pointer
           /\ task'[w].key = task[w].key /\ task'[w].bytes = task[w].bytes
           /\ task'[w].step = "served" /\ task'[w].no = task[w].no
           /\ \/ /\ \A v \in versions : v.doc # task[w].doc
                 /\ task'[w].newest = task[w].newest
              \/ \E v \in versions :
                    /\ v.doc = task[w].doc /\ task'[w].newest = v.no
                    /\ \A u \in versions : u.doc = task[w].doc => u.no <= v.no
<1> DEFINE t == task[w]
           Told(n) ==
             /\ SamePayload(task[w], task'[w]) /\ task'[w].pointer = task[w].pointer
             /\ task'[w].key = task[w].key /\ task'[w].bytes = task[w].bytes
             /\ task'[w].step = "served" /\ task'[w].no = task[w].no
             /\ task'[w].newest = n
<1>1. t \in Task
  BY DEF TypeInv, TypeOK
<1>2. ASSUME NEW n \in Nat, Serve(w, [t EXCEPT !.newest = n])
      PROVE  Told(n)
  <2> DEFINE u == [[t EXCEPT !.newest = n] EXCEPT !.step = "served"]
  <2>1. task'[w] = u
    BY <1>2, ResumeTask DEF Serve
  <2>2. /\ SamePayload(t, u) /\ u.pointer = t.pointer /\ u.key = t.key /\ u.bytes = t.bytes
        /\ u.no = t.no /\ u.newest = n /\ u.step = "served"
    BY <1>1 DEF Task, SamePayload, SameRow, SameRequest
  <2> QED BY <2>1, <2>2
<1>3. CASE RowsOf(t.doc) = {} /\ Serve(w, t)
  <2>1. t = [t EXCEPT !.newest = t.newest] /\ t.newest \in Nat
    BY <1>1 DEF Task
  <2>2. Told(t.newest)
    BY <1>2, <1>3, <2>1
  <2> QED BY <1>3, <2>2 DEF RowsOf
<1>4. ASSUME NEW v \in Heads(RowsOf(t.doc)), Serve(w, [t EXCEPT !.newest = v.no])
      PROVE  /\ Told(v.no) /\ v \in versions /\ v.doc = t.doc
             /\ \A u \in versions : u.doc = t.doc => u.no <= v.no
  <2>1. v \in versions /\ v.no \in Nat
    BY DEF Heads, RowsOf, TypeInv, TypeOK, VersionRow
  <2> QED BY <1>2, <1>4, <2>1 DEF Heads, RowsOf
<1> QED BY <1>3, <1>4 DEF ListVersions

(* After a put, the handler goes on with the same locals. *)
LEMMA PutLocals ==
    ASSUME TypeInv, NEW w \in Workers, Put(w)
    PROVE  /\ SamePayload(task[w], task'[w]) /\ task'[w].pointer = task[w].pointer
           /\ task'[w].key = task[w].key /\ task'[w].no = task[w].no
           /\ task'[w].bytes = task[w].bytes /\ task'[w].step = "lock"
<1> DEFINE u == [task[w] EXCEPT !.step = "lock"]
<1>1. task'[w] = u
  BY GotoTask DEF Put, Steps
<1>2. LET t == task[w] IN
      /\ SamePayload(t, u) /\ u.pointer = t.pointer /\ u.key = t.key /\ u.bytes = t.bytes
      /\ u.no = t.no /\ u.step = "lock"
  BY DEF Task, SamePayload, SameRow, SameRequest, TypeInv, TypeOK
<1> QED BY <1>1, <1>2

(* A failed add_version ends the request, or leaves an upload to clean up. *)
LEMMA FailedLocals ==
    ASSUME TypeInv, NEW w \in Workers, AddVersionFailed(w)
    PROVE  \/ task'[w] = Idle
           \/ /\ SamePayload(task[w], task'[w]) /\ task'[w].pointer = task[w].pointer
              /\ task'[w].key = task[w].key /\ task'[w].no = task[w].no
              /\ task'[w].bytes = task[w].bytes
              /\ task'[w].step = "cleanup" /\ task[w].op = "add_file_version"
<1>1. CASE Answer(w)
  BY <1>1, AnswerTask
<1>2. CASE Goto(w, "cleanup") /\ task[w].op = "add_file_version"
  <2> DEFINE u == [task[w] EXCEPT !.step = "cleanup"]
  <2>1. task'[w] = u
    BY <1>2, GotoTask DEF Steps
  <2>2. LET t == task[w] IN
        /\ SamePayload(t, u) /\ u.pointer = t.pointer /\ u.key = t.key /\ u.bytes = t.bytes
        /\ u.no = t.no /\ u.step = "cleanup"
    BY DEF Task, SamePayload, SameRow, SameRequest, TypeInv, TypeOK
  <2> QED BY <1>2, <2>1, <2>2
<1> QED BY <1>1, <1>2 DEF AddVersionFailed

(* The locking read takes the number after the counter, or fails. *)
LEMMA LockSlotLocals ==
    ASSUME TypeInv, NEW w \in Workers, LockSlot(w)
    PROVE  \/ AddVersionFailed(w)
           \/ /\ SamePayload(task[w], task'[w]) /\ task'[w].pointer = task[w].pointer
              /\ task'[w].key = task[w].key /\ task'[w].bytes = task[w].bytes
              /\ task'[w].step = "commit"
<1> SUFFICES ASSUME ~AddVersionFailed(w)
             PROVE  /\ SamePayload(task[w], task'[w]) /\ task'[w].pointer = task[w].pointer
                    /\ task'[w].key = task[w].key /\ task'[w].bytes = task[w].bytes
                    /\ task'[w].step = "commit"
  OBVIOUS
<1> DEFINE n == docs[task[w].doc].current + 1
           u == [task[w] EXCEPT !.no = n, !.step = "commit"]
<1>1. task'[w] = u
  BY ResumeTask DEF LockSlot
<1> HIDE DEF n
<1>2. LET t == task[w] IN
      /\ SamePayload(t, u) /\ u.pointer = t.pointer /\ u.key = t.key /\ u.bytes = t.bytes
      /\ u.step = "commit"
  BY DEF Task, SamePayload, SameRow, SameRequest, TypeInv, TypeOK
<1> QED BY <1>1, <1>2

(***************************************************************************)
(* What an arriving request brings along.  A request that may add a        *)
(* version has drawn a new UUID for it, and a create_slot one for its      *)
(* slot; others name a slot that has been issued.                          *)
(***************************************************************************)
Brings(n) ==
    /\ n.pointer = None /\ n.key = None
    /\ n.step \in {"find_machine", "find_doc"}
    /\ n.op \in VersionOps => n.id \in Versions \ issued /\ issued' = issued \cup {n.id}
    /\ n.op = "create_slot" => n.doc \in Docs \ issued
    /\ n.op = "get" => n.doc \in Docs \cap issued /\ n.no = 0
    /\ n.op = "add_file_version" => n.bytes = n.content

(* The requests, one by one. *)
LEMMA ArriveLocals ==
    ASSUME TypeInv, NEW w \in Workers, Arrive(w)
    PROVE  Brings(task'[w]) /\ issued \subseteq issued' /\ UNCHANGED <<Tables, blobs>>
<1>1. issued \subseteq issued' /\ UNCHANGED <<Tables, blobs>>
  BY DEF Arrive, BeginCreate, BeginVersion, BeginRestore, BeginRead, BeginSlotChange,
         BeginMachineChange, Begin
<1>2. CASE BeginCreate(w)
  <2>1. PICK m \in Machines, c \in Categories, k \in Kinds, d \in Docs \ issued :
          Resume(w, [Idle EXCEPT !.op = "create_slot", !.step = "find_machine",
                        !.machine = m, !.doc = d,
                        !.row = [machine |-> m, category |-> c, kind |-> k,
                                 current |-> 0]])
    BY <1>2 DEF BeginCreate
  <2> DEFINE r == [machine |-> m, category |-> c, kind |-> k, current |-> 0]
             u == [Idle EXCEPT !.op = "create_slot", !.step = "find_machine",
                        !.machine = m, !.doc = d, !.row = r]
  <2>2. Brings(u)
    BY DEF Idle, Brings, VersionOps
  <2> QED BY <1>1, <2>1, <2>2, ResumeTask
<1>3. ASSUME NEW op \in {"add_file_version", "add_json_version"}, BeginVersion(w, op)
      PROVE  Brings(task'[w])
  <2>1. PICK d \in Docs \cap issued, v \in Versions \ issued, p \in Payloads :
          /\ issued' = issued \cup {v}
          /\ Resume(w, [Idle EXCEPT !.op = op, !.step = "find_doc", !.doc = d, !.id = v,
                        !.content = p, !.bytes = IF op = "add_file_version" THEN p ELSE None])
    BY <1>3 DEF BeginVersion
  <2> DEFINE b == IF op = "add_file_version" THEN p ELSE None
             u == [Idle EXCEPT !.op = op, !.step = "find_doc", !.doc = d, !.id = v,
                        !.content = p, !.bytes = b]
  <2>2. Brings(u)
    BY <2>1 DEF Idle, Brings, VersionOps
  <2> QED BY <1>1, <2>1, <2>2, ResumeTask
<1>4. CASE BeginRestore(w)
  <2>1. PICK d \in Docs \cap issued, v \in Versions \ issued, n \in 1 .. Cardinality(Versions) :
          /\ issued' = issued \cup {v}
          /\ Resume(w, [Idle EXCEPT !.op = "restore", !.step = "find_doc", !.doc = d,
                        !.id = v, !.no = n])
    BY <1>4 DEF BeginRestore
  <2> DEFINE u == [Idle EXCEPT !.op = "restore", !.step = "find_doc", !.doc = d,
                        !.id = v, !.no = n]
  <2>2. Brings(u)
    BY <2>1 DEF Idle, Brings, VersionOps
  <2> QED BY <1>1, <2>1, <2>2, ResumeTask
<1>5. CASE BeginRead(w)
  <2>1. CASE \E d \in Docs \cap issued :
               Resume(w, [Idle EXCEPT !.op = "get", !.step = "find_doc", !.doc = d])
    <3>1. PICK d \in Docs \cap issued :
            Resume(w, [Idle EXCEPT !.op = "get", !.step = "find_doc", !.doc = d])
      BY <2>1
    <3> DEFINE u == [Idle EXCEPT !.op = "get", !.step = "find_doc", !.doc = d]
    <3>2. Brings(u)
      BY DEF Idle, Brings, VersionOps
    <3> QED BY <1>1, <3>1, <3>2, ResumeTask
  <2>2. CASE \E d \in Docs \cap issued, n \in 1 .. Cardinality(Versions) :
               Resume(w, [Idle EXCEPT !.op = "download", !.step = "find_doc",
                                !.doc = d, !.no = n])
    <3>1. PICK d \in Docs \cap issued, n \in 1 .. Cardinality(Versions) :
            Resume(w, [Idle EXCEPT !.op = "download", !.step = "find_doc",
                                !.doc = d, !.no = n])
      BY <2>2
    <3> DEFINE u == [Idle EXCEPT !.op = "download", !.step = "find_doc",
                                !.doc = d, !.no = n]
    <3>2. Brings(u)
      BY DEF Idle, Brings, VersionOps
    <3> QED BY <1>1, <3>1, <3>2, ResumeTask
  <2> QED BY <1>5, <2>1, <2>2 DEF BeginRead
<1>6. CASE BeginSlotChange(w)
  <2>1. CASE \E d \in Docs \cap issued, c \in Categories \cup {None} :
               Resume(w, [Idle EXCEPT !.op = "rename", !.step = "find_doc",
                                !.doc = d, !.category = c])
    <3>1. PICK d \in Docs \cap issued, c \in Categories \cup {None} :
            Resume(w, [Idle EXCEPT !.op = "rename", !.step = "find_doc",
                                !.doc = d, !.category = c])
      BY <2>1
    <3> DEFINE u == [Idle EXCEPT !.op = "rename", !.step = "find_doc",
                                !.doc = d, !.category = c]
    <3>2. Brings(u)
      BY DEF Idle, Brings, VersionOps
    <3> QED BY <1>1, <3>1, <3>2, ResumeTask
  <2>2. CASE \E d \in Docs \cap issued :
               Resume(w, [Idle EXCEPT !.op = "delete", !.step = "find_doc", !.doc = d])
    <3>1. PICK d \in Docs \cap issued :
            Resume(w, [Idle EXCEPT !.op = "delete", !.step = "find_doc", !.doc = d])
      BY <2>2
    <3> DEFINE u == [Idle EXCEPT !.op = "delete", !.step = "find_doc", !.doc = d]
    <3>2. Brings(u)
      BY DEF Idle, Brings, VersionOps
    <3> QED BY <1>1, <3>1, <3>2, ResumeTask
  <2> QED BY <1>6, <2>1, <2>2 DEF BeginSlotChange
<1>7. CASE BeginMachineChange(w)
  <2>1. PICK m \in Machines, op \in {"delete_machine", "update_machine"} :
          Resume(w, [Idle EXCEPT !.op = op, !.step = "find_machine", !.machine = m])
    BY <1>7 DEF BeginMachineChange
  <2> DEFINE u == [Idle EXCEPT !.op = op, !.step = "find_machine", !.machine = m]
  <2>2. Brings(u)
    BY DEF Idle, Brings, VersionOps
  <2> QED BY <1>1, <2>1, <2>2, ResumeTask
<1> QED BY <1>1, <1>2, <1>3, <1>4, <1>5, <1>6, <1>7 DEF Arrive

(* A step of a handler ends its request or goes on with it. *)
LEMMA GoesOn ==
    ASSUME TypeInv, NEW w \in Workers, Step(w) \/ Fault(w)
    PROVE  \/ task'[w] = Idle
           \/ SameRequest(task[w], task'[w]) /\ task[w].step \notin {"cleanup", "idle", "served"}
<1>1. CASE Answer(w)
  BY <1>1, AnswerTask
<1>2. CASE FindMachine(w) \/ FindDoc(w) \/ FindVersion(w) \/ Fetch(w)
  BY <1>2, FindMachineLocals, FindDocLocals, FindVersionLocals, FetchLocals
     DEF FindMachine, FindDoc, FindVersion, Fetch, At, SamePayload, SameRow
<1>3. CASE ReadCurrent(w) \/ ListVersions(w) \/ Put(w)
  BY <1>3, ReadCurrentLocals, ListVersionsLocals, PutLocals
     DEF ReadCurrent, ListVersions, Put, At, SamePayload, SameRow
<1>4. CASE AddVersionFailed(w) /\ task[w].step \in {"lock", "commit"}
  BY <1>4, FailedLocals DEF SamePayload, SameRow
<1>5. CASE LockSlot(w)
  BY <1>4, <1>5, LockSlotLocals DEF LockSlot, At, SamePayload, SameRow
<1> QED
  BY <1>1, <1>2, <1>3, <1>4, <1>5
  DEF Step, Fault, CleanUp, Commit, InsertDoc, WriteMeta, EraseDoc, EraseMachine,
      WriteMachine, StorageError, CommitLostAck, RollBack, DatabaseError, Abort, At

(* The cases of a step whose handler goes on. *)
LEMMA StepCases ==
    ASSUME TypeInv, NEW w \in Workers, Step(w) \/ Fault(w), task'[w] # Idle
    PROVE  \/ FindMachine(w) \/ FindDoc(w) \/ FindVersion(w) \/ Fetch(w) \/ ReadCurrent(w)
           \/ ListVersions(w) \/ Put(w)
           \/ LockSlot(w) /\ ~AddVersionFailed(w)
           \/ AddVersionFailed(w) /\ task[w].step \in {"lock", "commit"}
BY AnswerTask
DEF Step, Fault, CleanUp, Commit, InsertDoc, WriteMeta, EraseDoc, EraseMachine,
    WriteMachine, StorageError, CommitLostAck, RollBack, DatabaseError, Abort, LockSlot, At

-----------------------------------------------------------------------------
(***************************************************************************)
(* Version UUIDs.  A request that adds a version has one of its own, and   *)
(* until it commits nothing refers to it: no row, no photo pointer, and no *)
(* handler that has read either.                                           *)
(***************************************************************************)
Writes(t) == t.op \in VersionOps
Pending(t) == Writes(t) /\ t.step # "cleanup"

Referenced(id) ==
    \/ \E v \in versions : v.id = id
    \/ \E m \in Machines : photo[m] = id
    \/ \E x \in Workers : task[x].pointer = id \/ task[x].key = id

RefsIssued == \A id \in Versions : Referenced(id) => id \in issued

WritersIssued == \A w \in Workers : Writes(task[w]) => task[w].id \in issued

WritersApart ==
    \A w, x \in Workers :
        w # x /\ Writes(task[w]) /\ Writes(task[x]) => task[w].id # task[x].id

PendingNew ==
    \A w \in Workers, id \in Versions :
        Pending(task[w]) /\ task[w].id = id => ~Referenced(id)

IdsInv == RefsIssued /\ WritersIssued /\ WritersApart /\ PendingNew

(* Idle workers write nothing. *)
LEMMA IdleWritesNothing == ~Writes(Idle) /\ Idle.pointer = None /\ Idle.key = None
BY NoneAssumption DEF Idle, Writes, VersionOps, AllOperations

(* Only a commit makes a reference to a version that had none. *)
LEMMA RefsStay ==
    ASSUME TypeInv, NEW w \in Workers, Step(w) \/ Fault(w), ~Commit(w), ~CommitLostAck(w)
    PROVE  \A id \in Versions : Referenced(id)' => Referenced(id)
<1> DEFINE t == task[w]
           n == task'[w]
<1>0. None \notin Versions /\ t \in Task /\ Shaped(t)
  BY NoneAssumption DEF TypeInv, AllShaped
<1>1. \A v \in versions' : v \in versions
  BY DEF Step, Fault, FindMachine, FindDoc, FindVersion, Fetch, ReadCurrent, ListVersions,
         Put, CleanUp, LockSlot, InsertDoc, WriteMeta, EraseDoc, EraseMachine, Cascade,
         WriteMachine, StorageError, RollBack, DatabaseError, Abort, Tables
<1>2. \A m \in Machines : photo'[m] \in {photo[m], None, t.pointer}
  BY DEF Step, Fault, FindMachine, FindDoc, FindVersion, Fetch, ReadCurrent, ListVersions,
         Put, CleanUp, LockSlot, InsertDoc, WriteMeta, EraseDoc, EraseMachine, Cascade,
         WriteMachine, StorageError, RollBack, DatabaseError, Abort, Tables, TypeInv, TypeOK
<1>3. \A id \in Versions : n.pointer = id \/ n.key = id => Referenced(id)
  <2>1. CASE n = Idle
    BY <1>0, <2>1, IdleWritesNothing
  <2>2. CASE n.pointer = t.pointer /\ n.key = t.key
    BY <2>2 DEF Referenced
  <2>3. CASE FindMachine(w) /\ n # Idle
    <3>1. t.machine \in Machines
      BY <1>0, <2>3 DEF FindMachine, At, Shaped, MachineSteps
    <3> QED BY <1>0, <2>3, <3>1, FindMachineLocals DEF Referenced
  <2>4. CASE FindVersion(w) /\ n # Idle
    BY <1>0, <2>4, FindVersionLocals DEF Referenced
  <2> QED
    BY <2>1, <2>2, <2>3, <2>4, StepCases, FindDocLocals, FetchLocals, ReadCurrentLocals,
       ListVersionsLocals, PutLocals, LockSlotLocals, FailedLocals
<1>4. \A x \in Workers \ {w} : task'[x] = task[x]
  BY OthersWait
<1>5. SUFFICES ASSUME NEW id \in Versions, Referenced(id)'
               PROVE  Referenced(id)
  OBVIOUS
<1>6. CASE \E v \in versions' : v.id = id
  BY <1>1, <1>6 DEF Referenced
<1>7. CASE \E m \in Machines : photo'[m] = id
  BY <1>0, <1>2, <1>7 DEF Referenced
<1>8. CASE \E x \in Workers : task'[x].pointer = id \/ task'[x].key = id
  <2>1. PICK x \in Workers : task'[x].pointer = id \/ task'[x].key = id
    BY <1>8
  <2>2. CASE x = w
    BY <1>3, <2>1, <2>2
  <2>3. CASE x # w
    BY <1>4, <2>1, <2>3 DEF Referenced
  <2> QED BY <2>2, <2>3
<1> QED BY <1>5, <1>6, <1>7, <1>8 DEF Referenced

(* A commit refers to the version it adds, and to no other. *)
LEMMA CommitRefs ==
    ASSUME TypeInv, NEW w \in Workers, Commit(w) \/ CommitLostAck(w)
    PROVE  /\ \A id \in Versions : Referenced(id)' => Referenced(id) \/ id = task[w].id
           /\ Pending(task[w]) /\ ~Pending(task'[w])
<1> DEFINE t == task[w]
<1>1. At(w, "commit") /\ BumpVersion(w) /\ t.id \in Versions /\ None \notin Versions
      /\ (Answer(w) \/ AddVersionFailed(w))
  BY Committing, NoneAssumption DEF Commit, CommitLostAck
<1>2. Pending(t)
  BY <1>1 DEF TypeInv, AllShaped, Shaped, At, Pending, Writes
<1>3. task'[w].pointer \in {None, t.pointer} /\ task'[w].key \in {None, t.key}
      /\ ~Pending(task'[w])
  BY <1>1, AnswerTask, FailedLocals, IdleWritesNothing DEF Pending
<1>4. \A x \in Workers \ {w} : task'[x] = task[x]
  BY OthersWait DEF Step, Fault
<1>5. \A m \in Machines : photo'[m] \in {photo[m], t.id}
  BY <1>1 DEF BumpVersion, TypeInv, TypeOK
<1>6. \A v \in versions' : v.id = t.id \/ \E u \in versions : u.id = v.id
  <2>1. \A v \in versions : [v EXCEPT !.is_current = FALSE].id = v.id
    BY DEF TypeInv, TypeOK, VersionRow
  <2>2. LET new == NewVersion(t) IN
        new.id = t.id /\ [new EXCEPT !.is_current = FALSE].id = t.id
    BY DEF NewVersion
  <2> QED BY <1>1, <2>1, <2>2 DEF BumpVersion, Demoted
<1>7. SUFFICES ASSUME NEW id \in Versions, Referenced(id)', id # t.id
               PROVE  Referenced(id)
  BY <1>2, <1>3
<1>8. CASE \E v \in versions' : v.id = id
  BY <1>6, <1>7, <1>8 DEF Referenced
<1>9. CASE \E m \in Machines : photo'[m] = id
  BY <1>5, <1>7, <1>9 DEF Referenced
<1>10. CASE \E x \in Workers : task'[x].pointer = id \/ task'[x].key = id
  BY <1>1, <1>3, <1>4, <1>10 DEF Referenced
<1> QED BY <1>7, <1>8, <1>9, <1>10 DEF Referenced

(* Every step keeps the identity of versions. *)
LEMMA NextIds ==
    ASSUME TypeInv, IdsInv, [Next]_vars
    PROVE  IdsInv'
<1>1. CASE UNCHANGED vars
  BY <1>1 DEF vars, IdsInv, RefsIssued, WritersIssued, WritersApart, PendingNew, Referenced
<1>2. ASSUME NEW w \in Workers, Arrive(w)
      PROVE  IdsInv'
  <2> DEFINE n == task'[w]
  <2>1. /\ Brings(n) /\ issued \subseteq issued' /\ UNCHANGED <<Tables, blobs>>
        /\ \A x \in Workers \ {w} : task'[x] = task[x]
    BY <1>2, ArriveLocals, OthersWait
  <2>2. \A id \in Versions : Referenced(id)' => Referenced(id)
    BY <2>1, NoneAssumption DEF Referenced, Tables, Brings
  <2>3. Writes(n) => n.id \in Versions \ issued /\ n.id \in issued'
    BY <2>1 DEF Brings, Writes
  <2>4. \A x \in Workers : Writes(task[x]) => task[x].id \in Versions
    BY DEF TypeInv, AllShaped, Shaped, Writes
  <2>5. RefsIssued'
    BY <2>1, <2>2 DEF IdsInv, RefsIssued
  <2>6. WritersIssued' /\ WritersApart'
    BY <2>1, <2>3 DEF IdsInv, WritersIssued, WritersApart
  <2>7. PendingNew'
    <3>1. ASSUME NEW x \in Workers, NEW id \in Versions, Pending(task'[x]), task'[x].id = id
          PROVE  ~Referenced(id)'
      <4>1. CASE x = w
        BY <2>2, <2>3, <3>1, <4>1 DEF IdsInv, RefsIssued, Pending
      <4>2. CASE x # w
        BY <2>1, <2>2, <2>4, <3>1, <4>2 DEF IdsInv, PendingNew, Pending
      <4> QED BY <4>1, <4>2
    <3> QED BY <3>1 DEF PendingNew
  <2> QED BY <2>5, <2>6, <2>7 DEF IdsInv
<1>3. ASSUME NEW w \in Workers, Step(w) \/ Fault(w)
      PROVE  IdsInv'
  <2>1. issued' = issued
    BY <1>3 DEF Step, Fault, FindMachine, FindDoc, FindVersion, Fetch, ReadCurrent,
       ListVersions, Put, CleanUp, LockSlot, Commit, BumpVersion, InsertDoc, WriteMeta,
       EraseDoc, EraseMachine, Cascade, WriteMachine, StorageError, CommitLostAck, RollBack,
       DatabaseError, Abort
  <2>2. \A x \in Workers \ {w} : task'[x] = task[x]
    BY <1>3, OthersWait
  <2>3. \A x \in Workers :
          /\ Writes(task'[x]) => Writes(task[x]) /\ task'[x].id = task[x].id
          /\ Pending(task'[x]) => Pending(task[x])
    BY <1>3, <2>2, GoesOn, IdleWritesNothing DEF Writes, Pending, SameRequest
  <2>4. \A x \in Workers : Writes(task[x]) => task[x].id \in Versions
    BY DEF TypeInv, AllShaped, Shaped, Writes
  <2>5. WritersIssued' /\ WritersApart'
    BY <2>1, <2>3 DEF IdsInv, WritersIssued, WritersApart
  <2>6. CASE ~Commit(w) /\ ~CommitLostAck(w)
    <3>1. \A id \in Versions : Referenced(id)' => Referenced(id)
      BY <1>3, <2>6, RefsStay
    <3>2. RefsIssued' /\ PendingNew'
      <4>1. RefsIssued'
        BY <2>1, <3>1 DEF IdsInv, RefsIssued
      <4>2. ASSUME NEW x \in Workers, NEW id \in Versions, Pending(task'[x]), task'[x].id = id
            PROVE  ~Referenced(id)'
        BY <2>3, <2>4, <3>1, <4>2 DEF IdsInv, PendingNew, Pending
      <4> QED BY <4>1, <4>2 DEF PendingNew
    <3> QED BY <2>5, <3>2 DEF IdsInv
  <2>7. CASE Commit(w) \/ CommitLostAck(w)
    <3>1. /\ \A id \in Versions : Referenced(id)' => Referenced(id) \/ id = task[w].id
          /\ Pending(task[w]) /\ ~Pending(task'[w])
      BY <2>7, CommitRefs
    <3>2. RefsIssued'
      BY <2>1, <3>1 DEF IdsInv, RefsIssued, WritersIssued, Pending
    <3>3. ASSUME NEW x \in Workers, NEW id \in Versions, Pending(task'[x]), task'[x].id = id
          PROVE  ~Referenced(id)'
      <4>1. x # w /\ task'[x] = task[x]
        BY <2>2, <3>1, <3>3
      <4>2. task[x].id # task[w].id
        BY <3>1, <3>3, <4>1 DEF IdsInv, WritersApart, Pending
      <4>3. ~Referenced(id) /\ id # task[w].id
        BY <3>3, <4>1, <4>2 DEF IdsInv, PendingNew
      <4> QED BY <3>1, <4>3
    <3> QED BY <2>5, <3>2, <3>3 DEF IdsInv, PendingNew
  <2> QED BY <2>6, <2>7
<1> QED BY <1>1, <1>2, <1>3 DEF Next

-----------------------------------------------------------------------------
(***************************************************************************)
(* Slots.  A slot keeps machine and kind for life, its counter only grows, *)
(* and none comes to life but by the create_slot that has drawn its UUID.  *)
(***************************************************************************)
SlotLives(d) ==
    /\ docs'[d].machine = docs[d].machine
    /\ docs'[d].kind = docs[d].kind
    /\ docs[d].current <= docs'[d].current

(* A step leaves every slot what it is, but for its end. *)
LEMMA SlotsLive ==
    ASSUME IInv, NEW w \in Workers, Arrive(w) \/ Step(w) \/ Fault(w),
           NEW d \in Docs, docs'[d] # None
    PROVE  \/ Live(d) /\ SlotLives(d)
           \/ ~Live(d) /\ Creates(task[w]) /\ task[w].doc = d
<1> DEFINE t == task[w]
<1>0. t \in Task /\ Shaped(t) /\ TypeInv
  BY DEF IInv, TypeInv, AllShaped
<1>1. Live(d) => docs[d] \in DocRow /\ docs[d].current \in Nat
  BY <1>0 DEF TypeInv, TypeOK, Live, DocRow
<1>2. CASE docs' = docs
  BY <1>1, <1>2 DEF Live, SlotLives
<1>3. ASSUME NEW D, Cascade(D)
      PROVE  Live(d) /\ SlotLives(d)
  BY <1>1, <1>3 DEF Cascade, Live, SlotLives
<1>4. CASE Commit(w) \/ CommitLostAck(w)
  <2>1. At(w, "commit") /\ docs' = [docs EXCEPT ![t.doc] = [docs[t.doc] EXCEPT !.current = t.no]]
    BY <1>4 DEF Commit, CommitLostAck, BumpVersion, Bumped
  <2>2. Live(t.doc) /\ t.no = docs[t.doc].current + 1 /\ t.doc \in Docs
    BY <1>0, <2>1, Committing DEF IInv, NumberIsNext
  <2>3. CASE t.doc = d
    <3>1. docs'[d] = [docs[d] EXCEPT !.current = t.no]
      BY <2>1, <2>3, <1>0 DEF TypeInv, TypeOK
    <3> QED BY <1>1, <2>2, <2>3, <3>1 DEF Live, SlotLives, DocRow
  <2>4. CASE t.doc # d
    <3>1. docs'[d] = docs[d]
      BY <1>0, <2>1, <2>4 DEF TypeInv, TypeOK
    <3> QED BY <1>1, <3>1 DEF Live, SlotLives
  <2> QED BY <2>3, <2>4
<1>5. CASE InsertDoc(w)
  <2>1. Creates(t) /\ t.doc \in Docs /\ ~Live(t.doc)
    BY <1>0, <1>5 DEF InsertDoc, At, Shaped, Creates, IInv, SlotIdentity, CreatedAbsent
  <2>2. CASE t.doc = d
    BY <2>1, <2>2
  <2>3. CASE t.doc # d
    <3>1. docs'[d] = docs[d]
      BY <1>0, <1>5, <2>3 DEF InsertDoc, TypeInv, TypeOK
    <3> QED BY <1>1, <3>1 DEF Live, SlotLives
  <2> QED BY <2>2, <2>3
<1>6. CASE WriteMeta(w)
  <2> DEFINE c == IF t.category = None THEN t.row.category ELSE t.category
  <2>1. docs' = docs \/
        (Live(t.doc) /\ docs' = [docs EXCEPT ![t.doc] = [docs[t.doc] EXCEPT !.category = c]])
    BY <1>6 DEF WriteMeta, Renamed
  <2> HIDE DEF c
  <2>2. t.doc \in Docs
    BY <1>0, <1>6 DEF WriteMeta, At, Shaped, RowSteps
  <2>3. CASE t.doc = d /\ docs' # docs
    <3>1. docs'[d] = [docs[d] EXCEPT !.category = c]
      BY <1>0, <2>1, <2>3 DEF TypeInv, TypeOK
    <3> QED BY <1>1, <2>1, <2>3, <3>1 DEF Live, SlotLives, DocRow
  <2>4. CASE t.doc # d
    <3>1. docs'[d] = docs[d]
      BY <1>0, <2>1, <2>4 DEF TypeInv, TypeOK
    <3> QED BY <1>1, <3>1 DEF Live, SlotLives
  <2> QED BY <1>2, <2>3, <2>4
<1> QED
  BY <1>2, <1>3, <1>4, <1>5, <1>6
  DEF Arrive, BeginCreate, BeginVersion, BeginRestore, BeginRead, BeginSlotChange,
      BeginMachineChange, Begin, Step, Fault, FindMachine, FindDoc, FindVersion, Fetch,
      ReadCurrent, ListVersions, Put, CleanUp, LockSlot, EraseDoc, EraseMachine,
      WriteMachine, StorageError, RollBack, DatabaseError, Abort, Tables

(* A version is one of those there were, or the one a commit adds. *)
LEMMA VersionsFrom ==
    ASSUME IInv, NEW w \in Workers, Arrive(w) \/ Step(w) \/ Fault(w), NEW v \in versions'
    PROVE  \/ \E u \in versions :
                u.id = v.id /\ u.doc = v.doc /\ u.content = v.content
           \/ /\ Commit(w) \/ CommitLostAck(w)
              /\ v.id = task[w].id /\ v.doc = task[w].doc /\ v.content = task[w].content
<1>1. CASE versions' \subseteq versions
  BY <1>1
<1>2. CASE Commit(w) \/ CommitLostAck(w)
  <2> DEFINE new == NewVersion(task[w])
  <2>1. \A u \in versions : LET dem == [u EXCEPT !.is_current = FALSE] IN
          dem.id = u.id /\ dem.doc = u.doc /\ dem.content = u.content
    BY DEF IInv, TypeInv, TypeOK, VersionRow
  <2>2. LET dem == [new EXCEPT !.is_current = FALSE] IN
        /\ new.id = task[w].id /\ new.doc = task[w].doc /\ new.content = task[w].content
        /\ dem.id = task[w].id /\ dem.doc = task[w].doc /\ dem.content = task[w].content
    BY DEF NewVersion
  <2> HIDE DEF new
  <2>3. versions' = {IF u.doc = task[w].doc /\ u.no < task[w].no
                     THEN [u EXCEPT !.is_current = FALSE] ELSE u : u \in versions \cup {new}}
    BY <1>2 DEF Commit, CommitLostAck, BumpVersion, Demoted, new
  <2>4. PICK u \in versions \cup {new} : v = u \/ v = [u EXCEPT !.is_current = FALSE]
    BY <2>3
  <2> QED BY <1>2, <2>1, <2>2, <2>4
<1> QED
  BY <1>1, <1>2
  DEF Arrive, BeginCreate, BeginVersion, BeginRestore, BeginRead, BeginSlotChange,
      BeginMachineChange, Begin, Step, Fault, FindMachine, FindDoc, FindVersion, Fetch,
      ReadCurrent, ListVersions, Put, CleanUp, LockSlot, InsertDoc, WriteMeta, EraseDoc,
      EraseMachine, Cascade, WriteMachine, StorageError, RollBack, DatabaseError, Abort,
      Tables

(* The kind a handler has read with its slot stays the kind of the slot. *)
KindFixed ==
    \A w \in Workers :
        Holds(task[w]) /\ Live(task[w].doc) => task[w].row.kind = docs[task[w].doc].kind

(* Which handlers hold a slot's row: those that held it, and one that finds it. *)
LEMMA HoldersFrom ==
    ASSUME TypeInv, NEW w \in Workers, Arrive(w) \/ Step(w) \/ Fault(w),
           NEW x \in Workers, Holds(task'[x])
    PROVE  \/ Holds(task[x]) /\ task'[x].doc = task[x].doc /\ task'[x].row = task[x].row
           \/ /\ Live(task[x].doc) /\ task'[x].doc = task[x].doc /\ docs' = docs
              /\ task'[x].row = docs[task[x].doc]
<1>1. CASE x # w
  BY <1>1, OthersWait
<1>2. CASE x = w /\ Arrive(w)
  BY <1>2, ArriveLocals DEF Brings, Holds, RowSteps, ContentSteps
<1>3. CASE x = w /\ FindDoc(w)
  BY <1>3, FindDocLocals, IdleKnowsNothing DEF FindDoc, Tables, SameRequest
<1>4. CASE x = w /\ ~FindDoc(w) /\ ~Arrive(w)
  BY <1>4, OnlyFindDocLearns DEF KnowsNoMore
<1> QED BY <1>1, <1>2, <1>3, <1>4

(* Every step keeps the kinds that handlers have read. *)
LEMMA NextKinds ==
    ASSUME IInv, KindFixed, [Next]_vars
    PROVE  KindFixed'
<1>1. CASE UNCHANGED vars
  BY <1>1 DEF vars, KindFixed, Holds, Live
<1>2. ASSUME NEW w \in Workers, Arrive(w) \/ Step(w) \/ Fault(w),
             NEW x \in Workers, Holds(task'[x]), docs'[task'[x].doc] # None
      PROVE  task'[x].row.kind = docs'[task'[x].doc].kind
  <2>1. TypeInv /\ task[x] \in Task /\ Shaped(task[x])
    BY DEF IInv, TypeInv, AllShaped
  <2>2. CASE /\ Live(task[x].doc) /\ task'[x].doc = task[x].doc /\ docs' = docs
             /\ task'[x].row = docs[task[x].doc]
    BY <2>2
  <2>3. CASE Holds(task[x]) /\ task'[x].doc = task[x].doc /\ task'[x].row = task[x].row
    <3> DEFINE d == task[x].doc
    <3>1. d \in Docs /\ docs'[d] # None
      BY <1>2, <2>1, <2>3 DEF Shaped, Holds
    <3>2. ~(Creates(task[w]) /\ task[w].doc = d /\ ~Live(d)) \/ x = w
      BY <2>3 DEF IInv, SlotIdentity, CreatedUnknown
    <3>3. x = w => ~Creates(task[w])
      BY <2>1, <2>3 DEF Shaped, Holds, Creates, MachineOps
    <3>4. Live(d) /\ SlotLives(d)
      BY <1>2, <3>1, <3>2, <3>3, SlotsLive
    <3> QED BY <2>3, <3>4 DEF KindFixed, SlotLives
  <2> QED BY <1>2, <2>1, <2>2, <2>3, HoldersFrom
<1> QED BY <1>1, <1>2 DEF Next, KindFixed, Live

-----------------------------------------------------------------------------
(***************************************************************************)
(* Photos.  A machine edit that has read the pointer writes it back, so    *)
(* the pointer it holds must be right as well.                             *)
(***************************************************************************)
PointersRight ==
    \A x \in Workers, v \in versions :
        task[x].pointer = v.id =>
            docs[v.doc].machine = task[x].machine /\ docs[v.doc].kind = "file"

PhotoInv == KindFixed /\ PhotoIsOfItsMachine /\ PointersRight

(* A version that was there keeps its slot's machine and kind. *)
LEMMA OldVersionsStay ==
    ASSUME IInv, IInv', NEW w \in Workers, Arrive(w) \/ Step(w) \/ Fault(w),
           NEW v \in versions', NEW u \in versions, u.doc = v.doc
    PROVE  /\ docs'[v.doc].machine = docs[u.doc].machine
           /\ docs'[v.doc].kind = docs[u.doc].kind
<1>1. v.doc \in Docs /\ docs'[v.doc] # None /\ Live(u.doc)
  BY DEF IInv, TypeInv, TypeOK, VersionRow, HistoryWellFormed, VersionsHaveSlots, Live
<1> QED BY <1>1, SlotsLive DEF SlotLives

(* The version a commit adds is new to all who hold a pointer. *)
LEMMA CommittedIsNew ==
    ASSUME IInv, IdsInv, NEW w \in Workers, At(w, "commit")
    PROVE  /\ task[w].id \in Versions
           /\ \A v \in versions : v.id # task[w].id
           /\ \A m \in Machines : photo[m] # task[w].id
           /\ \A x \in Workers : task[x].pointer # task[w].id /\ task[x].key # task[w].id
<1>1. TypeInv /\ task[w].id \in Versions
  BY Committing DEF IInv
<1>2. Pending(task[w])
  BY DEF IInv, TypeInv, AllShaped, Shaped, At, Pending, Writes
<1>3. ~Referenced(task[w].id)
  BY <1>1, <1>2 DEF IdsInv, PendingNew
<1> QED BY <1>1, <1>3 DEF Referenced

(* What a handler knows of a pointer it holds, from before the step. *)
LEMMA PointersFrom ==
    ASSUME TypeInv, NEW w \in Workers, Arrive(w) \/ Step(w) \/ Fault(w), NEW x \in Workers,
           task'[x].pointer # None
    PROVE  /\ task'[x].machine = task[x].machine
           /\ \/ task'[x].pointer = task[x].pointer
              \/ task[x].machine \in Machines /\ task'[x].pointer = photo[task[x].machine]
<1>1. CASE x # w
  BY <1>1, OthersWait
<1>2. CASE x = w /\ Arrive(w)
  BY <1>2, ArriveLocals DEF Brings
<1>3. CASE x = w /\ ~Arrive(w)
  <2>1. task'[w] # Idle
    BY <1>3, IdleWritesNothing
  <2>2. task'[w].machine = task[w].machine
    BY <1>3, <2>1, GoesOn DEF SameRequest
  <2>3. CASE FindMachine(w)
    <3>1. task[w].machine \in Machines
      BY <2>3 DEF FindMachine, At, TypeInv, AllShaped, Shaped, MachineSteps
    <3> QED BY <1>3, <2>1, <2>2, <2>3, <3>1, FindMachineLocals
  <2> QED
    BY <1>3, <2>1, <2>2, <2>3, StepCases, FindDocLocals, FindVersionLocals, FetchLocals,
       ReadCurrentLocals, ListVersionsLocals, PutLocals, LockSlotLocals, FailedLocals
<1> QED BY <1>1, <1>2, <1>3

(* What a machine's pointer was before the step. *)
LEMMA PhotosFrom ==
    ASSUME TypeInv, NEW w \in Workers, Arrive(w) \/ Step(w) \/ Fault(w), NEW m \in Machines,
           photo'[m] # None
    PROVE  \/ photo'[m] = photo[m]
           \/ photo'[m] = task[w].pointer /\ m = task[w].machine
           \/ /\ Commit(w) \/ CommitLostAck(w)
              /\ photo'[m] = task[w].id /\ Repoints(task[w]) /\ m = task[w].row.machine
BY DEF Arrive, BeginCreate, BeginVersion, BeginRestore, BeginRead, BeginSlotChange,
       BeginMachineChange, Begin, Step, Fault, FindMachine, FindDoc, FindVersion, Fetch,
       ReadCurrent, ListVersions, Put, CleanUp, LockSlot, Commit, CommitLostAck, BumpVersion,
       InsertDoc, WriteMeta, EraseDoc, EraseMachine, Cascade, WriteMachine, StorageError,
       RollBack, DatabaseError, Abort, Tables, TypeInv, TypeOK

(* Every step keeps photos and the pointers in hand right. *)
LEMMA NextPhotos ==
    ASSUME IInv, IInv', IdsInv, PhotoInv, [Next]_vars
    PROVE  PhotoInv'
<1>1. CASE UNCHANGED vars
  BY <1>1, NextKinds DEF vars, PhotoInv, PhotoIsOfItsMachine, PointersRight
<1>2. ASSUME NEW w \in Workers, Arrive(w) \/ Step(w) \/ Fault(w)
      PROVE  PhotoInv'
  <2>1. KindFixed'
    BY NextKinds DEF PhotoInv
  <2>2. TypeInv /\ None \notin Versions /\ \A v \in versions' : v.id \in Versions
    BY NoneAssumption DEF IInv, TypeInv, TypeOK, VersionRow
  <2>3. PhotoIsOfItsMachine'
    <3>1. ASSUME NEW m \in Machines, NEW v \in versions', photo'[m] = v.id
          PROVE  docs'[v.doc].machine = m /\ docs'[v.doc].kind = "file"
      <4>1. photo'[m] # None
        BY <2>2, <3>1
      <4>2. CASE \E u \in versions : u.id = v.id /\ u.doc = v.doc
        <5>1. PICK u \in versions : u.id = v.id /\ u.doc = v.doc
          BY <4>2
        <5>2. docs'[v.doc].machine = docs[u.doc].machine /\ docs'[v.doc].kind = docs[u.doc].kind
          BY <1>2, <5>1, OldVersionsStay
        <5>3. ~((Commit(w) \/ CommitLostAck(w)) /\ v.id = task[w].id)
          BY <5>1, CommittedIsNew DEF Commit, CommitLostAck
        <5>4. docs[u.doc].machine = m /\ docs[u.doc].kind = "file"
          BY <1>2, <2>2, <3>1, <4>1, <5>1, <5>3, PhotosFrom
             DEF PhotoInv, PhotoIsOfItsMachine, PointersRight
        <5> QED BY <5>2, <5>4
      <4>3. CASE /\ Commit(w) \/ CommitLostAck(w)
                 /\ v.id = task[w].id /\ v.doc = task[w].doc
        <5> DEFINE d == task[w].doc
        <5>1. At(w, "commit") /\ d \in Docs /\ Holds(task[w]) /\ Live(d)
          BY <2>2, <4>3, Committing DEF Commit, CommitLostAck, IInv, NumberIsNext
        <5>2. Repoints(task[w]) /\ m = task[w].row.machine
          BY <1>2, <2>2, <3>1, <4>1, <4>3, <5>1, CommittedIsNew, PhotosFrom
        <5>3. docs[d].machine = m /\ docs[d].kind = "file"
          BY <5>1, <5>2 DEF IInv, SlotIdentity, MachineFixed, PhotoInv, KindFixed, Repoints
        <5>4. docs'[d] # None
          BY <4>3 DEF IInv, HistoryWellFormed, VersionsHaveSlots, Live
        <5>5. SlotLives(d)
          BY <1>2, <5>1, <5>4, SlotsLive
        <5> QED BY <4>3, <5>3, <5>5 DEF SlotLives
      <4> QED BY <1>2, <4>2, <4>3, VersionsFrom
    <3> QED BY <3>1 DEF PhotoIsOfItsMachine
  <2>4. PointersRight'
    <3>1. ASSUME NEW x \in Workers, NEW v \in versions', task'[x].pointer = v.id
          PROVE  docs'[v.doc].machine = task'[x].machine /\ docs'[v.doc].kind = "file"
      <4>1. /\ task'[x].machine = task[x].machine
            /\ \/ v.id = task[x].pointer
               \/ task[x].machine \in Machines /\ v.id = photo[task[x].machine]
        BY <1>2, <2>2, <3>1, PointersFrom
      <4>2. ~((Commit(w) \/ CommitLostAck(w)) /\ v.id = task[w].id)
        BY <4>1, CommittedIsNew DEF Commit, CommitLostAck
      <4>3. PICK u \in versions : u.id = v.id /\ u.doc = v.doc
        BY <1>2, <4>2, VersionsFrom
      <4>4. docs'[v.doc].machine = docs[u.doc].machine /\ docs'[v.doc].kind = docs[u.doc].kind
        BY <1>2, <4>3, OldVersionsStay
      <4> QED BY <4>1, <4>3, <4>4 DEF PhotoInv, PhotoIsOfItsMachine, PointersRight
    <3> QED BY <3>1 DEF PointersRight
  <2> QED BY <2>1, <2>3, <2>4 DEF PhotoInv
<1> QED BY <1>1, <1>2 DEF Next

-----------------------------------------------------------------------------
(***************************************************************************)
(* get.  What it has read so far is in order, and no older than the slot   *)
(* row it began with, as long as the slot lives; nobody can create the     *)
(* slot it has found once more.                                            *)
(***************************************************************************)
GetRight(t) ==
    /\ t.step \in {"find_doc", "read_current", "list", "served"}
    /\ t.doc \in Docs \cap issued
    /\ t.step \in {"find_doc", "read_current"} => t.no = 0
    /\ t.step # "find_doc" =>
         /\ t.row \in DocRow
         /\ \A x \in Workers : Creates(task[x]) => task[x].doc # t.doc
         /\ Live(t.doc) => t.row.current <= docs[t.doc].current
    /\ t.step \in {"list", "served"} /\ Live(t.doc) =>
         t.row.current <= t.no /\ t.no <= docs[t.doc].current
    /\ t.step = "served" /\ Live(t.doc) => t.no <= t.newest

GetInv == \A w \in Workers : task[w].op = "get" => GetRight(task[w])

(* What a living slot's history says of its counter. *)
LEMMA CounterInHistory ==
    ASSUME IInv, NEW d \in Docs, Live(d)
    PROVE  /\ docs[d].current \in Nat
           /\ \A v \in versions : v.doc = d /\ v.is_current => v.no = docs[d].current
           /\ docs[d].current # 0 =>
                \E v \in versions : v.doc = d /\ v.no = docs[d].current /\ v.is_current
<1>1. docs[d].current \in Nat
  BY DEF IInv, TypeInv, TypeOK, Live, DocRow
<1>2. \A v \in versions : v.doc = d => (v.is_current <=> v.no = docs[d].current)
  BY DEF IInv, HistoryWellFormed, NewestIsCurrent
<1>3. docs[d].current # 0 => \E v \in versions : v.doc = d /\ v.no = docs[d].current
  BY <1>1 DEF IInv, HistoryWellFormed, NoGaps
<1> QED BY <1>1, <1>2, <1>3

(* A get that waits while another handler takes a step. *)
LEMMA GetWaits ==
    ASSUME IInv, GetInv, NEW w \in Workers, Arrive(w) \/ Step(w) \/ Fault(w),
           NEW x \in Workers \ {w}, task[x].op = "get"
    PROVE  GetRight(task[x])'
<1> DEFINE d == task[x].doc
<1>1. /\ TypeInv /\ GetRight(task[x]) /\ \A y \in Workers \ {w} : task'[y] = task[y]
      /\ task[x] \in Task
  BY OthersWait DEF IInv, GetInv, TypeInv, TypeOK
<1>2. issued \subseteq issued'
  BY DEF Arrive, BeginCreate, BeginVersion, BeginRestore, BeginRead, BeginSlotChange,
         BeginMachineChange, Begin, Step, Fault, FindMachine, FindDoc, FindVersion, Fetch,
         ReadCurrent, ListVersions, Put, CleanUp, LockSlot, Commit, CommitLostAck,
         BumpVersion, InsertDoc, WriteMeta, EraseDoc, EraseMachine, Cascade, WriteMachine,
         StorageError, RollBack, DatabaseError, Abort, Tables
<1>3. task[x].step # "find_doc" =>
        \A y \in Workers : Creates(task'[y]) => task'[y].doc # d
  <2>1. Creates(task'[w]) => \/ Creates(task[w]) /\ task'[w].doc = task[w].doc
                             \/ task'[w].doc \notin issued
    <3>1. CASE Arrive(w)
      BY <1>1, <3>1, ArriveLocals DEF Brings, Creates
    <3>2. CASE ~Arrive(w)
      BY <1>1, <3>2, GoesOn, IdleKnowsNothing DEF SameRequest, Creates
    <3> QED BY <3>1, <3>2
  <2> QED BY <1>1, <2>1 DEF GetRight
<1>4. task[x].step # "find_doc" /\ docs'[d] # None => Live(d) /\ SlotLives(d)
  BY <1>1, SlotsLive DEF GetRight
<1>5. task[x].no \in Nat /\ (task[x].step # "find_doc" => task[x].row.current \in Nat)
  BY <1>1 DEF GetRight, Task, DocRow
<1>6. docs'[d] # None /\ task[x].step # "find_doc" =>
        Live(d) /\ docs[d].current \in Nat /\ docs'[d].current \in Nat
        /\ docs[d].current <= docs'[d].current
  <2>1. docs'[d] # None => docs'[d].current \in Nat
    <3>1. TypeInv'
      BY <1>1, NextType DEF IInv, Next
    <3> QED BY <1>1, <3>1 DEF TypeInv, TypeOK, DocRow, GetRight
  <2> QED BY <1>1, <1>4, <2>1, CounterInHistory DEF SlotLives, GetRight
<1> HIDE DEF d
<1>7. task'[x] = task[x]
  BY <1>1
<1> QED BY <1>1, <1>2, <1>3, <1>5, <1>6, <1>7 DEF GetRight, Live, d

(* A get that takes a step of its own. *)
LEMMA GetSteps ==
    ASSUME IInv, IInv', GetInv, NEW w \in Workers, Arrive(w) \/ Step(w) \/ Fault(w),
           task'[w].op = "get"
    PROVE  GetRight(task[w])'
<1> DEFINE t == task[w]
           n == task'[w]
<1>1. TypeInv /\ t \in Task /\ Shaped(t) /\ n \in Task /\ Shaped(n)
  BY DEF IInv, TypeInv, AllShaped
<1>2. n # Idle
  BY NoneAssumption DEF Idle, AllOperations
<1>3. CASE Arrive(w)
  <2>1. n.doc \in Docs \cap issued /\ n.no = 0 /\ issued \subseteq issued'
    BY <1>1, <1>3, ArriveLocals DEF Brings
  <2>2. n.step = "find_doc"
    BY <1>1, <1>3, ArriveLocals DEF Brings, Shaped, MachineSteps, MachineOps
  <2> QED BY <2>1, <2>2 DEF GetRight
<1>4. CASE ~Arrive(w)
  <2>1. SameRequest(t, n) /\ t.op = "get" /\ GetRight(t)
    BY <1>1, <1>2, <1>4, GoesOn DEF SameRequest, GetInv
  <2>2. FindDoc(w) \/ ReadCurrent(w) \/ ListVersions(w)
    <3>1. t.step \in {"find_doc", "read_current", "list"}
      BY <1>1, <1>2, <1>4, <2>1, GoesOn DEF GetRight
    <3> QED
      BY <1>1, <1>2, <1>4, <3>1, StepCases
         DEF FindMachine, FindVersion, Fetch, Put, LockSlot, At
  <2>3. UNCHANGED <<docs, versions, issued>>
    BY <2>2 DEF FindDoc, ReadCurrent, ListVersions, Tables
  <2>4. \A x \in Workers : Creates(task'[x]) => Creates(task[x]) /\ task'[x].doc = task[x].doc
    BY <1>1, <1>4, <2>1, OthersWait DEF Creates, SameRequest
  <2>5. Live(t.doc) => /\ docs[t.doc] \in DocRow /\ docs[t.doc].current \in Nat
    BY <1>1, <2>1 DEF GetRight, TypeInv, TypeOK, Live, DocRow
  <2>6. CASE FindDoc(w)
    <3>1. /\ n.content = t.content /\ n.no = t.no /\ n.row = docs[t.doc] /\ Live(t.doc)
          /\ n.step = "read_current" /\ n.doc = t.doc /\ t.step = "find_doc"
      BY <1>1, <1>2, <2>1, <2>6, FindDocLocals DEF FindDoc, At, AfterFindDoc, SameRequest
    <3>2. \A x \in Workers : Creates(task[x]) => task[x].doc # t.doc
      BY <3>1 DEF IInv, SlotIdentity, CreatedAbsent
    <3> QED BY <2>1, <2>3, <2>4, <2>5, <3>1, <3>2 DEF GetRight, Live
  <2>7. CASE ReadCurrent(w)
    <3>1. /\ n.row = t.row /\ n.doc = t.doc /\ n.step = "list" /\ t.step = "read_current"
          /\ \/ /\ \A v \in versions : v.doc = t.doc => ~v.is_current
                /\ n.no = t.no
             \/ \E v \in versions : v.doc = t.doc /\ v.is_current /\ n.no = v.no
      BY <1>1, <2>7, ReadCurrentLocals DEF ReadCurrent, At, SamePayload, SameRow, SameRequest
    <3>2. /\ t.row \in DocRow /\ t.row.current \in Nat /\ t.no = 0 /\ t.doc \in Docs
          /\ Live(t.doc) => t.row.current <= docs[t.doc].current
      BY <2>1, <3>1 DEF GetRight, DocRow
    <3>3. Live(t.doc) => n.no = docs[t.doc].current
      BY <3>1, <3>2, CounterInHistory
    <3> QED BY <2>1, <2>3, <2>4, <2>5, <3>1, <3>2, <3>3 DEF GetRight, Live
  <2>8. CASE ListVersions(w)
    <3>1. /\ n.row = t.row /\ n.doc = t.doc /\ n.step = "served" /\ t.step = "list"
          /\ n.no = t.no
          /\ \/ /\ \A v \in versions : v.doc # t.doc
                /\ n.newest = t.newest
             \/ \E v \in versions :
                    /\ v.doc = t.doc /\ n.newest = v.no
                    /\ \A u \in versions : u.doc = t.doc => u.no <= v.no
      BY <1>1, <2>8, ListVersionsLocals DEF ListVersions, At, SamePayload, SameRow, SameRequest
    <3>2. /\ t.row \in DocRow /\ t.no \in Nat /\ t.doc \in Docs /\ t.newest \in Nat
          /\ Live(t.doc) => t.row.current <= t.no /\ t.no <= docs[t.doc].current
      BY <1>1, <2>1, <3>1 DEF GetRight, Task
    <3>3. \A v \in versions : v.no \in Nat
      BY <1>1 DEF TypeInv, TypeOK, VersionRow
    <3>4. Live(t.doc) => n.no <= n.newest
      <4>1. CASE Live(t.doc) /\ docs[t.doc].current = 0
        <5>1. n.no = 0 /\ n.newest \in Nat
          BY <3>1, <3>2, <3>3, <4>1
        <5> QED BY <5>1
      <4>2. CASE Live(t.doc) /\ docs[t.doc].current # 0
        <5>1. PICK u \in versions : u.doc = t.doc /\ u.no = docs[t.doc].current
          BY <3>2, <4>2, CounterInHistory
        <5>2. PICK v \in versions : v.doc = t.doc /\ n.newest = v.no /\ u.no <= v.no
          BY <3>1, <5>1
        <5> QED BY <2>5, <3>1, <3>2, <3>3, <4>2, <5>1, <5>2
      <4> QED BY <4>1, <4>2
    <3> QED BY <2>1, <2>3, <2>4, <2>5, <3>1, <3>2, <3>4 DEF GetRight, Live
  <2> QED BY <2>2, <2>6, <2>7, <2>8
<1> QED BY <1>3, <1>4

(* Every step keeps the reads of get in order. *)
LEMMA NextGets ==
    ASSUME IInv, IInv', GetInv, [Next]_vars
    PROVE  GetInv'
<1>1. CASE UNCHANGED vars
  BY <1>1 DEF vars, GetInv, GetRight, Creates, Live
<1>2. ASSUME NEW w \in Workers, Arrive(w) \/ Step(w) \/ Fault(w),
             NEW x \in Workers, task'[x].op = "get"
      PROVE  GetRight(task[x])'
  <2>1. CASE x = w
    BY <1>2, <2>1, GetSteps
  <2>2. CASE x # w
    <3>1. task'[x] = task[x]
      BY <1>2, <2>2, OthersWait DEF IInv
    <3> QED BY <1>2, <2>2, <3>1, GetWaits
  <2> QED BY <2>1, <2>2
<1> QED BY <1>1, <1>2 DEF Next, GetInv

-----------------------------------------------------------------------------
(***************************************************************************)
(* Blobs, where no answer to a COMMIT is lost.  An upload that has failed  *)
(* is referred to by nothing, so that it may delete its blob; what a       *)
(* restore or download has found cannot change any more, not even when its *)
(* slot is deleted.                                                        *)
(***************************************************************************)
BlobRight(t) ==
    /\ t.step \in {"lock", "commit"} /\ t.row.kind = "file" => blobs[t.id] = t.content
    /\ t.step = "put" => t.bytes = t.content
    /\ t.step = "fetch" => blobs[t.key] = t.content
    /\ t.step = "cleanup" =>
         Writes(t) /\ \A id \in Versions : t.id = id => ~Referenced(id)
    /\ t.step \in {"read_current", "list"} => t.op = "get"
    /\ t.op = "add_file_version" => t.bytes = t.content
    /\ t.op = "download" /\ t.step = "served" => t.bytes = t.content

PhotosStored ==
    /\ \A m \in Machines : photo[m] # None => blobs[photo[m]] # None
    /\ \A x \in Workers : task[x].pointer # None => blobs[task[x].pointer] # None

BlobInv == VersionsReloadable /\ PhotosStored /\ \A w \in Workers : BlobRight(task[w])

(* The blob store changes under the id of the request at work, if at all. *)
LEMMA BlobsFrom ==
    ASSUME TypeInv, NEW w \in Workers, Arrive(w) \/ Step(w) \/ Fault(w), NEW id \in Versions,
           blobs'[id] # blobs[id]
    PROVE  id = task[w].id /\ task[w].step \in {"put", "cleanup"} /\ ~Commit(w)
BY DEF Arrive, BeginCreate, BeginVersion, BeginRestore, BeginRead, BeginSlotChange,
       BeginMachineChange, Begin, Step, Fault, FindMachine, FindDoc, FindVersion, Fetch,
       ReadCurrent, ListVersions, Put, CleanUp, LockSlot, Commit, CommitLostAck, BumpVersion,
       InsertDoc, WriteMeta, EraseDoc, EraseMachine, Cascade, WriteMachine, StorageError,
       RollBack, DatabaseError, Abort, Tables, Stored, TypeInv, TypeOK, At

(* What is referred to, and what another request has stored, stays. *)
LEMMA BlobsStay ==
    ASSUME IInv, IdsInv, BlobInv, NEW w \in Workers, Arrive(w) \/ Step(w) \/ Fault(w),
           NEW id \in Versions,
           Referenced(id) \/ \E x \in Workers \ {w} : Writes(task[x]) /\ task[x].id = id
    PROVE  blobs'[id] = blobs[id]
<1> SUFFICES ASSUME blobs'[id] # blobs[id]
             PROVE  FALSE
  OBVIOUS
<1>1. id = task[w].id /\ task[w].step \in {"put", "cleanup"}
  BY BlobsFrom DEF IInv
<1>2. Writes(task[w])
  BY <1>1 DEF IInv, TypeInv, AllShaped, Shaped, BlobInv, BlobRight, Writes
<1>3. ~Referenced(id)
  BY <1>1, <1>2 DEF IdsInv, PendingNew, Pending, BlobInv, BlobRight
<1> QED BY <1>1, <1>2, <1>3 DEF IdsInv, WritersApart

(* The versions of file slots stay reloadable. *)
LEMMA NextReloadable ==
    ASSUME "lost_ack" \notin Faults, IInv, IInv', IdsInv, KindFixed, BlobInv,
           NEW w \in Workers, Arrive(w) \/ Step(w) \/ Fault(w)
    PROVE  VersionsReloadable'
<1>1. SUFFICES ASSUME NEW v \in versions', docs'[v.doc].kind = "file"
               PROVE  blobs'[v.id] = v.content
  BY DEF VersionsReloadable
<1>2. v.id \in Versions /\ TypeInv
  BY DEF IInv, TypeInv, TypeOK, VersionRow
<1>3. CASE \E u \in versions : u.id = v.id /\ u.doc = v.doc /\ u.content = v.content
  <2>1. PICK u \in versions : u.id = v.id /\ u.doc = v.doc /\ u.content = v.content
    BY <1>3
  <2>2. docs[u.doc].kind = "file"
    BY <1>1, <2>1, OldVersionsStay
  <2>3. Referenced(v.id)
    BY <2>1 DEF Referenced
  <2>4. blobs'[v.id] = blobs[v.id]
    BY <1>2, <2>3, BlobsStay
  <2> QED BY <2>1, <2>2, <2>4 DEF BlobInv, VersionsReloadable
<1>4. CASE Commit(w) /\ v.id = task[w].id /\ v.doc = task[w].doc /\ v.content = task[w].content
  <2> DEFINE d == task[w].doc
  <2>1. At(w, "commit") /\ d \in Docs /\ Holds(task[w]) /\ Live(d) /\ blobs' = blobs
    BY <1>2, <1>4, Committing DEF Commit, BumpVersion, IInv, NumberIsNext
  <2>2. docs'[d] # None
    BY <1>4 DEF IInv, HistoryWellFormed, VersionsHaveSlots, Live
  <2>3. SlotLives(d)
    BY <2>1, <2>2, SlotsLive
  <2>4. task[w].row.kind = "file"
    BY <1>1, <1>4, <2>1, <2>3 DEF KindFixed, SlotLives
  <2> QED BY <1>4, <2>1, <2>4 DEF BlobInv, BlobRight, At
<1> QED BY <1>3, <1>4, VersionsFrom DEF CommitLostAck

(* What photo pointers name stays stored. *)
LEMMA NextPhotosStored ==
    ASSUME "lost_ack" \notin Faults, IInv, IInv', IdsInv, BlobInv,
           NEW w \in Workers, Arrive(w) \/ Step(w) \/ Fault(w)
    PROVE  PhotosStored'
<1>1. TypeInv /\ TypeInv' /\ None \notin Versions /\ None \notin Payloads
  BY NoneAssumption DEF IInv
<1>2. ASSUME NEW id \in Versions, blobs[id] # None, Referenced(id)
      PROVE  blobs'[id] # None
  BY <1>2, BlobsStay
<1>3. ASSUME NEW m \in Machines, photo'[m] # None
      PROVE  blobs'[photo'[m]] # None
  <2>1. photo'[m] \in Versions
    BY <1>1, <1>3 DEF TypeInv, TypeOK
  <2>2. CASE photo'[m] = photo[m]
    BY <1>2, <1>3, <2>1, <2>2 DEF BlobInv, PhotosStored, Referenced
  <2>3. CASE photo'[m] = task[w].pointer
    BY <1>2, <1>3, <2>1, <2>3 DEF BlobInv, PhotosStored, Referenced
  <2>4. CASE Commit(w) /\ photo'[m] = task[w].id /\ Repoints(task[w])
    <3>1. At(w, "commit") /\ blobs' = blobs /\ task[w].content \in Payloads
      BY <1>1, <2>4, Committing DEF Commit, BumpVersion
    <3> QED BY <1>1, <2>4, <3>1 DEF BlobInv, BlobRight, At, Repoints
  <2> QED BY <1>1, <1>3, <2>2, <2>3, <2>4, PhotosFrom DEF CommitLostAck
<1>4. ASSUME NEW x \in Workers, task'[x].pointer # None
      PROVE  blobs'[task'[x].pointer] # None
  <2>1. task'[x].pointer \in Versions
    BY <1>1, <1>4 DEF TypeInv, AllShaped, Task
  <2>2. \/ task'[x].pointer = task[x].pointer
        \/ task[x].machine \in Machines /\ task'[x].pointer = photo[task[x].machine]
    BY <1>1, <1>4, PointersFrom
  <2> QED BY <1>2, <1>4, <2>1, <2>2 DEF BlobInv, PhotosStored, Referenced
<1> QED BY <1>3, <1>4 DEF PhotosStored

(* A handler that waits keeps what it knows of the blob store. *)
LEMMA BlobWaits ==
    ASSUME "lost_ack" \notin Faults, IInv, IdsInv, BlobInv,
           NEW w \in Workers, Arrive(w) \/ Step(w) \/ Fault(w), NEW x \in Workers \ {w}
    PROVE  BlobRight(task[x])'
<1>1. TypeInv /\ task[x] \in Task /\ Shaped(task[x]) /\ BlobRight(task[x])
  BY DEF IInv, TypeInv, AllShaped, BlobInv
<1>2. task'[x] = task[x]
  BY <1>1, OthersWait
<1>3. Writes(task[x]) => task[x].id \in Versions /\ blobs'[task[x].id] = blobs[task[x].id]
  BY <1>1, BlobsStay DEF Shaped, Writes
<1>4. task[x].step \in {"lock", "commit"} => Writes(task[x])
  BY <1>1 DEF Shaped, Writes
<1>5. task[x].step = "fetch" => blobs'[task[x].key] = blobs[task[x].key]
  <2>1. task[x].step = "fetch" => task[x].key \in Versions /\ Referenced(task[x].key)
    BY <1>1 DEF Shaped, Referenced
  <2> QED BY <2>1, BlobsStay
<1>6. ASSUME task[x].step = "cleanup", NEW id \in Versions, task[x].id = id
      PROVE  ~Referenced(id)'
  <2>1. ~Referenced(id) /\ Writes(task[x])
    BY <1>1, <1>6 DEF BlobRight
  <2>2. CASE Arrive(w)
    <3>1. /\ UNCHANGED <<Tables, blobs>> /\ Brings(task'[w])
          /\ \A y \in Workers \ {w} : task'[y] = task[y]
      BY <1>1, <2>2, ArriveLocals, OthersWait
    <3> QED BY <2>1, <3>1, NoneAssumption DEF Referenced, Tables, Brings
  <2>3. CASE Commit(w)
    <3>1. /\ Referenced(id)' => Referenced(id) \/ id = task[w].id
          /\ Pending(task[w])
      BY <1>1, <2>3, CommitRefs
    <3> QED BY <1>6, <2>1, <3>1 DEF IdsInv, WritersApart, Pending
  <2>4. CASE ~Arrive(w) /\ ~Commit(w)
    BY <1>1, <2>1, <2>4, RefsStay DEF CommitLostAck
  <2> QED BY <2>2, <2>3, <2>4
<1> QED BY <1>1, <1>2, <1>3, <1>4, <1>5, <1>6 DEF BlobRight, Writes

(* A handler that takes a step knows what the step has told it. *)
LEMMA BlobSteps ==
    ASSUME "lost_ack" \notin Faults, IInv, IInv', IdsInv, KindFixed, BlobInv,
           NEW w \in Workers, Arrive(w) \/ Step(w) \/ Fault(w)
    PROVE  BlobRight(task[w])'
<1> DEFINE t == task[w]
           n == task'[w]
<1>1. /\ TypeInv /\ t \in Task /\ Shaped(t) /\ BlobRight(t)
      /\ TypeInv' /\ n \in Task /\ Shaped(n)
  BY DEF IInv, TypeInv, AllShaped, BlobInv
<1>2. CASE n = Idle
  BY <1>2, NoneAssumption DEF Idle, BlobRight, AllOperations
<1>3. CASE Arrive(w)
  BY <1>1, <1>3, ArriveLocals DEF Brings, BlobRight
<1>4. CASE FindMachine(w) /\ n # Idle
  <2>1. n.op = t.op /\ n.bytes = t.bytes /\ n.content = t.content /\ n.step \in MachineSteps
    BY <1>1, <1>4, FindMachineLocals DEF SamePayload, SameRow, SameRequest
  <2> QED BY <1>1, <2>1 DEF BlobRight, MachineSteps
<1>5. CASE FindDoc(w) /\ n # Idle
  <2>1. /\ n.op = t.op /\ n.bytes = t.bytes /\ n.content = t.content
        /\ n.row.kind \in KindOf(t.op) /\ n.step = AfterFindDoc(t.op)
    BY <1>1, <1>5, FindDocLocals DEF SameRequest
  <2>2. n.step \in {"lock", "commit"} => n.row.kind # "file"
    BY <2>1 DEF AfterFindDoc, KindOf
  <2>3. n.step = "put" => n.op = "add_file_version"
    BY <2>1 DEF AfterFindDoc
  <2>4. n.step \notin {"fetch", "cleanup", "list", "served"} /\ (n.step = "read_current" => n.op = "get")
    BY <2>1 DEF AfterFindDoc
  <2> QED BY <1>1, <2>1, <2>2, <2>3, <2>4 DEF BlobRight
<1>6. CASE FindVersion(w) /\ n # Idle
  <2>1. PICK v \in versions :
          /\ v.doc = t.doc /\ n.content = v.content
          /\ \/ t.row.kind = "file" /\ n.key = v.id /\ n.step = "fetch"
             \/ t.row.kind # "file" /\ n.step = "lock"
    BY <1>1, <1>6, FindVersionLocals
  <2>2. n.op = t.op /\ n.row = t.row /\ n.bytes = t.bytes
    BY <1>1, <1>6, FindVersionLocals DEF SameRow, SameRequest
  <2>3. t.op \in {"restore", "download"} /\ blobs' = blobs /\ Holds(t)
    BY <1>1, <1>6 DEF FindVersion, At, Shaped, Holds, RowSteps
  <2>4. t.row.kind = "file" => blobs[v.id] = v.content
    <3>1. Live(v.doc)
      BY DEF IInv, HistoryWellFormed, VersionsHaveSlots
    <3> QED BY <2>1, <2>3, <3>1 DEF KindFixed, BlobInv, VersionsReloadable
  <2> QED BY <2>1, <2>2, <2>3, <2>4 DEF BlobRight
<1>7. CASE Fetch(w) /\ n # Idle
  <2>1. /\ n.op = t.op /\ n.content = t.content /\ n.bytes = blobs[t.key]
        /\ n.step \in {"put", "served"}
    BY <1>1, <1>7, FetchLocals DEF SamePayload, SameRow, SameRequest
  <2>2. n.bytes = n.content
    BY <1>1, <1>7, <2>1 DEF Fetch, At, BlobRight
  <2> QED BY <2>1, <2>2 DEF BlobRight
<1>8. CASE ReadCurrent(w) \/ ListVersions(w)
  <2>1. /\ n.op = t.op /\ n.content = t.content /\ n.bytes = t.bytes
        /\ n.step \in {"list", "served"} /\ t.op = "get"
    BY <1>1, <1>8, ReadCurrentLocals, ListVersionsLocals
       DEF ReadCurrent, ListVersions, At, BlobRight, SamePayload, SameRow, SameRequest
  <2> QED BY <2>1 DEF BlobRight
<1>9. CASE Put(w)
  <2>1. /\ n.op = t.op /\ n.content = t.content /\ n.bytes = t.bytes /\ n.id = t.id
        /\ n.step = "lock"
    BY <1>1, <1>9, PutLocals DEF SamePayload, SameRow, SameRequest
  <2>2. t.id \in Versions /\ t.bytes = t.content /\ blobs' = [blobs EXCEPT ![t.id] = t.bytes]
    BY <1>1, <1>9 DEF Put, Stored, At, Shaped, BlobRight
  <2>3. blobs'[n.id] = n.content
    BY <1>1, <2>1, <2>2 DEF TypeInv, TypeOK
  <2> QED BY <1>1, <2>1, <2>3 DEF BlobRight
<1>10. CASE LockSlot(w) /\ ~AddVersionFailed(w)
  <2>1. /\ n.op = t.op /\ n.content = t.content /\ n.bytes = t.bytes /\ n.id = t.id
        /\ n.row = t.row /\ n.step = "commit" /\ t.step = "lock" /\ blobs' = blobs
    BY <1>1, <1>10, LockSlotLocals DEF LockSlot, At, SamePayload, SameRow, SameRequest
  <2> QED BY <1>1, <2>1 DEF BlobRight
<1>11. CASE AddVersionFailed(w) /\ t.step \in {"lock", "commit"} /\ n # Idle /\ ~Arrive(w)
  <2>1. /\ n.op = t.op /\ n.content = t.content /\ n.bytes = t.bytes /\ n.id = t.id
        /\ n.step = "cleanup" /\ t.op = "add_file_version"
    BY <1>1, <1>11, FailedLocals DEF SamePayload, SameRow, SameRequest
  <2>2. ~Commit(w)
    BY <1>1, <1>11, AnswerTask DEF Commit
  <2>3. Writes(t) /\ Pending(t)
    BY <1>11, <2>1 DEF Writes, Pending, VersionOps
  <2>4. \A id \in Versions : t.id = id => ~Referenced(id)'
    BY <1>1, <1>11, <2>2, <2>3, RefsStay DEF IdsInv, PendingNew, CommitLostAck
  <2> QED BY <1>1, <2>1, <2>3, <2>4 DEF BlobRight, Writes
<1> QED
  BY <1>1, <1>2, <1>3, <1>4, <1>5, <1>6, <1>7, <1>8, <1>9, <1>10, <1>11, StepCases

(* Every step keeps versions reloadable and handlers right about the blobs. *)
LEMMA NextBlobs ==
    ASSUME "lost_ack" \notin Faults, IInv, IInv', IdsInv, KindFixed, BlobInv, [Next]_vars
    PROVE  BlobInv'
<1>1. CASE UNCHANGED vars
  BY <1>1 DEF vars, BlobInv, VersionsReloadable, PhotosStored, BlobRight, Referenced
<1>2. ASSUME NEW w \in Workers, Arrive(w) \/ Step(w) \/ Fault(w)
      PROVE  BlobInv'
  <2>1. ASSUME NEW x \in Workers
        PROVE  BlobRight(task[x])'
    BY <1>2, BlobWaits, BlobSteps
  <2>2. VersionsReloadable' /\ PhotosStored'
    BY <1>2, NextReloadable, NextPhotosStored
  <2> QED BY <2>1, <2>2 DEF BlobInv
<1> QED BY <1>1, <1>2 DEF Next

-----------------------------------------------------------------------------
(***************************************************************************)
(* The invariants together: what holds whatever fails, and what holds      *)
(* where no answer to a COMMIT is lost.                                    *)
(***************************************************************************)
Contents == IInv /\ IdsInv /\ PhotoInv /\ GetInv

(* They hold at the start. *)
LEMMA InitContents == Init => Contents /\ BlobInv
<1> SUFFICES ASSUME Init PROVE Contents /\ BlobInv
  OBVIOUS
<1>1. \A w \in Workers : task[w] = Idle
  BY DEF Init
<1>2. versions = {} /\ (\A m \in Machines : photo[m] = None)
  BY DEF Init
<1>3. \A id \in Versions : ~Referenced(id)
  BY <1>1, <1>2, IdleWritesNothing, NoneAssumption DEF Referenced
<1>4. IdsInv
  BY <1>1, <1>3, IdleWritesNothing
     DEF IdsInv, RefsIssued, WritersIssued, WritersApart, PendingNew
<1>5. PhotoInv
  BY <1>1, <1>2, IdleKnowsNothing DEF PhotoInv, KindFixed, PhotoIsOfItsMachine, PointersRight
<1>6. GetInv
  BY <1>1, NoneAssumption DEF GetInv, Idle, AllOperations
<1>7. BlobInv
  BY <1>1, <1>2, NoneAssumption
     DEF BlobInv, VersionsReloadable, PhotosStored, BlobRight, Idle, AllOperations
<1> QED BY <1>4, <1>5, <1>6, <1>7, InitInv DEF Contents

(* Every step keeps them. *)
LEMMA NextContents == Contents /\ [Next]_vars => Contents'
BY NextInv, NextIds, NextPhotos, NextGets DEF Contents, IInv

(* The first of them holds throughout. *)
THEOREM ContentsHold == Spec => []Contents
<1>1. Init => Contents
  BY InitContents
<1> QED BY <1>1, NextContents, PTL DEF Spec

(***************************************************************************)
(* Where the photo pointer of a machine names a version, it is a file of a *)
(* slot of that machine, whatever writes the pointer and however late.     *)
(***************************************************************************)
THEOREM PhotosOfTheirMachine == Spec => []PhotoIsOfItsMachine
<1>1. Contents => PhotoIsOfItsMachine
  BY DEF Contents, PhotoInv
<1> QED BY <1>1, ContentsHold, PTL

(***************************************************************************)
(* What get shows of a living slot is in order: the counter it read, the   *)
(* version it shows as current, the newest it lists.                       *)
(***************************************************************************)
THEOREM GetsInOrder == Spec => []GetIsMonotone
<1>1. Contents => GetIsMonotone
  BY DEF Contents, GetInv, GetRight, GetIsMonotone, At
<1> QED BY <1>1, ContentsHold, PTL

(* Where no answer to a COMMIT is lost, blobs are right throughout. *)
THEOREM BlobsHold ==
    ASSUME "lost_ack" \notin Faults
    PROVE  Spec => [](Contents /\ BlobInv)
<1>1. Init => Contents /\ BlobInv
  BY InitContents
<1>2. (Contents /\ BlobInv) /\ [Next]_vars => (Contents /\ BlobInv)'
  BY NextContents, NextBlobs DEF Contents, PhotoInv
<1> QED BY <1>1, <1>2, PTL DEF Spec

(***************************************************************************)
(* Where no answer to a COMMIT is lost, every file version of every slot   *)
(* has its bytes in the store, through failed uploads, failed clean-up,    *)
(* dropped requests and restores.                                          *)
(***************************************************************************)
THEOREM AlwaysReloadable ==
    ASSUME "lost_ack" \notin Faults
    PROVE  Spec => []VersionsReloadable
<1>1. Contents /\ BlobInv => VersionsReloadable
  BY DEF BlobInv
<1> QED BY <1>1, BlobsHold, PTL

(***************************************************************************)
(* And a download that succeeds serves what its version's row vouches for. *)
(***************************************************************************)
THEOREM DownloadsGenuine ==
    ASSUME "lost_ack" \notin Faults
    PROVE  Spec => []DownloadMatchesChecksum
<1>1. Contents /\ BlobInv => DownloadMatchesChecksum
  BY DEF BlobInv, BlobRight, DownloadMatchesChecksum, At
<1> QED BY <1>1, BlobsHold, PTL

-----------------------------------------------------------------------------
(***************************************************************************)
(* What the endpoints in use decide.  A request is one of the endpoints    *)
(* that are called, and only some endpoints lead to each write.            *)
(***************************************************************************)
Routed(t) ==
    /\ t.op \in Operations \cup {None}
    /\ t.step = "erase_doc" => t.op = "delete"
    /\ t.step = "erase_machine" => t.op = "delete_machine"
    /\ t.step = "write_meta" => t.op = "rename"
    /\ t.step = "write_machine" => t.op = "update_machine"
    /\ t.step = "put" => t.op \in {"add_file_version", "restore"}

RoutesInv == \A w \in Workers : Routed(task[w])

(* A request that arrives is for an endpoint in use, and has written nothing. *)
LEMMA ArriveRouted ==
    ASSUME TypeInv, NEW w \in Workers, Arrive(w)
    PROVE  Routed(task'[w])
<1>1. task'[w].op \in Operations
  <2>1. CASE BeginCreate(w)
    <3>1. PICK m \in Machines, c \in Categories, k \in Kinds, d \in Docs \ issued :
            "create_slot" \in Operations /\ Resume(w, [Idle EXCEPT !.op = "create_slot", !.step = "find_machine", !.machine = m,
                 !.doc = d, !.row = [machine |-> m, category |-> c, kind |-> k, current |-> 0]])
      BY <2>1 DEF BeginCreate, Begin
    <3> DEFINE u == [Idle EXCEPT !.op = "create_slot", !.step = "find_machine", !.machine = m,
                 !.doc = d, !.row = [machine |-> m, category |-> c, kind |-> k, current |-> 0]]
    <3>2. u.op = "create_slot"
      BY DEF Idle
    <3> HIDE DEF u
    <3> QED BY <3>1, <3>2, ResumeTask DEF u
  <2>2. ASSUME NEW op \in {"add_file_version", "add_json_version"}, BeginVersion(w, op)
        PROVE  task'[w].op \in Operations
    <3>1. PICK d \in Docs \cap issued, v \in Versions \ issued, p \in Payloads :
            op \in Operations /\ Resume(w, [Idle EXCEPT !.op = op, !.step = "find_doc", !.doc = d, !.id = v, !.content = p,
                 !.bytes = IF op = "add_file_version" THEN p ELSE None])
      BY <2>2 DEF BeginVersion, Begin
    <3> DEFINE u == [Idle EXCEPT !.op = op, !.step = "find_doc", !.doc = d, !.id = v, !.content = p,
                 !.bytes = IF op = "add_file_version" THEN p ELSE None]
    <3>2. u.op = op
      BY DEF Idle
    <3> HIDE DEF u
    <3> QED BY <3>1, <3>2, ResumeTask DEF u
  <2>3. CASE BeginRestore(w)
    <3>1. PICK d \in Docs \cap issued, v \in Versions \ issued, n \in 1 .. Cardinality(Versions) :
            "restore" \in Operations /\ Resume(w, [Idle EXCEPT !.op = "restore", !.step = "find_doc", !.doc = d, !.id = v, !.no = n])
      BY <2>3 DEF BeginRestore, Begin
    <3> DEFINE u == [Idle EXCEPT !.op = "restore", !.step = "find_doc", !.doc = d, !.id = v, !.no = n]
    <3>2. u.op = "restore"
      BY DEF Idle
    <3> HIDE DEF u
    <3> QED BY <3>1, <3>2, ResumeTask DEF u
  <2>4. CASE BeginRead(w) \/ BeginSlotChange(w)
    <3>1. PICK op, d, n, c :
            /\ op \in Operations
            /\ \/ Resume(w, [Idle EXCEPT !.op = op, !.step = "find_doc", !.doc = d])
               \/ Resume(w, [Idle EXCEPT !.op = op, !.step = "find_doc", !.doc = d, !.no = n])
               \/ Resume(w, [Idle EXCEPT !.op = op, !.step = "find_doc", !.doc = d, !.category = c])
      BY <2>4 DEF BeginRead, BeginSlotChange, Begin
    <3> DEFINE u1 == [Idle EXCEPT !.op = op, !.step = "find_doc", !.doc = d]
               u2 == [Idle EXCEPT !.op = op, !.step = "find_doc", !.doc = d, !.no = n]
               u3 == [Idle EXCEPT !.op = op, !.step = "find_doc", !.doc = d, !.category = c]
    <3>2. u1.op = op /\ u2.op = op /\ u3.op = op
      BY DEF Idle
    <3>3. Resume(w, u1) \/ Resume(w, u2) \/ Resume(w, u3)
      BY <3>1
    <3> HIDE DEF u1, u2, u3
    <3> QED BY <3>1, <3>2, <3>3, ResumeTask
  <2>5. CASE BeginMachineChange(w)
    <3>1. PICK m \in Machines, op \in {"delete_machine", "update_machine"} :
            op \in Operations /\ Resume(w, [Idle EXCEPT !.op = op, !.step = "find_machine", !.machine = m])
      BY <2>5 DEF BeginMachineChange, Begin
    <3> DEFINE u == [Idle EXCEPT !.op = op, !.step = "find_machine", !.machine = m]
    <3>2. u.op = op
      BY DEF Idle
    <3> HIDE DEF u
    <3> QED BY <3>1, <3>2, ResumeTask DEF u
  <2> QED BY <2>1, <2>2, <2>3, <2>4, <2>5 DEF Arrive
<1> QED BY <1>1, ArriveLocals DEF Brings, Routed

(* A step of a handler stays on its endpoint's way. *)
LEMMA StepRouted ==
    ASSUME TypeInv, NEW w \in Workers, Step(w) \/ Fault(w), Routed(task[w])
    PROVE  Routed(task'[w])
<1> DEFINE t == task[w]
           n == task'[w]
<1>0. t \in Task /\ Shaped(t)
  BY DEF TypeInv, AllShaped
<1>1. CASE n = Idle
  BY <1>1 DEF Idle, Routed
<1>2. CASE n # Idle
  <2>1. n.op = t.op
    BY <1>2, GoesOn DEF SameRequest
  <2>2. CASE FindMachine(w)
    <3> DEFINE p == IF t.op = "update_machine" THEN photo[t.machine] ELSE None
               s == CASE t.op = "create_slot" -> "insert_doc"
                      [] t.op = "delete_machine" -> "erase_machine"
                      [] OTHER -> "write_machine"
               u == [t EXCEPT !.pointer = p, !.step = s]
    <3>1. u.step = s
      BY <1>0 DEF Task
    <3>2. n = u
      BY <1>2, <2>2, ResumeTask, AnswerTask DEF FindMachine
    <3>3. t.op \in MachineOps
      BY <1>0, <2>2 DEF FindMachine, At, Shaped, MachineSteps
    <3>4. n.step = s
      BY <3>1, <3>2
    <3> QED BY <2>1, <3>3, <3>4 DEF Routed, MachineOps
  <2>3. CASE FindDoc(w)
    <3>1. n.step = AfterFindDoc(t.op)
      BY <1>2, <2>3, FindDocLocals
    <3>2. t.op \in AllOperations \ MachineOps
      BY <1>0, <2>3 DEF FindDoc, At, Shaped
    <3> QED BY <2>1, <3>1, <3>2 DEF Routed, AfterFindDoc, AllOperations, MachineOps
  <2>4. CASE Fetch(w)
    <3>1. n.step \in {"put", "served"} /\ (n.step = "served" => t.op = "download")
      BY <1>2, <2>4, FetchLocals
    <3>2. t.op \in {"restore", "download"}
      BY <1>0, <2>4 DEF Fetch, At, Shaped
    <3>3. n.step = "put" => t.op = "restore"
      <4>1. SUFFICES ASSUME t.op = "download" PROVE n.step # "put"
        BY <3>2
      <4> DEFINE b == blobs[t.key]
                 u == [[t EXCEPT !.bytes = b] EXCEPT !.step = "served"]
      <4>2. u.step = "served"
        BY <1>0 DEF Task
      <4>3. n = u
        BY <1>2, <2>4, <4>1, ResumeTask, AnswerTask DEF Fetch, Serve
      <4> HIDE DEF u
      <4> QED BY <4>2, <4>3
    <3> QED BY <2>1, <3>1, <3>3 DEF Routed
  <2>5. CASE FindVersion(w) \/ ReadCurrent(w) \/ ListVersions(w) \/ Put(w)
    <3>1. n.step \in {"fetch", "lock", "list", "served"}
      BY <1>2, <2>5, FindVersionLocals, ReadCurrentLocals, ListVersionsLocals, PutLocals
    <3> QED BY <2>1, <3>1 DEF Routed
  <2>6. CASE LockSlot(w) /\ ~AddVersionFailed(w)
    BY <2>1, <2>6, LockSlotLocals DEF Routed
  <2>7. CASE AddVersionFailed(w)
    BY <1>2, <2>1, <2>7, FailedLocals DEF Routed
  <2> QED BY <1>2, <2>2, <2>3, <2>4, <2>5, <2>6, <2>7, StepCases
<1> QED BY <1>1, <1>2

(* Every step keeps requests on their endpoints' ways. *)
LEMMA NextRoutes == TypeInv /\ RoutesInv /\ [Next]_vars => RoutesInv'
<1> SUFFICES ASSUME TypeInv, RoutesInv, [Next]_vars PROVE RoutesInv'
  OBVIOUS
<1>1. CASE UNCHANGED vars
  BY <1>1 DEF vars, RoutesInv
<1>2. ASSUME NEW w \in Workers, Arrive(w) \/ Step(w) \/ Fault(w)
      PROVE  RoutesInv'
  <2>1. Routed(task'[w])
    BY <1>2, ArriveRouted, StepRouted DEF RoutesInv
  <2>2. \A x \in Workers \ {w} : task'[x] = task[x]
    BY <1>2, OthersWait
  <2>3. ASSUME NEW x \in Workers
        PROVE  Routed(task'[x])
    BY <2>1, <2>2 DEF RoutesInv
  <2> QED BY <2>3 DEF RoutesInv, Routed
<1> QED BY <1>1, <1>2 DEF Next

-----------------------------------------------------------------------------
(***************************************************************************)
(* Orphans.  A restore stores its bytes like an upload, but does not clean *)
(* up after a failed transaction.  So where requests run to their end, the *)
(* blob store answers, slots are not deleted and, if versions are restored *)
(* at all, no statement fails, every blob is a version's or that of a      *)
(* request that has not ended yet.                                         *)
(***************************************************************************)
OwnsBlob(t, id) ==
    /\ t.op \in {"add_file_version", "restore"}
    /\ t.id = id
    /\ t.step \in {"lock", "commit", "cleanup"}

BlobsOwned ==
    \A id \in Versions : blobs[id] # None =>
        \/ \E v \in versions : v.id = id
        \/ \E w \in Workers : OwnsBlob(task[w], id)

OrphansAvoided ==
    /\ Faults \cap {"abort", "storage"} = {}
    /\ Operations \cap {"delete", "delete_machine"} = {}
    /\ "restore" \in Operations => "database" \notin Faults

(***************************************************************************)
(* Without deletions a slot that a handler has read is still there, so the *)
(* locking read of a restore finds it.                                     *)
(***************************************************************************)
SlotsThere == \A w \in Workers : Holds(task[w]) => Live(task[w].doc)

(* Without deletions no slot vanishes. *)
LEMMA SlotsStay ==
    ASSUME TypeInv, NEW w \in Workers, Arrive(w) \/ Step(w) \/ Fault(w),
           ~EraseDoc(w), ~EraseMachine(w), NEW d \in Docs, Live(d)
    PROVE  docs'[d] # None
<1> DEFINE t == task[w]
<1>1. t \in Task /\ Shaped(t)
  BY DEF TypeInv, AllShaped
<1>2. CASE docs' = docs
  BY <1>2 DEF Live
<1>3. ASSUME NEW r \in DocRow, NEW k \in Docs, docs' = [docs EXCEPT ![k] = r]
      PROVE  docs'[d] # None
  BY <1>3, NoneAssumption DEF Live, TypeInv, TypeOK
<1>4. CASE Commit(w) \/ CommitLostAck(w)
  <2>1. t.doc \in Docs /\ t.no \in Nat
    BY <1>4, Committing DEF Commit, CommitLostAck
  <2>2. CASE t.doc = d
    <3>1. [docs[d] EXCEPT !.current = t.no] \in DocRow
      BY <2>1 DEF Live, DocRow, TypeInv, TypeOK
    <3>2. docs' = [docs EXCEPT ![d] = [docs[d] EXCEPT !.current = t.no]]
      BY <1>4, <2>2 DEF Commit, CommitLostAck, BumpVersion, Bumped
    <3> QED BY <1>3, <3>1, <3>2
  <2>3. CASE t.doc # d
    <3>1. docs'[d] = docs[d]
      BY <1>4, <2>3 DEF Commit, CommitLostAck, BumpVersion, Bumped, TypeInv, TypeOK
    <3> QED BY <3>1 DEF Live
  <2> QED BY <2>2, <2>3
<1>5. CASE InsertDoc(w)
  <2>1. t.doc \in Docs /\ t.row \in DocRow
    BY <1>1, <1>5 DEF InsertDoc, At, Shaped
  <2> QED BY <1>2, <1>3, <1>5, <2>1 DEF InsertDoc
<1>6. CASE WriteMeta(w)
  <2>1. t.doc \in Docs /\ t.row \in DocRow
    BY <1>1, <1>6 DEF WriteMeta, At, Shaped, RowSteps
  <2>2. CASE Live(t.doc)
    <3> DEFINE c == IF t.category = None THEN t.row.category ELSE t.category
    <3>1. c \in Categories
      BY <1>1, <2>1 DEF Task, DocRow
    <3>2. docs' = [docs EXCEPT ![t.doc] = [docs[t.doc] EXCEPT !.category = c]]
      BY <1>6, <2>2 DEF WriteMeta, Renamed
    <3> HIDE DEF c
    <3>3. [docs[t.doc] EXCEPT !.category = c] \in DocRow
      BY <2>1, <2>2, <3>1 DEF Live, DocRow, TypeInv, TypeOK
    <3> QED BY <1>3, <2>1, <3>2, <3>3
  <2> QED BY <1>2, <1>6, <2>2 DEF WriteMeta
<1> QED
  BY <1>2, <1>4, <1>5, <1>6
  DEF Arrive, BeginCreate, BeginVersion, BeginRestore, BeginRead, BeginSlotChange,
      BeginMachineChange, Begin, Step, Fault, FindMachine, FindDoc, FindVersion, Fetch,
      ReadCurrent, ListVersions, Put, CleanUp, LockSlot, WriteMachine, StorageError,
      RollBack, DatabaseError, Abort, Tables

(* A handler comes to hold a slot by reading it. *)
LEMMA HoldersRead ==
    ASSUME TypeInv, SlotsThere, NEW w \in Workers, Arrive(w) \/ Step(w) \/ Fault(w),
           Holds(task'[w])
    PROVE  task'[w].doc \in Docs /\ docs[task'[w].doc] # None
<1> DEFINE t == task[w]
<1>1. t \in Task /\ Shaped(t)
  BY DEF TypeInv, AllShaped
<1>2. ~Arrive(w)
  BY ArriveLocals DEF Brings, Holds, RowSteps, ContentSteps
<1>3. CASE FindDoc(w)
  <2>1. task'[w] # Idle
    BY IdleKnowsNothing
  <2>2. docs[t.doc] # None /\ task'[w].doc = t.doc
    BY <1>3, <2>1, FindDocLocals, AnswerTask DEF FindDoc, SameRequest, Live
  <2> QED BY <1>1, <1>3, <2>2 DEF FindDoc, At, Shaped
<1>4. CASE ~FindDoc(w)
  <2>1. Holds(t) /\ task'[w].doc = t.doc
    BY <1>2, <1>4, OnlyFindDocLearns DEF KnowsNoMore
  <2> QED BY <1>1, <2>1 DEF SlotsThere, Holds, Shaped, Live
<1> QED BY <1>3, <1>4

(* Every step leaves the slots that handlers have read. *)
LEMMA NextThere ==
    ASSUME OrphansAvoided, TypeInv, RoutesInv, SlotsThere, [Next]_vars
    PROVE  SlotsThere'
<1>1. CASE UNCHANGED vars
  BY <1>1 DEF vars, SlotsThere, Live
<1>2. ASSUME NEW w \in Workers, Arrive(w) \/ Step(w) \/ Fault(w),
             NEW x \in Workers, Holds(task'[x])
      PROVE  docs'[task'[x].doc] # None
  <2>1. ~EraseDoc(w) /\ ~EraseMachine(w)
    BY NoneAssumption
       DEF RoutesInv, Routed, OrphansAvoided, EraseDoc, EraseMachine, At, AllOperations
  <2>2. task'[x].doc \in Docs /\ docs[task'[x].doc] # None
    <3>1. CASE x = w
      BY <1>2, <3>1, HoldersRead
    <3>2. CASE x # w
      <4>1. task'[x] = task[x]
        BY <1>2, <3>2, OthersWait
      <4>2. Shaped(task[x])
        BY DEF TypeInv, AllShaped
      <4> QED BY <1>2, <4>1, <4>2 DEF SlotsThere, Holds, Shaped, Live
    <3> QED BY <3>1, <3>2
  <2>3. PICK d \in Docs : d = task'[x].doc
    BY <2>2
  <2> QED BY <1>2, <2>1, <2>2, <2>3, SlotsStay DEF Live
<1> QED BY <1>1, <1>2 DEF Next, SlotsThere, Holds, Live

(* Without deletions no version vanishes. *)
LEMMA VersionsStay ==
    ASSUME TypeInv, NEW w \in Workers, Arrive(w) \/ Step(w) \/ Fault(w),
           ~EraseDoc(w), ~EraseMachine(w), NEW v \in versions
    PROVE  \E u \in versions' : u.id = v.id /\ u.doc = v.doc
<1>1. CASE versions' = versions
  BY <1>1
<1>2. CASE Commit(w) \/ CommitLostAck(w)
  <2> DEFINE dem == [v EXCEPT !.is_current = FALSE]
  <2>1. dem.id = v.id /\ dem.doc = v.doc
    BY DEF TypeInv, TypeOK, VersionRow
  <2>2. v \in versions' \/ dem \in versions'
    BY <1>2 DEF Commit, CommitLostAck, BumpVersion, Demoted
  <2> HIDE DEF dem
  <2> QED BY <2>1, <2>2
<1> QED
  BY <1>1, <1>2
  DEF Arrive, BeginCreate, BeginVersion, BeginRestore, BeginRead, BeginSlotChange,
      BeginMachineChange, Begin, Step, Fault, FindMachine, FindDoc, FindVersion, Fetch,
      ReadCurrent, ListVersions, Put, CleanUp, LockSlot, InsertDoc, WriteMeta,
      WriteMachine, StorageError, RollBack, DatabaseError, Abort, Tables

(* The version a commit adds is in the table. *)
LEMMA VersionAdded ==
    ASSUME TypeInv, NEW w \in Workers, Commit(w) \/ CommitLostAck(w)
    PROVE  \E u \in versions' : u.id = task[w].id /\ u.doc = task[w].doc /\ u.is_current
<1> DEFINE new == NewVersion(task[w])
<1>1. /\ new.id = task[w].id /\ new.doc = task[w].doc /\ new.no = task[w].no
      /\ new.is_current = TRUE
  BY DEF NewVersion
<1>2. task[w].no \in Nat
  BY Committing DEF Commit, CommitLostAck
<1> HIDE DEF new
<1>3. new \in versions'
  <2>1. versions' = Demoted(versions \cup {new}, task[w].doc, task[w].no)
    BY DEF Commit, CommitLostAck, BumpVersion, new
  <2> QED BY <1>1, <1>2, <2>1 DEF Demoted
<1> QED BY <1>1, <1>3

(* An upload or restore keeps its blob until it has committed, or removes it. *)
LEMMA OwnerSteps ==
    ASSUME OrphansAvoided, TypeInv, SlotsThere, NEW w \in Workers, Routed(task[w]),
           Arrive(w) \/ Step(w) \/ Fault(w), NEW id \in Versions, OwnsBlob(task[w], id)
    PROVE  \/ OwnsBlob(task'[w], id)
           \/ blobs'[id] = None
           \/ \E v \in versions' : v.id = id
<1> DEFINE t == task[w]
<1>1. /\ t.op \in {"add_file_version", "restore"} /\ t.id = id
      /\ t.step \in {"lock", "commit", "cleanup"}
      /\ t \in Task /\ Shaped(t)
  BY DEF OwnsBlob, TypeInv, AllShaped
<1>2. CASE AddVersionFailed(w) /\ t.op = "add_file_version"
  <2> DEFINE u == [t EXCEPT !.step = "cleanup"]
  <2>1. u.op = t.op /\ u.id = t.id /\ u.step = "cleanup"
    BY <1>1 DEF Task
  <2>2. task'[w] = u
    BY <1>2, GotoTask DEF AddVersionFailed, Steps
  <2> HIDE DEF u
  <2> QED BY <1>1, <2>1, <2>2 DEF OwnsBlob
<1>3. CASE LockSlot(w)
  <2>1. Live(t.doc)
    BY <1>3 DEF LockSlot, At, SlotsThere, Holds, RowSteps, ContentSteps
  <2> DEFINE n == docs[t.doc].current + 1
             u == [t EXCEPT !.no = n, !.step = "commit"]
  <2>2. Resume(w, u)
    BY <1>3, <2>1 DEF LockSlot
  <2> HIDE DEF n
  <2>3. u.op = t.op /\ u.id = t.id /\ u.step = "commit"
    BY <1>1 DEF Task
  <2>4. task'[w] = u
    BY <2>2, ResumeTask
  <2> HIDE DEF u
  <2> QED BY <1>1, <2>3, <2>4 DEF OwnsBlob
<1>4. CASE Commit(w) \/ CommitLostAck(w)
  BY <1>1, <1>4, VersionAdded
<1>5. CASE CleanUp(w)
  BY <1>1, <1>5 DEF CleanUp, TypeInv, TypeOK
<1>6. CASE RollBack(w)
  <2>1. t.op # "restore"
    BY <1>6, NoneAssumption DEF RollBack, Routed, OrphansAvoided, AllOperations
  <2> QED BY <1>1, <1>2, <1>6, <2>1 DEF RollBack
<1>7. ~Arrive(w)
  BY <1>1 DEF Arrive, BeginCreate, BeginVersion, BeginRestore, BeginRead, BeginSlotChange,
              BeginMachineChange, Begin, Running
<1>8. ~(StorageError(w) \/ DatabaseError(w) \/ Abort(w))
  BY <1>1 DEF OrphansAvoided, StorageError, DatabaseError, Abort, AutocommitSteps
<1> QED
  BY <1>1, <1>3, <1>4, <1>5, <1>6, <1>7, <1>8
  DEF Step, Fault, FindMachine, FindDoc, FindVersion, Fetch, ReadCurrent, ListVersions,
      Put, InsertDoc, WriteMeta, EraseDoc, EraseMachine, WriteMachine, At

(* Every step keeps blobs owned. *)
LEMMA NextOwned ==
    ASSUME OrphansAvoided, TypeInv, RoutesInv, SlotsThere, BlobsOwned, [Next]_vars
    PROVE  BlobsOwned'
<1>1. CASE UNCHANGED vars
  BY <1>1 DEF vars, BlobsOwned
<1>2. ASSUME NEW w \in Workers, Arrive(w) \/ Step(w) \/ Fault(w),
             NEW id \in Versions, blobs'[id] # None
      PROVE  \/ \E v \in versions' : v.id = id
             \/ \E x \in Workers : OwnsBlob(task'[x], id)
  <2> DEFINE t == task[w]
  <2>1. Routed(t) /\ Shaped(t) /\ ~EraseDoc(w) /\ ~EraseMachine(w)
    BY NoneAssumption
       DEF RoutesInv, Routed, OrphansAvoided, EraseDoc, EraseMachine, At, AllOperations,
           TypeInv, AllShaped
  <2>2. CASE blobs'[id] # blobs[id]
    <3>1. id = t.id /\ t.step \in {"put", "cleanup"}
      BY <1>2, <2>2, BlobsFrom
    <3>2. Put(w)
      BY <1>2, <2>2, <3>1
         DEF Arrive, BeginCreate, BeginVersion, BeginRestore, BeginRead, BeginSlotChange,
             BeginMachineChange, Begin, Step, Fault, FindMachine, FindDoc, FindVersion,
             Fetch, ReadCurrent, ListVersions, CleanUp, LockSlot, Commit, CommitLostAck,
             BumpVersion, InsertDoc, WriteMeta, EraseDoc, EraseMachine, Cascade,
             WriteMachine, StorageError, RollBack, DatabaseError, Abort, TypeInv, TypeOK,
             OrphansAvoided
    <3>3. t.op \in {"add_file_version", "restore"}
      BY <2>1, <3>2 DEF Put, At, Routed
    <3>4. OwnsBlob(task'[w], id)
      BY <3>1, <3>2, <3>3, PutLocals DEF OwnsBlob, SamePayload, SameRow, SameRequest
    <3> QED BY <3>4
  <2>3. CASE blobs'[id] = blobs[id]
    <3>1. CASE \E v \in versions : v.id = id
      BY <1>2, <2>1, <3>1, VersionsStay
    <3>2. ASSUME NEW x \in Workers, OwnsBlob(task[x], id)
          PROVE  \/ \E v \in versions' : v.id = id
                 \/ \E y \in Workers : OwnsBlob(task'[y], id)
      <4>1. CASE x = w
        BY <1>2, <2>1, <3>2, <4>1, OwnerSteps
      <4>2. CASE x # w
        BY <1>2, <3>2, <4>2, OthersWait
      <4> QED BY <4>1, <4>2
    <3> QED BY <1>2, <2>3, <3>1, <3>2 DEF BlobsOwned
  <2> QED BY <2>2, <2>3
<1> QED BY <1>1, <1>2 DEF Next, BlobsOwned, OwnsBlob

(***************************************************************************)
(* Where requests run to their end, the blob store answers, slots are not  *)
(* deleted and, if versions are restored at all, no statement fails, no    *)
(* blob is orphaned, although statements of uploads fail and answers to    *)
(* COMMIT get lost.                                                        *)
(***************************************************************************)
THEOREM UploadsLeaveNoOrphan == OrphansAvoided => (Spec => []NoOrphanBlob)
<1> SUFFICES ASSUME OrphansAvoided
             PROVE  Spec => []NoOrphanBlob
  OBVIOUS
<1> DEFINE Owned == RoutesInv /\ SlotsThere /\ BlobsOwned
<1>1. Init => Owned
  BY DEF Init, RoutesInv, Routed, Idle, BlobsOwned, SlotsThere, Holds, RowSteps, ContentSteps
<1>2. IInv /\ Owned /\ [Next]_vars => Owned'
  BY NextRoutes, NextThere, NextOwned DEF IInv
<1>3. Owned => NoOrphanBlob
  BY DEF BlobsOwned, OwnsBlob, NoOrphanBlob, Running
<1> HIDE DEF Owned
<1> QED BY <1>1, <1>2, <1>3, InvariantHolds, PTL DEF Spec

-----------------------------------------------------------------------------
(***************************************************************************)
(* The photo pointer.  Where slots are neither renamed nor deleted and     *)
(* machines neither edited nor deleted, a handler's copy of its slot's     *)
(* category is right, so a commit that takes the currency from the version *)
(* that the pointer names moves the pointer as well.                       *)
(***************************************************************************)
PhotosUntouched ==
    Operations \cap {"rename", "delete", "delete_machine", "update_machine"} = {}

CategoryFixed ==
    \A w \in Workers :
        Holds(task[w]) /\ Live(task[w].doc) =>
            task[w].row.category = docs[task[w].doc].category

(* None of the endpoints that disturb photos gets to its write. *)
LEMMA PhotoEndpoints ==
    ASSUME PhotosUntouched, RoutesInv, NEW w \in Workers
    PROVE  ~WriteMeta(w) /\ ~EraseDoc(w) /\ ~EraseMachine(w) /\ ~WriteMachine(w)
BY NoneAssumption
DEF PhotosUntouched, RoutesInv, Routed, WriteMeta, EraseDoc, EraseMachine, WriteMachine, At,
    AllOperations

(* Only rename changes the category of a slot. *)
LEMMA CategoryStays ==
    ASSUME IInv, NEW w \in Workers, Arrive(w) \/ Step(w) \/ Fault(w), ~WriteMeta(w),
           ~EraseDoc(w), ~EraseMachine(w), NEW d \in Docs, Live(d)
    PROVE  docs'[d] # None /\ docs'[d].category = docs[d].category
<1> DEFINE t == task[w]
<1>0. t \in Task /\ Shaped(t) /\ TypeInv /\ docs[d] \in DocRow
  BY DEF IInv, TypeInv, TypeOK, AllShaped, Live
<1>1. CASE docs' = docs
  BY <1>1 DEF Live
<1>2. CASE Commit(w) \/ CommitLostAck(w)
  <2>1. docs' = [docs EXCEPT ![t.doc] = [docs[t.doc] EXCEPT !.current = t.no]]
        /\ t.no \in Nat
    BY <1>0, <1>2, Committing DEF Commit, CommitLostAck, BumpVersion, Bumped
  <2>2. docs'[d] = docs[d] \/ docs'[d] = [docs[d] EXCEPT !.current = t.no]
    BY <1>0, <2>1 DEF TypeInv, TypeOK
  <2>3. LET r == [docs[d] EXCEPT !.current = t.no] IN
        r \in DocRow /\ r.category = docs[d].category
    BY <1>0, <2>1 DEF DocRow
  <2> QED BY <1>0, <2>2, <2>3, NoneAssumption
<1>3. CASE InsertDoc(w)
  <2>1. ~Live(t.doc)
    BY <1>0, <1>3 DEF InsertDoc, At, Shaped, Creates, IInv, SlotIdentity, CreatedAbsent
  <2>2. docs'[d] = docs[d]
    BY <1>0, <1>3, <2>1 DEF InsertDoc, TypeInv, TypeOK
  <2> QED BY <2>2 DEF Live
<1> QED
  BY <1>1, <1>2, <1>3
  DEF Arrive, BeginCreate, BeginVersion, BeginRestore, BeginRead, BeginSlotChange,
      BeginMachineChange, Begin, Step, Fault, FindMachine, FindDoc, FindVersion, Fetch,
      ReadCurrent, ListVersions, Put, CleanUp, LockSlot, WriteMachine, StorageError,
      RollBack, DatabaseError, Abort, Tables

(* Every step keeps the categories that handlers have read. *)
LEMMA NextCategories ==
    ASSUME PhotosUntouched, RoutesInv, IInv, CategoryFixed, [Next]_vars
    PROVE  CategoryFixed'
<1>1. CASE UNCHANGED vars
  BY <1>1 DEF vars, CategoryFixed, Holds, Live
<1>2. ASSUME NEW w \in Workers, Arrive(w) \/ Step(w) \/ Fault(w),
             NEW x \in Workers, Holds(task'[x]), docs'[task'[x].doc] # None
      PROVE  task'[x].row.category = docs'[task'[x].doc].category
  <2>1. TypeInv /\ task[x] \in Task /\ Shaped(task[x])
    BY DEF IInv, TypeInv, AllShaped
  <2>2. CASE /\ Live(task[x].doc) /\ task'[x].doc = task[x].doc /\ docs' = docs
             /\ task'[x].row = docs[task[x].doc]
    BY <2>2
  <2>3. CASE Holds(task[x]) /\ task'[x].doc = task[x].doc /\ task'[x].row = task[x].row
    <3> DEFINE d == task[x].doc
    <3>1. d \in Docs /\ docs'[d] # None
      BY <1>2, <2>1, <2>3 DEF Shaped, Holds
    <3>2. Live(d)
      <4>1. ~(Creates(task[w]) /\ task[w].doc = d /\ ~Live(d)) \/ x = w
        BY <2>3 DEF IInv, SlotIdentity, CreatedUnknown
      <4>2. x = w => ~Creates(task[w])
        BY <2>1, <2>3 DEF Shaped, Holds, Creates, MachineOps
      <4> QED BY <1>2, <3>1, <4>1, <4>2, SlotsLive
    <3>3. docs'[d].category = docs[d].category
      BY <1>2, <3>1, <3>2, PhotoEndpoints, CategoryStays
    <3> QED BY <2>3, <3>2, <3>3 DEF CategoryFixed
  <2> QED BY <1>2, <2>1, <2>2, <2>3, HoldersFrom
<1> QED BY <1>1, <1>2 DEF Next, CategoryFixed, Live

(* Every step leaves the pointer on a current version of a photo slot. *)
LEMMA NextCurrent ==
    ASSUME PhotosUntouched, RoutesInv, IInv, PhotoInv, CategoryFixed, PhotoIsCurrent,
           [Next]_vars
    PROVE  PhotoIsCurrent'
<1>1. CASE UNCHANGED vars
  BY <1>1 DEF vars, PhotoIsCurrent
<1>2. ASSUME NEW w \in Workers, Arrive(w) \/ Step(w) \/ Fault(w),
             NEW m \in Machines, photo'[m] # None
      PROVE  \E v \in versions' :
               v.id = photo'[m] /\ v.is_current /\ docs'[v.doc].category = "photo"
  <2> DEFINE t == task[w]
  <2>1. TypeInv /\ ~WriteMeta(w) /\ ~EraseDoc(w) /\ ~EraseMachine(w) /\ ~WriteMachine(w)
    BY PhotoEndpoints DEF IInv
  <2>2. CASE (Commit(w) \/ CommitLostAck(w)) /\ Repoints(t) /\ photo'[m] = t.id
    <3>1. At(w, "commit") /\ t.doc \in Docs /\ Holds(t) /\ Live(t.doc)
      BY <2>1, <2>2, Committing DEF Commit, CommitLostAck, IInv, NumberIsNext
    <3>2. PICK u \in versions' : u.id = t.id /\ u.doc = t.doc /\ u.is_current
      BY <2>1, <2>2, VersionAdded
    <3>3. docs'[t.doc].category = "photo"
      BY <1>2, <2>1, <2>2, <3>1, CategoryStays DEF CategoryFixed, Repoints
    <3> QED BY <2>2, <3>2, <3>3
  <2>3. CASE photo'[m] = photo[m]
             /\ ~((Commit(w) \/ CommitLostAck(w)) /\ Repoints(t) /\ photo'[m] = t.id)
    <3>1. PICK v \in versions :
            v.id = photo[m] /\ v.is_current /\ docs[v.doc].category = "photo"
      BY <1>2, <2>3 DEF PhotoIsCurrent
    <3>2. v.doc \in Docs /\ Live(v.doc) /\ docs[v.doc].machine = m /\ docs[v.doc].kind = "file"
      BY <3>1 DEF IInv, TypeInv, TypeOK, VersionRow, HistoryWellFormed, VersionsHaveSlots,
                  PhotoInv, PhotoIsOfItsMachine
    <3>3. docs'[v.doc].category = "photo"
      BY <1>2, <2>1, <3>1, <3>2, CategoryStays
    <3>4. v \in versions'
      <4>1. CASE Commit(w) \/ CommitLostAck(w)
        <5>1. t.doc # v.doc
          <6>1. SUFFICES ASSUME t.doc = v.doc PROVE FALSE
            OBVIOUS
          <6>2. At(w, "commit") /\ Holds(t)
            BY <2>1, <4>1, Committing DEF Commit, CommitLostAck
          <6>3. Repoints(t) /\ t.row.machine = m
            BY <3>1, <3>2, <6>1, <6>2
               DEF CategoryFixed, PhotoInv, KindFixed, IInv, SlotIdentity, MachineFixed, Repoints
          <6>4. photo'[m] = t.id
            BY <2>1, <4>1, <6>3 DEF Commit, CommitLostAck, BumpVersion, TypeInv, TypeOK
          <6> QED BY <2>3, <4>1, <6>3, <6>4
        <5> QED BY <4>1, <5>1 DEF Commit, CommitLostAck, BumpVersion, Demoted
      <4>2. CASE versions' = versions
        BY <4>2
      <4> QED
        BY <1>2, <2>1, <4>1, <4>2
        DEF Arrive, BeginCreate, BeginVersion, BeginRestore, BeginRead, BeginSlotChange,
            BeginMachineChange, Begin, Step, Fault, FindMachine, FindDoc, FindVersion, Fetch,
            ReadCurrent, ListVersions, Put, CleanUp, LockSlot, InsertDoc, StorageError,
            RollBack, DatabaseError, Abort, Tables
    <3> QED BY <2>3, <3>1, <3>3, <3>4
  <2>4. \/ photo'[m] = photo[m]
        \/ (Commit(w) \/ CommitLostAck(w)) /\ Repoints(t) /\ photo'[m] = t.id
    <3>1. CASE Commit(w) \/ CommitLostAck(w)
      <4>1. photo' = IF Repoints(t) THEN [photo EXCEPT ![t.row.machine] = t.id] ELSE photo
        BY <3>1 DEF Commit, CommitLostAck, BumpVersion
      <4> QED BY <2>1, <3>1, <4>1 DEF TypeInv, TypeOK
    <3>2. CASE photo' = photo
      BY <3>2
    <3> QED
      BY <1>2, <2>1, <3>1, <3>2
      DEF Arrive, BeginCreate, BeginVersion, BeginRestore, BeginRead, BeginSlotChange,
          BeginMachineChange, Begin, Step, Fault, FindMachine, FindDoc, FindVersion, Fetch,
          ReadCurrent, ListVersions, Put, CleanUp, LockSlot, InsertDoc, StorageError,
          RollBack, DatabaseError, Abort, Tables
  <2> QED BY <2>2, <2>3, <2>4
<1> QED BY <1>1, <1>2 DEF Next, PhotoIsCurrent

(***************************************************************************)
(* Where slots are neither renamed nor deleted and machines neither edited *)
(* nor deleted, the photo pointer names the current version of a photo     *)
(* slot, whatever fails.                                                   *)
(***************************************************************************)
THEOREM PhotosCurrent == PhotosUntouched => (Spec => []PhotoIsCurrent)
<1> SUFFICES ASSUME PhotosUntouched
             PROVE  Spec => []PhotoIsCurrent
  OBVIOUS
<1> DEFINE Inv == RoutesInv /\ CategoryFixed /\ PhotoIsCurrent
<1>1. Init => Inv
  BY IdleKnowsNothing DEF Init, RoutesInv, Routed, Idle, CategoryFixed, PhotoIsCurrent
<1>2. Contents /\ Inv /\ [Next]_vars => Inv'
  BY NextRoutes, NextCategories, NextCurrent DEF Contents, IInv
<1> HIDE DEF Inv
<1>3. Spec => []Inv
  BY <1>1, <1>2, ContentsHold, PTL DEF Spec
<1>4. Inv => PhotoIsCurrent
  BY DEF Inv
<1> QED BY <1>3, <1>4, PTL
===============================================================================
