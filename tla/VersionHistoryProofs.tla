------------------------- MODULE VersionHistoryProofs -------------------------
(***************************************************************************)
(* Documents implements VersionHistory: whatever requests interleave and   *)
(* whatever fails, each step of the tables is a step of the logs, or none. *)
(***************************************************************************)
EXTENDS DocumentsProofs, SequenceTheorems

\* The log of a living slot.
Log(d) == [n \in 1 .. docs[d].current |-> ContentOf(d, n)]

-----------------------------------------------------------------------------
(* A version's payload is found under its slot and number. *)
LEMMA ContentFound ==
    ASSUME NumbersUnique, NEW v \in versions
    PROVE  ContentOf(v.doc, v.no) = v.content
<1> DEFINE rows == {u \in versions : u.doc = v.doc /\ u.no = v.no}
<1>1. rows = {v}
  BY DEF NumbersUnique
<1>2. ContentOf(v.doc, v.no) = (CHOOSE u \in rows : TRUE).content
  BY <1>1 DEF ContentOf
<1>3. (CHOOSE u \in rows : TRUE) = v
  BY <1>1
<1> QED BY <1>2, <1>3

(* The log of a living slot is a sequence of payloads, as long as its counter. *)
LEMMA LogIsSeq ==
    ASSUME TypeInv, HistoryWellFormed, NEW d \in Docs, Live(d)
    PROVE  /\ Log(d) \in Seq(Payloads)
           /\ Len(Log(d)) = docs[d].current
           /\ docs[d].current \in Nat
           /\ Log(d) # None
<1>1. docs[d].current \in Nat
  BY DEF Live, TypeInv, TypeOK, DocRow
<1>2. ASSUME NEW n \in 1 .. docs[d].current
      PROVE  ContentOf(d, n) \in Payloads
  <2>1. PICK v \in versions : v.doc = d /\ v.no = n
    BY <1>2 DEF HistoryWellFormed, NoGaps
  <2>2. ContentOf(d, n) = v.content
    BY <2>1, ContentFound DEF HistoryWellFormed
  <2> QED BY <2>2 DEF TypeInv, TypeOK, VersionRow
<1>3. Log(d) \in [1 .. docs[d].current -> Payloads]
  BY <1>2 DEF Log
<1>4. Log(d) \in Seq(Payloads)
  BY <1>1, <1>3, SeqDef
<1>5. Len(Log(d)) = docs[d].current
  BY <1>1, <1>3
<1> QED BY <1>1, <1>4, <1>5, NoneAssumption

(* A number keeps its payload as long as the slot lives. *)
LEMMA PayloadStays ==
    ASSUME HistoryWellFormed, HistoryWellFormed', HistoryKept,
           NEW d \in Docs, Live(d), Live(d)', NEW n \in 1 .. docs[d].current
    PROVE  ContentOf(d, n)' = ContentOf(d, n)
<1>1. PICK v \in versions : v.doc = d /\ v.no = n
  BY DEF HistoryWellFormed, NoGaps
<1>2. PICK u \in versions' : u.doc = d /\ u.no = n /\ u.content = v.content
  BY <1>1 DEF HistoryKept, Live
<1>3. NumbersUnique /\ NumbersUnique'
  BY DEF HistoryWellFormed
<1>4. ContentOf(d, n) = v.content
  BY <1>1, <1>3, ContentFound
<1>5. \A r, s \in versions' : r.doc = s.doc /\ r.no = s.no => r = s
  BY <1>3 DEF NumbersUnique
<1> DEFINE rows == {r \in versions' : r.doc = d /\ r.no = n}
<1>6. rows = {u}
  BY <1>2, <1>5
<1>7. ContentOf(d, n)' = (CHOOSE r \in rows : TRUE).content
  BY <1>6 DEF ContentOf
<1>8. (CHOOSE r \in rows : TRUE) = u
  BY <1>6
<1> QED BY <1>2, <1>4, <1>7, <1>8

(* So a slot whose counter stays keeps its log. *)
LEMMA LogStays ==
    ASSUME HistoryWellFormed, HistoryWellFormed', HistoryKept,
           NEW d \in Docs, Live(d), Live(d)', docs'[d].current = docs[d].current
    PROVE  History'[d] = History[d]
<1>1. \A n \in 1 .. docs[d].current : ContentOf(d, n)' = ContentOf(d, n)
  BY PayloadStays
<1>2. History[d] = Log(d)
  BY DEF History, Log
<1>3. History'[d] = Log(d)'
  BY DEF History, Log
<1>4. Log(d)' = [n \in 1 .. docs'[d].current |-> ContentOf(d, n)']
  BY DEF Log
<1> QED BY <1>1, <1>2, <1>3, <1>4 DEF Log

-----------------------------------------------------------------------------
(***************************************************************************)
(* The invariant before and after a step, and the past that it keeps.      *)
(***************************************************************************)
Sound == IInv /\ IInv' /\ HistoryKept

(* A step that adds, ends and bumps no slot is no step of the logs. *)
LEMMA SameLogs ==
    ASSUME Sound, \A d \in Docs : Live(d)' <=> Live(d),
           \A d \in Docs : Live(d) => docs'[d].current = docs[d].current
    PROVE  History' = History
<1>1. ASSUME NEW d \in Docs
      PROVE  History'[d] = History[d]
  <2>1. CASE Live(d)
    BY <2>1, LogStays DEF Sound, IInv
  <2>2. CASE ~Live(d)
    BY <2>2 DEF History
  <2> QED BY <2>1, <2>2
<1>2. History = [d \in Docs |-> History[d]]
  BY DEF History
<1>3. History' = [d \in Docs |-> History'[d]]
  BY DEF History
<1> QED BY <1>1, <1>2, <1>3

(* A commit appends the payload of the request to the log of its slot. *)
LEMMA CommitAppends ==
    ASSUME Sound, NEW w \in Workers, At(w, "commit"), BumpVersion(w),
           NEW d \in Docs, d = task[w].doc, NEW p \in Payloads, p = task[w].content,
           NEW k \in Nat, k = docs[d].current
    PROVE  Promise!AppendVersion(d, p)
<1>1. /\ d \in Docs /\ Live(d) /\ task[w].no = k + 1 /\ p \in Payloads
      /\ task[w] \in Task /\ docs[d] \in DocRow /\ task[w].id \in Versions
  BY Committing DEF Sound, IInv, NumberIsNext, Live, TypeInv, TypeOK
<1>2. Log(d) \in Seq(Payloads) /\ Len(Log(d)) = k /\ k \in Nat /\ Log(d) # None
  BY <1>1, LogIsSeq DEF Sound, IInv
<1>3. docs' = [docs EXCEPT ![d] = [docs[d] EXCEPT !.current = k + 1]]
  BY <1>1 DEF BumpVersion, Bumped
<1>4. [docs[d] EXCEPT !.current = k + 1] \in DocRow
  BY <1>1, <1>2 DEF DocRow
<1>5. docs'[d].current = k + 1 /\ docs'[d] # None
  BY <1>1, <1>3, <1>4, NoneAssumption DEF Sound, IInv, TypeInv, TypeOK, DocRow
<1>6. ContentOf(d, k + 1)' = p
  <2> DEFINE new == NewVersion(task[w])
  <2>1. new \in VersionRow /\ new.doc = d /\ new.no = k + 1 /\ new.content = p
    BY <1>1, <1>2 DEF NewVersion, VersionRow
  <2> HIDE DEF new
  <2>2. \E u \in versions' : u.doc = d /\ u.no = k + 1 /\ u.content = p
    <3>1. versions' = {IF v.doc = d /\ v.no < k + 1 THEN [v EXCEPT !.is_current = FALSE]
                       ELSE v : v \in versions \cup {new}}
      BY <1>1 DEF BumpVersion, Demoted, new
    <3>2. ~(new.doc = d /\ new.no < k + 1)
      BY <1>2, <2>1
    <3> QED BY <2>1, <3>1, <3>2
  <2>3. PICK u \in versions' : u.doc = d /\ u.no = k + 1 /\ u.content = p
    BY <2>2
  <2>4. \A r, s \in versions' : r.doc = s.doc /\ r.no = s.no => r = s
    BY DEF Sound, IInv, HistoryWellFormed, NumbersUnique
  <2> DEFINE rows == {r \in versions' : r.doc = d /\ r.no = k + 1}
  <2>5. rows = {u}
    BY <2>3, <2>4
  <2>6. (CHOOSE r \in rows : TRUE) = u
    BY <2>5
  <2>7. rows # {}
    BY <2>5
  <2>8. ContentOf(d, k + 1)' = (CHOOSE r \in rows : TRUE).content
    BY <1>3, <2>7 DEF ContentOf
  <2> QED BY <2>3, <2>6, <2>8
<1>7. History[d] = Log(d)
  BY <1>1 DEF History, Log
<1>8. \A n \in 1 .. k : ContentOf(d, n)' = ContentOf(d, n)
  BY <1>1, <1>5, PayloadStays DEF Sound, IInv, Live
<1>9. History'[d] = [n \in 1 .. k + 1 |-> ContentOf(d, n)']
  BY <1>1, <1>5 DEF History, Live
<1>10. History'[d] = [n \in 1 .. k + 1 |-> IF n = k + 1 THEN p ELSE Log(d)[n]]
  <2>1. \A n \in 1 .. k + 1 :
          ContentOf(d, n)' = IF n = k + 1 THEN p ELSE Log(d)[n]
    BY <1>2, <1>6, <1>8 DEF Log
  <2> QED BY <1>9, <2>1
<1>11. History'[d] = Append(Log(d), p)
  <2>1. Append(Log(d), p) = [n \in 1 .. k + 1 |-> IF n = k + 1 THEN p ELSE Log(d)[n]]
    BY <1>1, <1>2
  <2> QED BY <1>10, <2>1
<1>12. \A e \in Docs \ {d} : History'[e] = History[e]
  <2>1. \A e \in Docs \ {d} : docs'[e] = docs[e]
    BY <1>3 DEF Sound, IInv, TypeInv, TypeOK
  <2> QED BY <2>1, LogStays DEF Sound, IInv, History, Live
<1>13. History' = [History EXCEPT ![d] = Append(History[d], p)]
  <2>1. History = [e \in Docs |-> History[e]]
    BY DEF History
  <2>2. History' = [e \in Docs |-> History'[e]]
    BY DEF History
  <2> QED BY <1>1, <1>7, <1>11, <1>12, <2>1, <2>2
<1>14. History[d] # None
  BY <1>2, <1>7
<1> QED BY <1>13, <1>14 DEF Promise!AppendVersion

(* A cascade ends the logs of the slots it deletes. *)
LEMMA CascadeErases ==
    ASSUME Sound, NEW D \in SUBSET Docs, Cascade(D)
    PROVE  Promise!Erase(D)
<1>1. \A d \in Docs : docs'[d] = IF d \in D THEN None ELSE docs[d]
  BY DEF Cascade
<1>2. \A d \in Docs \ D : History'[d] = History[d]
  <2>1. ASSUME NEW d \in Docs \ D
        PROVE  History'[d] = History[d]
    <3>1. CASE Live(d)
      BY <1>1, <3>1, LogStays DEF Sound, IInv, Live
    <3>2. CASE ~Live(d)
      BY <1>1, <3>2 DEF History, Live
    <3> QED BY <3>1, <3>2
  <2> QED BY <2>1
<1>3. \A d \in D : History'[d] = None
  BY <1>1 DEF History, Live
<1>4. History' = [d \in Docs |-> History'[d]]
  BY DEF History
<1>5. History' = [d \in Docs |-> IF d \in D THEN None ELSE History[d]]
  BY <1>2, <1>3, <1>4
<1> QED BY <1>5 DEF Promise!Erase

(* A new slot begins an empty log. *)
LEMMA InsertCreates ==
    ASSUME Sound, NEW w \in Workers, InsertDoc(w), docs' # docs,
           NEW d \in Docs, d = task[w].doc
    PROVE  Promise!Create(d)
<1>1. /\ ~Live(d) /\ task[w].row \in DocRow /\ task[w].row.current = 0
      /\ docs' = [docs EXCEPT ![d] = task[w].row]
  BY DEF InsertDoc, At, Sound, IInv, TypeInv, AllShaped, Shaped, SlotIdentity, CreatedAbsent,
         Creates
<1>2. docs'[d] # None /\ docs'[d].current = 0
  BY <1>1, NoneAssumption DEF Sound, IInv, TypeInv, TypeOK
<1>3. \A e \in Docs \ {d} : docs'[e] = docs[e]
  BY <1>1 DEF Sound, IInv, TypeInv, TypeOK
<1>4. History[d] = None
  BY <1>1 DEF History
<1>5. History'[d] = <<>>
  <2>1. History'[d] = [n \in 1 .. 0 |-> ContentOf(d, n)']
    BY <1>2 DEF History, Live
  <2> QED BY <2>1
<1>6. \A e \in Docs \ {d} : History'[e] = History[e]
  <2>1. ASSUME NEW e \in Docs \ {d}
        PROVE  History'[e] = History[e]
    <3>1. CASE Live(e)
      BY <1>3, <3>1, LogStays DEF Sound, IInv, Live
    <3>2. CASE ~Live(e)
      BY <1>3, <3>2 DEF History, Live
    <3> QED BY <3>1, <3>2
  <2> QED BY <2>1
<1>7. History = [e \in Docs |-> History[e]]
  BY DEF History
<1>8. History' = [e \in Docs |-> History'[e]]
  BY DEF History
<1>9. History' = [History EXCEPT ![d] = <<>>]
  BY <1>5, <1>6, <1>7, <1>8
<1> QED BY <1>4, <1>9 DEF Promise!Create

(* A rename is no step of the logs. *)
LEMMA RenameKeepsLogs ==
    ASSUME Sound, NEW w \in Workers, WriteMeta(w)
    PROVE  History' = History
<1> DEFINE t == task[w]
           c == IF t.category = None THEN t.row.category ELSE t.category
<1>1. t.doc \in Docs /\ c \in Categories
  BY DEF WriteMeta, At, Task, Shaped, RowSteps, DocRow, Sound, IInv, TypeInv, AllShaped
<1>2. docs' = docs \/
      (Live(t.doc) /\ docs' = [docs EXCEPT ![t.doc] = [docs[t.doc] EXCEPT !.category = c]])
  BY DEF WriteMeta, Renamed
<1> HIDE DEF c
<1>3. Live(t.doc) => docs[t.doc] \in DocRow
  BY <1>1 DEF Live, Sound, IInv, TypeInv, TypeOK
<1>4. LET r == [docs[t.doc] EXCEPT !.category = c] IN
      Live(t.doc) => r.current = docs[t.doc].current /\ r # None
  BY <1>1, <1>3, NoneAssumption DEF DocRow
<1> QED BY <1>1, <1>2, <1>4, SameLogs DEF Live, Sound, IInv, TypeInv, TypeOK

(* Every step is a step of the logs, or none. *)
LEMMA NextPromised ==
    ASSUME Sound, [Next]_vars
    PROVE  [Promise!Next]_History
<1>1. CASE UNCHANGED docs
  BY <1>1, SameLogs DEF Live
<1>2. ASSUME NEW w \in Workers, Arrive(w) \/ Step(w) \/ Fault(w)
      PROVE  [Promise!Next]_History
  <2>1. CASE Commit(w) \/ CommitLostAck(w)
    <3>1. At(w, "commit") /\ BumpVersion(w)
      BY <2>1 DEF Commit, CommitLostAck
    <3>2. /\ task[w].doc \in Docs /\ task[w].content \in Payloads
          /\ docs[task[w].doc].current \in Nat
      BY <3>1, Committing DEF Sound, IInv, NumberIsNext, Live, TypeInv, TypeOK, DocRow
    <3>3. Promise!AppendVersion(task[w].doc, task[w].content)
      BY <3>1, <3>2, CommitAppends
    <3> QED BY <3>2, <3>3 DEF Promise!Next
  <2>2. CASE EraseDoc(w)
    <3>1. task[w].doc \in Docs
      BY <2>2 DEF EraseDoc, At, Sound, IInv, TypeInv, AllShaped, Shaped, RowSteps
    <3>2. Promise!Erase({task[w].doc})
      BY <2>2, <3>1, CascadeErases DEF EraseDoc
    <3> QED BY <3>1, <3>2 DEF Promise!Next
  <2>3. CASE EraseMachine(w)
    <3>1. SlotsOf(task[w].machine) \in SUBSET Docs
      BY DEF SlotsOf
    <3>2. Promise!Erase(SlotsOf(task[w].machine))
      BY <2>3, <3>1, CascadeErases DEF EraseMachine
    <3> QED BY <3>1, <3>2 DEF Promise!Next
  <2>4. CASE InsertDoc(w) /\ docs' # docs
    <3>1. task[w].doc \in Docs
      BY <2>4 DEF InsertDoc, At, Sound, IInv, TypeInv, AllShaped, Shaped
    <3>2. Promise!Create(task[w].doc)
      BY <2>4, <3>1, InsertCreates
    <3> QED BY <3>1, <3>2 DEF Promise!Next
  <2>5. CASE WriteMeta(w)
    BY <2>5, RenameKeepsLogs
  <2> QED
    BY <1>1, <1>2, <2>1, <2>2, <2>3, <2>4, <2>5
    DEF Arrive, BeginCreate, BeginVersion, BeginRestore, BeginRead, BeginSlotChange,
        BeginMachineChange, Begin, Step, Fault, FindMachine, FindDoc, FindVersion, Fetch,
        ReadCurrent, ListVersions, Put, CleanUp, LockSlot, WriteMachine, StorageError,
        RollBack, DatabaseError, Abort, Tables
<1> QED BY <1>1, <1>2 DEF Next, vars

(* At the start there is no slot, and no log. *)
LEMMA InitPromised == Init => Promise!Init
BY DEF Init, Promise!Init, History, Live

(***************************************************************************)
(* The tables keep the promise of VersionHistory for any number of slots,  *)
(* versions and concurrent requests, whatever fails: a log is only ever    *)
(* appended to, by one payload per commit, or ended as a whole.            *)
(***************************************************************************)
THEOREM PromiseKept == Spec => ImplementsVersionHistory
<1>1. Init => Promise!Init
  BY InitPromised
<1>2. IInv /\ IInv' /\ [Next]_vars => [Promise!Next]_History
  BY NextInv, NextPromised DEF Sound
<1> QED BY <1>1, <1>2, InvariantHolds, PTL DEF Spec, ImplementsVersionHistory, Promise!Spec
=============================================================================
