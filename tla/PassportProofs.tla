---------------------------- MODULE PassportProofs ----------------------------
(***************************************************************************)
(* What a scan is shown, for any number of scans between any number of     *)
(* requests.  The scans change nothing that Documents speaks of, so all    *)
(* that is proved of Documents holds while machines are scanned; what a    *)
(* scan keeps in its locals is related to the tables step by step.         *)
(***************************************************************************)
EXTENDS Passport, ContentsProofs

(* A step of the service is a step of Documents, or leaves its state alone. *)
LEMMA StepOfDocuments == [ScanNext]_scanVars => [Next]_vars
BY DEF ScanNext, ServeApi, Resolve, Next, scanVars

(* Whatever holds of Documents holds while machines are scanned. *)
THEOREM ScansKeepDocuments == ScanSpec => Spec
BY StepOfDocuments, PTL DEF ScanSpec, ScanInit, Spec

-----------------------------------------------------------------------------
(***************************************************************************)
(* What a step does to the locals of the scan that takes it.               *)
(***************************************************************************)
Unshown == [d \in Docs |-> 0]

NothingListed(s) == s.listed = Nothing /\ s.pending = {} /\ s.shown = Unshown

ScanShaped(s) ==
    /\ s.step # "idle" => s.machine \in Machines /\ s.view \in AllViews
    /\ s.step = "find_org" => s.view # "photo"
    /\ s.step \in {"list", "read_current"} => s.view = "full"
    /\ s.step \in {"find_version", "fetch"} => s.view = "photo" /\ s.pointer # None
    /\ s.step \in {"idle", "lookup"} => s.pointer = None /\ s.there = {}
    /\ s.step \notin {"read_current", "served"} => NothingListed(s)
    /\ s.step = "served" => s.pending = {} /\ (s.view # "full" => NothingListed(s))

ScanTypeInv == ScanTypeOK /\ \A w \in Workers : ScanShaped(scan[w])

(* The locals a scan keeps from its look-up on. *)
SameScan(s, n) ==
    /\ n.view = s.view
    /\ n.machine = s.machine
    /\ n.pointer = s.pointer
    /\ n.there = s.there

SameLists(s, n) == n.listed = s.listed /\ n.pending = s.pending /\ n.shown = s.shown

(* A worker without a scan has the locals of one that has not begun. *)
LEMMA NoScanShaped == NoScan \in Scan /\ ScanShaped(NoScan)
BY NoneAssumption, ViewsAssumption
DEF NoScan, Scan, ScanSteps, ScanShaped, NothingListed, Nothing, Unshown, AllViews

(* Continue changes the locals of one worker. *)
LEMMA ContinueScan ==
    ASSUME ScanTypeOK, NEW w \in Workers, NEW n, Continue(w, n)
    PROVE  scan'[w] = n /\ \A x \in Workers \ {w} : scan'[x] = scan[x]
BY DEF ScanTypeOK, Continue

(* Every step of a scan is one of its worker's locals alone. *)
LEMMA StillFunction ==
    ASSUME ScanTypeOK, NEW w \in Workers, Resolve(w)
    PROVE  scan' = [x \in Workers |-> scan'[x]]
BY DEF ScanTypeOK, Resolve, BeginScan, Lookup, FindOrg, ListByMachine, ShowCurrent,
       FindPhoto, FetchPhoto, Done, ScanFails, Leave, Continue

(* A scan begins with nothing but a view and a machine. *)
LEMMA BeginScanLocals ==
    ASSUME TypeInv, ScanTypeInv, NEW w \in Workers, BeginScan(w)
    PROVE  /\ scan'[w] \in Scan /\ ScanShaped(scan'[w]) /\ scan'[w].step = "lookup"
           /\ \A x \in Workers \ {w} : scan'[x] = scan[x]
<1>1. PICK m \in Machines, v \in Views :
        Continue(w, [NoScan EXCEPT !.view = v, !.step = "lookup", !.machine = m])
  BY DEF BeginScan
<1> DEFINE n == [NoScan EXCEPT !.view = v, !.step = "lookup", !.machine = m]
<1>2. n \in Scan /\ ScanShaped(n) /\ n.step = "lookup"
  BY NoneAssumption, ViewsAssumption
  DEF NoScan, Scan, ScanSteps, ScanShaped, NothingListed, Nothing, Unshown, AllViews
<1> HIDE DEF n
<1> QED BY <1>1, <1>2, ContinueScan DEF n, ScanTypeInv

(* The look-up keeps the pointer of the machine it finds. *)
LEMMA LookupLocals ==
    ASSUME TypeInv, ScanTypeInv, NEW w \in Workers, Lookup(w)
    PROVE  /\ \A x \in Workers \ {w} : scan'[x] = scan[x]
           /\ \/ scan'[w] = NoScan
              \/ /\ scan'[w] \in Scan /\ ScanShaped(scan'[w])
                 /\ scan'[w].step \in {"find_version", "find_org"}
                 /\ scan'[w].machine = scan[w].machine
                 /\ scan'[w].pointer = photo[scan[w].machine]
                 /\ scan'[w].there = SlotsOf(scan[w].machine)
<1> DEFINE s == scan[w]
           next == IF s.view = "photo" THEN "find_version" ELSE "find_org"
           p == photo[s.machine]
           D == SlotsOf(s.machine)
           n == [s EXCEPT !.pointer = p, !.step = next, !.there = D]
<1>1. s \in Scan /\ ScanShaped(s) /\ s.step = "lookup"
  BY DEF ScanTypeInv, ScanTypeOK, Lookup, ScanAt
<1>2. s.machine \in Machines /\ p \in Versions \cup {None} /\ D \subseteq Docs
  BY <1>1 DEF ScanShaped, TypeInv, TypeOK, SlotsOf
<1>3. CASE Leave(w)
  BY <1>3, ContinueScan DEF Leave, ScanTypeInv
<1>4. CASE Continue(w, n) /\ (s.view = "photo" => p # None)
  <2>0. s.view = "photo" => p # None
    BY <1>4
  <2> HIDE DEF p, D
  <2>1. n \in Scan /\ ScanShaped(n) /\ n.machine = s.machine /\ n.pointer = p /\ n.there = D
        /\ n.step \in {"find_version", "find_org"}
    BY <1>1, <1>2, <2>0 DEF Scan, ScanSteps, ScanShaped, NothingListed
  <2> HIDE DEF n, s
  <2> QED BY <1>4, <2>1, ContinueScan DEF s, p, D, ScanTypeInv
<1> QED BY <1>3, <1>4 DEF Lookup

(* Finding the organisation only decides how the scan goes on. *)
LEMMA FindOrgLocals ==
    ASSUME TypeInv, ScanTypeInv, NEW w \in Workers, FindOrg(w)
    PROVE  /\ \A x \in Workers \ {w} : scan'[x] = scan[x]
           /\ scan'[w] \in Scan /\ ScanShaped(scan'[w])
           /\ SameScan(scan[w], scan'[w]) /\ NothingListed(scan'[w])
           /\ scan'[w].step = IF scan[w].view = "full" THEN "list" ELSE "served"
<1> DEFINE s == scan[w]
           next == IF s.view = "full" THEN "list" ELSE "served"
           n == [s EXCEPT !.step = next]
<1>1. s \in Scan /\ ScanShaped(s) /\ s.step = "find_org"
  BY DEF ScanTypeInv, ScanTypeOK, FindOrg, ScanAt
<1>2. n \in Scan /\ ScanShaped(n) /\ SameScan(s, n) /\ NothingListed(n) /\ n.step = next
  BY <1>1 DEF Scan, ScanSteps, ScanShaped, NothingListed, SameScan
<1>3. Continue(w, n)
  BY DEF FindOrg
<1> HIDE DEF n
<1> QED BY <1>2, <1>3, ContinueScan DEF ScanTypeInv

(* Listing the slots keeps their counters, and none is looked at yet. *)
LEMMA ListLocals ==
    ASSUME TypeInv, ScanTypeInv, NEW w \in Workers, ListByMachine(w)
    PROVE  /\ \A x \in Workers \ {w} : scan'[x] = scan[x]
           /\ scan'[w] \in Scan /\ ScanShaped(scan'[w]) /\ SameScan(scan[w], scan'[w])
           /\ scan'[w].step \in {"read_current", "served"}
           /\ \A d \in Docs : scan'[w].listed[d] =
                IF d \in SlotsOf(scan[w].machine) THEN docs[d].current ELSE None
           /\ scan'[w].pending = SlotsOf(scan[w].machine)
           /\ scan'[w].shown = Unshown
<1> DEFINE s == scan[w]
           D == SlotsOf(s.machine)
           L == [d \in Docs |-> IF d \in D THEN docs[d].current ELSE None]
           next == IF D = {} THEN "served" ELSE "read_current"
           n == [s EXCEPT !.listed = L, !.pending = D, !.step = next]
<1>1. s \in Scan /\ ScanShaped(s) /\ s.step = "list" /\ s.view = "full" /\ s.shown = Unshown
  BY DEF ScanTypeInv, ScanTypeOK, ListByMachine, ScanAt, ScanShaped, NothingListed
<1>2. D \subseteq Docs /\ \A d \in D : docs[d].current \in Nat
  BY DEF TypeInv, TypeOK, SlotsOf, Live, DocRow
<1>3. L \in [Docs -> Nat \cup {None}]
  BY <1>2
<1>4. Continue(w, n)
  BY DEF ListByMachine, Listed
<1>5. /\ n \in Scan /\ ScanShaped(n) /\ SameScan(s, n) /\ n.step = next
      /\ n.listed = L /\ n.pending = D /\ n.shown = Unshown
  <2> HIDE DEF L, D
  <2> QED BY <1>1, <1>2, <1>3 DEF Scan, ScanSteps, ScanShaped, SameScan
<1> HIDE DEF n
<1>6. scan'[w] = n /\ \A x \in Workers \ {w} : scan'[x] = scan[x]
  BY <1>4, ContinueScan DEF ScanTypeInv
<1> QED BY <1>5, <1>6

(* One listed slot is looked at: its current version is shown, if it has one. *)
LEMMA ShowCurrentLocals ==
    ASSUME TypeInv, ScanTypeInv, NEW w \in Workers, ShowCurrent(w)
    PROVE  /\ \A x \in Workers \ {w} : scan'[x] = scan[x]
           /\ scan'[w] \in Scan /\ ScanShaped(scan'[w]) /\ SameScan(scan[w], scan'[w])
           /\ scan'[w].step \in {"read_current", "served"}
           /\ scan'[w].listed = scan[w].listed
           /\ \E d \in scan[w].pending :
                /\ scan'[w].pending = scan[w].pending \ {d}
                /\ \A e \in Docs \ {d} : scan'[w].shown[e] = scan[w].shown[e]
                /\ \/ CurrentOf(d) = {} /\ scan'[w].shown = scan[w].shown
                   \/ \E v \in CurrentOf(d) : scan'[w].shown[d] = v.no
<1> DEFINE s == scan[w]
<1>1. s \in Scan /\ ScanShaped(s) /\ s.step = "read_current" /\ s.view = "full"
  BY DEF ScanTypeInv, ScanTypeOK, ShowCurrent, ScanAt, ScanShaped
<1>2. PICK d \in s.pending :
        LET rest == s.pending \ {d}
            seen == [s EXCEPT !.pending = rest,
                              !.step = IF rest = {} THEN "served" ELSE "read_current"] IN
        \/ CurrentOf(d) = {} /\ Continue(w, seen)
        \/ \E v \in CurrentOf(d) : Continue(w, [seen EXCEPT !.shown[d] = v.no])
  BY DEF ShowCurrent
<1> DEFINE rest == s.pending \ {d}
           next == IF rest = {} THEN "served" ELSE "read_current"
           seen == [s EXCEPT !.pending = rest, !.step = next]
<1>3. d \in Docs
  BY <1>1, <1>2 DEF Scan
<1>4. /\ seen \in Scan /\ ScanShaped(seen) /\ SameScan(s, seen) /\ seen.step = next
      /\ seen.listed = s.listed /\ seen.pending = rest /\ seen.shown = s.shown
      /\ seen.view = "full"
  BY <1>1 DEF Scan, ScanSteps, ScanShaped, SameScan
<1>5. CASE CurrentOf(d) = {} /\ Continue(w, seen)
  <2> HIDE DEF seen
  <2>1. scan'[w] = seen /\ \A x \in Workers \ {w} : scan'[x] = scan[x]
    BY <1>5, ContinueScan DEF ScanTypeInv
  <2> QED BY <1>2, <1>4, <1>5, <2>1
<1>6. ASSUME NEW v \in CurrentOf(d), Continue(w, [seen EXCEPT !.shown[d] = v.no])
      PROVE  /\ scan'[w] \in Scan /\ ScanShaped(scan'[w]) /\ SameScan(s, scan'[w])
             /\ scan'[w].step = next /\ scan'[w].listed = s.listed
             /\ scan'[w].pending = rest /\ scan'[w].shown[d] = v.no
             /\ \A e \in Docs \ {d} : scan'[w].shown[e] = s.shown[e]
             /\ \A x \in Workers \ {w} : scan'[x] = scan[x]
  <2> DEFINE sh == [seen.shown EXCEPT ![d] = v.no]
             n == [seen EXCEPT !.shown = sh]
  <2>1. v.no \in Nat
    BY DEF CurrentOf, RowsOf, TypeInv, TypeOK, VersionRow
  <2>2. sh \in [Docs -> Nat] /\ sh[d] = v.no /\ \A e \in Docs \ {d} : sh[e] = s.shown[e]
    BY <1>3, <1>4, <2>1 DEF Scan
  <2> HIDE DEF sh, seen
  <2>3. /\ n \in Scan /\ SameScan(seen, n) /\ n.step = seen.step
        /\ n.listed = seen.listed /\ n.pending = seen.pending /\ n.shown = sh
    BY <1>4, <2>2 DEF Scan, SameScan
  <2>4. ScanShaped(n)
    BY <1>4, <2>3 DEF ScanShaped, SameScan, NothingListed
  <2>5. Continue(w, n)
    BY <1>6 DEF sh
  <2> HIDE DEF n
  <2>6. scan'[w] = n /\ \A x \in Workers \ {w} : scan'[x] = scan[x]
    BY <2>5, ContinueScan DEF ScanTypeInv
  <2> QED BY <1>4, <2>2, <2>3, <2>4, <2>6 DEF SameScan
<1> QED BY <1>2, <1>5, <1>6

(* The version found is a file, and the one the pointer names. *)
LEMMA FindPhotoLocals ==
    ASSUME TypeInv, ScanTypeInv, NEW w \in Workers, FindPhoto(w)
    PROVE  /\ \A x \in Workers \ {w} : scan'[x] = scan[x]
           /\ \/ scan'[w] = NoScan
              \/ /\ scan'[w] \in Scan /\ ScanShaped(scan'[w]) /\ SameScan(scan[w], scan'[w])
                 /\ scan'[w].step = "fetch"
                 /\ \E v \in versions :
                        /\ v.id = scan[w].pointer /\ docs[v.doc].kind = "file"
                        /\ scan'[w].doc = v.doc /\ scan'[w].content = v.content
<1> DEFINE s == scan[w]
<1>1. s \in Scan /\ ScanShaped(s) /\ s.step = "find_version" /\ s.view = "photo"
  BY DEF ScanTypeInv, ScanTypeOK, FindPhoto, ScanAt, ScanShaped
<1>2. CASE Leave(w)
  BY <1>2, ContinueScan DEF Leave, ScanTypeInv
<1>3. ASSUME NEW v \in versions, v.id = s.pointer, docs[v.doc].kind = "file",
             Continue(w, [s EXCEPT !.doc = v.doc, !.content = v.content, !.step = "fetch"])
      PROVE  /\ scan'[w] \in Scan /\ ScanShaped(scan'[w]) /\ SameScan(s, scan'[w])
             /\ scan'[w].step = "fetch" /\ scan'[w].doc = v.doc
             /\ scan'[w].content = v.content
             /\ \A x \in Workers \ {w} : scan'[x] = scan[x]
  <2> DEFINE n == [s EXCEPT !.doc = v.doc, !.content = v.content, !.step = "fetch"]
  <2>1. v.doc \in Docs /\ v.content \in Payloads
    BY DEF TypeInv, TypeOK, VersionRow
  <2>2. /\ n \in Scan /\ SameScan(s, n) /\ n.step = "fetch" /\ n.doc = v.doc
        /\ n.content = v.content /\ SameLists(s, n)
    BY <1>1, <2>1 DEF Scan, ScanSteps, SameScan, SameLists
  <2>3. ScanShaped(n)
    BY <1>1, <2>2 DEF ScanShaped, SameScan, SameLists, NothingListed
  <2> HIDE DEF n
  <2>4. scan'[w] = n /\ \A x \in Workers \ {w} : scan'[x] = scan[x]
    BY <1>3, ContinueScan DEF ScanTypeInv, n
  <2> QED BY <2>2, <2>3, <2>4
<1> QED BY <1>2, <1>3 DEF FindPhoto

(* The bytes served are those in the store under the pointer. *)
LEMMA FetchPhotoLocals ==
    ASSUME TypeInv, ScanTypeInv, NEW w \in Workers, FetchPhoto(w)
    PROVE  /\ \A x \in Workers \ {w} : scan'[x] = scan[x]
           /\ \/ scan'[w] = NoScan
              \/ /\ scan'[w] \in Scan /\ ScanShaped(scan'[w]) /\ SameScan(scan[w], scan'[w])
                 /\ scan'[w].step = "served" /\ scan'[w].doc = scan[w].doc
                 /\ scan'[w].content = scan[w].content
                 /\ scan'[w].bytes = blobs[scan[w].pointer]
<1> DEFINE s == scan[w]
           b == blobs[s.pointer]
           n == [s EXCEPT !.bytes = b, !.step = "served"]
<1>1. s \in Scan /\ ScanShaped(s) /\ s.step = "fetch" /\ s.view = "photo"
  BY DEF ScanTypeInv, ScanTypeOK, FetchPhoto, ScanAt, ScanShaped
<1>0. s.pointer \in Versions
  BY <1>1 DEF Scan, ScanShaped
<1>2. b \in Payloads \cup {None}
  BY <1>0 DEF TypeInv, TypeOK
<1>3. CASE Leave(w)
  BY <1>3, ContinueScan DEF Leave, ScanTypeInv
<1>4. CASE Continue(w, n)
  <2> HIDE DEF b
  <2>1. /\ n \in Scan /\ SameScan(s, n) /\ n.step = "served" /\ n.doc = s.doc
        /\ n.content = s.content /\ n.bytes = b /\ SameLists(s, n)
    BY <1>1, <1>2 DEF Scan, ScanSteps, SameScan, SameLists
  <2>2. ScanShaped(n)
    BY <1>1, <2>1 DEF ScanShaped, SameScan, SameLists, NothingListed
  <2> HIDE DEF n
  <2>3. scan'[w] = n /\ \A x \in Workers \ {w} : scan'[x] = scan[x]
    BY <1>4, ContinueScan DEF ScanTypeInv
  <2> QED BY <2>1, <2>2, <2>3 DEF b
<1> QED BY <1>3, <1>4 DEF FetchPhoto

(* The end of a scan, or its failure. *)
LEMMA LeaveLocals ==
    ASSUME ScanTypeInv, NEW w \in Workers, Leave(w)
    PROVE  scan'[w] = NoScan /\ \A x \in Workers \ {w} : scan'[x] = scan[x]
BY ContinueScan DEF Leave, ScanTypeInv

-----------------------------------------------------------------------------
(***************************************************************************)
(* Slots that a scan has seen.  They were made before, so none of them     *)
(* comes to life again: one that lives now has lived since, with its       *)
(* machine, and its counter has not gone back.                             *)
(***************************************************************************)
Made(d) == d \in issued /\ \A x \in Workers : Creates(task[x]) => task[x].doc # d

(* A slot that is there was made. *)
LEMMA LiveMade ==
    ASSUME IInv, NEW d \in Docs, Live(d)
    PROVE  Made(d)
BY DEF IInv, SlotIdentity, LiveIssued, CreatedAbsent, Made

(* UUIDs stay issued. *)
LEMMA IssuedStays ==
    ASSUME NEW w \in Workers, Arrive(w) \/ Step(w) \/ Fault(w)
    PROVE  issued \subseteq issued'
BY DEF Arrive, BeginCreate, BeginVersion, BeginRestore, BeginRead, BeginSlotChange,
       BeginMachineChange, Begin, Step, Fault, FindMachine, FindDoc, FindVersion, Fetch,
       ReadCurrent, ListVersions, Put, CleanUp, LockSlot, Commit, CommitLostAck,
       BumpVersion, InsertDoc, WriteMeta, EraseDoc, EraseMachine, Cascade, WriteMachine,
       StorageError, RollBack, DatabaseError, Abort, Tables

(* A slot that was made stays made. *)
LEMMA MadeStays ==
    ASSUME TypeInv, NEW w \in Workers, Arrive(w) \/ Step(w) \/ Fault(w), NEW d \in Docs,
           Made(d)
    PROVE  Made(d)'
<1>1. issued \subseteq issued' /\ \A x \in Workers \ {w} : task'[x] = task[x]
  BY IssuedStays, OthersWait
<1>2. Creates(task'[w]) => task'[w].doc # d
  <2>1. CASE Arrive(w)
    BY <2>1, ArriveLocals DEF Brings, Creates, Made
  <2>2. CASE ~Arrive(w)
    BY <2>2, GoesOn, IdleKnowsNothing DEF SameRequest, Creates, Made
  <2> QED BY <2>1, <2>2
<1> QED BY <1>1, <1>2 DEF Made

(* A slot that was made and lives after a step has lived before it. *)
LEMMA MadeLives ==
    ASSUME IInv, IInv', NEW w \in Workers, Arrive(w) \/ Step(w) \/ Fault(w), NEW d \in Docs,
           Made(d), docs'[d] # None
    PROVE  /\ Live(d) /\ SlotLives(d)
           /\ docs[d].current \in Nat /\ docs'[d].current \in Nat
<1>1. Live(d) /\ SlotLives(d)
  BY SlotsLive DEF Made
<1>2. docs[d] \in DocRow /\ docs'[d] \in DocRow
  BY <1>1 DEF IInv, TypeInv, TypeOK, Live
<1> QED BY <1>1, <1>2 DEF DocRow

\* What a full passport has listed and shown of a slot.
SlotSeen(s, d) ==
    s.listed[d] # None =>
        /\ Made(d)
        /\ d \in s.pending => s.shown[d] = 0
        /\ Live(d) =>
             /\ docs[d].machine = s.machine
             /\ s.listed[d] <= docs[d].current
             /\ d \notin s.pending => s.listed[d] <= s.shown[d] /\ s.shown[d] <= docs[d].current

\* A slot that was there at the look-up and still lives is of the machine, and listed.
SlotKept(s, d) ==
    d \in s.there =>
        /\ Made(d)
        /\ Live(d) =>
             /\ docs[d].machine = s.machine
             /\ s.view = "full" /\ s.step \in {"read_current", "served"} => s.listed[d] # None

ScanInv ==
    /\ ScanTypeInv
    /\ \A w \in Workers, d \in Docs : SlotSeen(scan[w], d) /\ SlotKept(scan[w], d)

(* A request leaves what scans have seen of slots right. *)
LEMMA RequestsKeepScans ==
    ASSUME IInv, IInv', ScanInv, NEW w \in Workers, Arrive(w) \/ Step(w) \/ Fault(w),
           UNCHANGED scan
    PROVE  ScanInv'
<1>1. ScanTypeInv'
  BY DEF ScanInv, ScanTypeInv, ScanTypeOK, ScanShaped, NothingListed
<1>2. ASSUME NEW x \in Workers, NEW d \in Docs
      PROVE  SlotSeen(scan[x], d)' /\ SlotKept(scan[x], d)'
  <2> DEFINE s == scan[x]
  <2>1. SlotSeen(s, d) /\ SlotKept(s, d) /\ s \in Scan /\ scan'[x] = s
    BY DEF ScanInv, ScanTypeInv, ScanTypeOK
  <2>2. s.listed[d] \in Nat \cup {None} /\ s.shown[d] \in Nat
    BY <2>1 DEF Scan
  <2>3. Made(d) => Made(d)'
    BY MadeStays DEF IInv
  <2>4. Made(d) /\ docs'[d] # None =>
          /\ Live(d) /\ SlotLives(d)
          /\ docs[d].current \in Nat /\ docs'[d].current \in Nat
    BY MadeLives
  <2> HIDE DEF s
  <2> QED BY <2>1, <2>2, <2>3, <2>4 DEF SlotSeen, SlotKept, SlotLives, Live, s
<1> QED BY <1>1, <1>2 DEF ScanInv

(* A scan that begins or ends has seen nothing. *)
LEMMA NothingSeen ==
    ASSUME NEW s, NEW d \in Docs, s.listed = Nothing, s.there = {}
    PROVE  SlotSeen(s, d) /\ SlotKept(s, d)
BY DEF SlotSeen, SlotKept, Nothing

(* A step of a scan sees the tables as they are. *)
LEMMA ScanSees ==
    ASSUME IInv, ScanInv, NEW w \in Workers, Resolve(w), UNCHANGED vars
    PROVE  /\ scan'[w] \in Scan /\ ScanShaped(scan'[w])
           /\ \A x \in Workers \ {w} : scan'[x] = scan[x]
           /\ \A d \in Docs : SlotSeen(scan'[w], d) /\ SlotKept(scan'[w], d)
<1> DEFINE s == scan[w]
           n == scan'[w]
<1>1. TypeInv /\ ScanTypeInv /\ s \in Scan /\ ScanShaped(s)
      /\ \A d \in Docs : SlotSeen(s, d) /\ SlotKept(s, d)
  BY DEF IInv, ScanInv, ScanTypeInv, ScanTypeOK
<1>2. CASE n = NoScan /\ \A x \in Workers \ {w} : scan'[x] = scan[x]
  BY <1>2, NoScanShaped, NothingSeen DEF NoScan
<1>3. CASE BeginScan(w)
  BY <1>1, <1>3, BeginScanLocals, NothingSeen DEF ScanShaped, NothingListed
<1>4. CASE Lookup(w) /\ n # NoScan
  <2>1. /\ n \in Scan /\ ScanShaped(n) /\ \A x \in Workers \ {w} : scan'[x] = scan[x]
        /\ n.step \in {"find_version", "find_org"} /\ n.machine = s.machine
        /\ n.there = SlotsOf(s.machine)
    BY <1>1, <1>4, LookupLocals
  <2>2. ASSUME NEW d \in Docs
        PROVE  SlotSeen(n, d) /\ SlotKept(n, d)
    BY <2>1, LiveMade DEF ScanShaped, NothingListed, Nothing, SlotSeen, SlotKept, SlotsOf
  <2> QED BY <2>1, <2>2
<1>5. CASE FindOrg(w)
  <2>1. /\ n \in Scan /\ ScanShaped(n) /\ \A x \in Workers \ {w} : scan'[x] = scan[x]
        /\ n.machine = s.machine /\ n.view = s.view /\ n.there = s.there
        /\ n.listed = Nothing /\ (n.view = "full" => n.step = "list")
    BY <1>1, <1>5, FindOrgLocals DEF SameScan, NothingListed
  <2>2. ASSUME NEW d \in Docs
        PROVE  SlotSeen(n, d) /\ SlotKept(n, d)
    BY <1>1, <2>1 DEF Nothing, SlotSeen, SlotKept
  <2> QED BY <2>1, <2>2
<1>6. CASE ListByMachine(w)
  <2>1. /\ n \in Scan /\ ScanShaped(n) /\ \A x \in Workers \ {w} : scan'[x] = scan[x]
        /\ n.machine = s.machine /\ n.there = s.there
        /\ n.pending = SlotsOf(s.machine) /\ n.shown = Unshown
        /\ \A d \in Docs : n.listed[d] =
             IF d \in SlotsOf(s.machine) THEN docs[d].current ELSE None
    BY <1>1, <1>6, ListLocals DEF SameScan
  <2>2. ASSUME NEW d \in Docs
        PROVE  SlotSeen(n, d) /\ SlotKept(n, d)
    <3>1. n.shown[d] = 0
      BY <2>1 DEF Unshown
    <3>2. Live(d) => Made(d) /\ docs[d].current \in Nat /\ docs[d].current # None
      BY LiveMade, CounterInHistory, ViewsAssumption
    <3> QED BY <1>1, <2>1, <3>1, <3>2 DEF SlotSeen, SlotKept, SlotsOf
  <2> QED BY <2>1, <2>2
<1>7. CASE ShowCurrent(w)
  <2>1. /\ n \in Scan /\ ScanShaped(n) /\ \A x \in Workers \ {w} : scan'[x] = scan[x]
        /\ n.machine = s.machine /\ n.there = s.there /\ n.view = s.view
        /\ n.listed = s.listed
    BY <1>1, <1>7, ShowCurrentLocals DEF SameScan
  <2>2. PICK e \in s.pending :
          /\ n.pending = s.pending \ {e}
          /\ \A d \in Docs \ {e} : n.shown[d] = s.shown[d]
          /\ \/ CurrentOf(e) = {} /\ n.shown = s.shown
             \/ \E v \in CurrentOf(e) : n.shown[e] = v.no
    BY <1>1, <1>7, ShowCurrentLocals
  <2>3. s.step = "read_current"
    BY <1>7 DEF ShowCurrent, ScanAt
  <2>4. ASSUME NEW d \in Docs
        PROVE  SlotSeen(n, d)
    <3>1. CASE d # e
      BY <1>1, <2>1, <2>2, <3>1 DEF SlotSeen
    <3>2. CASE d = e /\ ~(Live(d) /\ s.listed[d] # None)
      BY <1>1, <2>1, <2>2, <3>2 DEF SlotSeen
    <3>3. CASE d = e /\ Live(d) /\ s.listed[d] # None
      <4>1. /\ Made(d) /\ s.shown[d] = 0 /\ docs[d].machine = s.machine
            /\ s.listed[d] <= docs[d].current /\ s.listed[d] \in Nat
        BY <1>1, <2>2, <3>3 DEF SlotSeen, Scan
      <4>2. /\ docs[d].current \in Nat
            /\ \A v \in CurrentOf(d) : v.no = docs[d].current
            /\ docs[d].current # 0 => CurrentOf(d) # {}
        BY <3>3, CounterInHistory DEF CurrentOf, RowsOf
      <4>3. n.shown[d] = docs[d].current
        BY <2>2, <3>3, <4>1, <4>2
      <4> QED BY <2>1, <2>2, <3>3, <4>1, <4>2, <4>3 DEF SlotSeen
    <3> QED BY <3>1, <3>2, <3>3
  <2>5. ASSUME NEW d \in Docs
        PROVE  SlotKept(n, d)
    BY <1>1, <2>1, <2>3 DEF SlotKept
  <2> QED BY <2>1, <2>4, <2>5
<1>8. CASE FindPhoto(w) /\ n # NoScan
  <2>1. /\ n \in Scan /\ ScanShaped(n) /\ \A x \in Workers \ {w} : scan'[x] = scan[x]
        /\ n.machine = s.machine /\ n.there = s.there /\ n.view = s.view
        /\ n.step = "fetch"
    BY <1>1, <1>8, FindPhotoLocals DEF SameScan
  <2>2. ASSUME NEW d \in Docs
        PROVE  SlotSeen(n, d) /\ SlotKept(n, d)
    BY <1>1, <2>1 DEF ScanShaped, NothingListed, Nothing, SlotSeen, SlotKept
  <2> QED BY <2>1, <2>2
<1>9. CASE FetchPhoto(w) /\ n # NoScan
  <2>1. /\ n \in Scan /\ ScanShaped(n) /\ \A x \in Workers \ {w} : scan'[x] = scan[x]
        /\ n.machine = s.machine /\ n.there = s.there /\ n.view = s.view
        /\ n.step = "served"
    BY <1>1, <1>9, FetchPhotoLocals DEF SameScan
  <2>2. n.view = "photo"
    BY <1>1, <1>9, <2>1 DEF FetchPhoto, ScanAt, ScanShaped
  <2>3. ASSUME NEW d \in Docs
        PROVE  SlotSeen(n, d) /\ SlotKept(n, d)
    BY <1>1, <2>1, <2>2 DEF ScanShaped, NothingListed, Nothing, SlotSeen, SlotKept
  <2> QED BY <2>1, <2>3
<1>10. CASE Leave(w)
  BY <1>1, <1>2, <1>10, LeaveLocals
<1> QED
  BY <1>1, <1>2, <1>3, <1>4, <1>5, <1>6, <1>7, <1>8, <1>9, <1>10, LookupLocals,
     FindPhotoLocals, FetchPhotoLocals
  DEF Resolve, Done, ScanFails

(* Every step keeps what scans have seen right. *)
LEMMA NextScans ==
    ASSUME IInv, IInv', ScanInv, [ScanNext]_scanVars
    PROVE  ScanInv'
<1>1. CASE UNCHANGED scanVars
  BY <1>1 DEF scanVars, vars, ScanInv, ScanTypeInv, ScanTypeOK, ScanShaped, NothingListed,
              SlotSeen, SlotKept, Made, Live
<1>2. ASSUME NEW w \in Workers, ServeApi(w), UNCHANGED scan
      PROVE  ScanInv'
  BY <1>2, RequestsKeepScans DEF ServeApi
<1>3. ASSUME NEW w \in Workers, Resolve(w), UNCHANGED vars
      PROVE  ScanInv'
  <2>1. /\ scan'[w] \in Scan /\ ScanShaped(scan'[w])
        /\ \A x \in Workers \ {w} : scan'[x] = scan[x]
        /\ \A d \in Docs : SlotSeen(scan'[w], d) /\ SlotKept(scan'[w], d)
    BY <1>3, ScanSees
  <2>2. scan' = [x \in Workers |-> scan'[x]]
    BY <1>3, StillFunction DEF ScanInv, ScanTypeInv
  <2>3. ScanTypeInv'
    BY <2>1, <2>2 DEF ScanInv, ScanTypeInv, ScanTypeOK, ScanShaped, NothingListed
  <2>4. ASSUME NEW x \in Workers, NEW d \in Docs
        PROVE  SlotSeen(scan[x], d)' /\ SlotKept(scan[x], d)'
    <3>1. SlotSeen(scan'[x], d) /\ SlotKept(scan'[x], d)
      BY <2>1 DEF ScanInv
    <3>2. /\ Made(d)' <=> Made(d)
          /\ Live(d)' <=> Live(d)
          /\ docs' = docs
      BY <1>3 DEF vars, Made, Live
    <3> QED BY <3>1, <3>2 DEF SlotSeen, SlotKept
  <2> QED BY <2>3, <2>4 DEF ScanInv
<1> QED BY <1>1, <1>2, <1>3 DEF ScanNext

(* Nothing has been scanned at the start. *)
LEMMA InitScans == ScanInit => ScanInv
<1> SUFFICES ASSUME ScanInit PROVE ScanInv
  OBVIOUS
<1>1. scan = [w \in Workers |-> NoScan]
  BY DEF ScanInit
<1>2. NoScan.listed = Nothing /\ NoScan.there = {}
  BY DEF NoScan
<1>3. \A d \in Docs : SlotSeen(NoScan, d) /\ SlotKept(NoScan, d)
  BY <1>2, NothingSeen
<1> HIDE DEF NoScan
<1> QED BY <1>1, <1>3, NoScanShaped DEF ScanInv, ScanTypeInv, ScanTypeOK

(* The inductive invariant of the scans, with that of the requests. *)
THEOREM ScansHold == ScanSpec => [](Contents /\ ScanInv)
<1>1. ScanInit => ScanInv
  BY InitScans
<1>2. Contents /\ Contents' /\ ScanInv /\ [ScanNext]_scanVars => ScanInv'
  BY NextScans DEF Contents
<1>3. ScanSpec => []Contents
  BY ScansKeepDocuments, ContentsHold, PTL
<1> QED BY <1>1, <1>2, <1>3, PTL DEF ScanSpec

(***************************************************************************)
(* The locals of every scan have their types.                              *)
(***************************************************************************)
THEOREM ScanTypeCorrect == ScanSpec => []ScanTypeOK
<1>1. Contents /\ ScanInv => ScanTypeOK
  BY DEF ScanInv, ScanTypeInv
<1> QED BY <1>1, ScansHold, PTL

(***************************************************************************)
(* A slot that a full passport shows and that still lives is of the        *)
(* scanned machine, with a version no older than the counter listed.       *)
(***************************************************************************)
THEOREM PassportsInOrder == ScanSpec => []FullIsMonotone
<1>1. Contents /\ ScanInv => FullIsMonotone
  BY DEF ScanInv, ScanTypeInv, ScanShaped, SlotSeen, FullIsMonotone, ScanAt
<1> QED BY <1>1, ScansHold, PTL

(***************************************************************************)
(* No slot that is there throughout a scan is left out of its passport.    *)
(***************************************************************************)
THEOREM PassportsComplete == ScanSpec => []FullIsComplete
<1>1. Contents /\ ScanInv => FullIsComplete
  <2>1. SUFFICES ASSUME ScanInv, NEW w \in Workers, scan[w].view = "full",
                        ScanAt(w, "served"), NEW d \in scan[w].there, Live(d)
                 PROVE  scan[w].listed[d] # None
    BY DEF FullIsComplete
  <2>2. d \in Docs
    BY <2>1 DEF ScanInv, ScanTypeInv, ScanTypeOK, Scan
  <2> QED BY <2>1, <2>2 DEF ScanInv, SlotKept, ScanAt
<1> QED BY <1>1, ScansHold, PTL

-----------------------------------------------------------------------------
(***************************************************************************)
(* Photos, where no answer to a COMMIT is lost.  The version a scan has    *)
(* got the id of was committed, so no request that adds a version has that *)
(* id, and none changes its bytes or commits it once more.                 *)
(***************************************************************************)
Used(id) == id \in issued /\ \A x \in Workers : Writes(task[x]) => task[x].id # id

(* What is referred to is used. *)
LEMMA ReferencedUsed ==
    ASSUME IInv, IdsInv, BlobInv, NEW id \in Versions, Referenced(id)
    PROVE  Used(id)
<1>1. id \in issued
  BY DEF IdsInv, RefsIssued
<1>2. ASSUME NEW x \in Workers, Writes(task[x]), task[x].id = id
      PROVE  FALSE
  <2>1. CASE task[x].step = "cleanup"
    BY <1>2, <2>1 DEF BlobInv, BlobRight
  <2>2. CASE task[x].step # "cleanup"
    BY <1>2, <2>2 DEF IdsInv, PendingNew, Pending
  <2> QED BY <2>1, <2>2
<1> QED BY <1>1, <1>2 DEF Used

(* What is used stays used, and its bytes stay. *)
LEMMA UsedStays ==
    ASSUME IInv, BlobInv, NEW w \in Workers, Arrive(w) \/ Step(w) \/ Fault(w),
           NEW id \in Versions, Used(id)
    PROVE  Used(id)' /\ blobs'[id] = blobs[id]
<1>0. TypeInv
  BY DEF IInv
<1>1. issued \subseteq issued' /\ \A x \in Workers \ {w} : task'[x] = task[x]
  BY <1>0, IssuedStays, OthersWait
<1>2. Writes(task'[w]) => task'[w].id # id
  <2>1. CASE Arrive(w)
    BY <1>0, <2>1, ArriveLocals DEF Brings, Writes, Used
  <2>2. CASE ~Arrive(w)
    BY <1>0, <2>2, GoesOn, IdleWritesNothing DEF SameRequest, Writes, Used
  <2> QED BY <2>1, <2>2
<1>3. blobs'[id] = blobs[id]
  <2>1. SUFFICES ASSUME blobs'[id] # blobs[id]
                 PROVE  FALSE
    OBVIOUS
  <2>2. id = task[w].id /\ task[w].step \in {"put", "cleanup"}
    BY <1>0, <2>1, BlobsFrom
  <2>3. Writes(task[w])
    BY <1>0, <2>2 DEF TypeInv, AllShaped, Shaped, BlobInv, BlobRight, Writes
  <2> QED BY <2>2, <2>3 DEF Used
<1> QED BY <1>1, <1>2, <1>3 DEF Used

\* The pointer a scan has read.
PointerRight(s) ==
    s.pointer # None =>
        /\ Used(s.pointer)
        /\ blobs[s.pointer] # None
        /\ \A v \in versions : v.id = s.pointer =>
             docs[v.doc].machine = s.machine /\ docs[v.doc].kind = "file"

\* The photo a scan has found.
PhotoRight(s) ==
    s.view = "photo" /\ s.step \in {"fetch", "served"} =>
        /\ s.pointer # None
        /\ s.doc \in Docs /\ Made(s.doc)
        /\ Live(s.doc) => docs[s.doc].machine = s.machine /\ docs[s.doc].kind = "file"
        /\ blobs[s.pointer] = s.content
        /\ s.step = "served" => s.bytes = s.content

ScanPhotoInv == \A w \in Workers : PointerRight(scan[w]) /\ PhotoRight(scan[w])

(* A request leaves the pointers and photos of scans right. *)
LEMMA RequestsKeepPhotos ==
    ASSUME IInv, IInv', BlobInv, ScanTypeInv, ScanPhotoInv,
           NEW w \in Workers, Arrive(w) \/ Step(w) \/ Fault(w), UNCHANGED scan
    PROVE  ScanPhotoInv'
<1>1. SUFFICES ASSUME NEW x \in Workers
               PROVE  PointerRight(scan[x])' /\ PhotoRight(scan[x])'
  BY DEF ScanPhotoInv
<1> DEFINE s == scan[x]
<1>2. PointerRight(s) /\ PhotoRight(s) /\ s \in Scan /\ scan'[x] = s
  BY DEF ScanPhotoInv, ScanTypeInv, ScanTypeOK
<1>3. s.pointer # None =>
        s.pointer \in Versions /\ Used(s.pointer)' /\ blobs'[s.pointer] = blobs[s.pointer]
  BY <1>2, UsedStays DEF PointerRight, Scan
<1>4. ASSUME NEW v \in versions', v.id = s.pointer, s.pointer # None
      PROVE  docs'[v.doc].machine = s.machine /\ docs'[v.doc].kind = "file"
  <2>1. ~((Commit(w) \/ CommitLostAck(w)) /\ v.id = task[w].id)
    <3>1. Commit(w) \/ CommitLostAck(w) => Writes(task[w])
      BY DEF Commit, CommitLostAck, At, IInv, TypeInv, AllShaped, Shaped, Writes
    <3> QED BY <1>2, <1>4, <3>1 DEF PointerRight, Used
  <2>2. PICK u \in versions : u.id = v.id /\ u.doc = v.doc
    BY <2>1, VersionsFrom
  <2>3. docs'[v.doc].machine = docs[u.doc].machine /\ docs'[v.doc].kind = docs[u.doc].kind
    BY <2>2, OldVersionsStay
  <2> QED BY <1>2, <1>4, <2>2, <2>3 DEF PointerRight
<1>5. s.doc \in Docs /\ Made(s.doc) =>
        Made(s.doc)' /\ (docs'[s.doc] # None => Live(s.doc) /\ SlotLives(s.doc))
  BY MadeStays, MadeLives DEF IInv
<1> HIDE DEF s
<1>6. PointerRight(s)'
  BY <1>2, <1>3, <1>4 DEF PointerRight, s
<1>7. PhotoRight(s)'
  BY <1>2, <1>3, <1>5 DEF PhotoRight, SlotLives, Live, s
<1> QED BY <1>6, <1>7 DEF s

(* A scan that takes a step has the right pointer, and finds the right photo. *)
LEMMA ScanFinds ==
    ASSUME IInv, IdsInv, PhotoInv, BlobInv, ScanTypeInv, ScanPhotoInv,
           NEW w \in Workers, Resolve(w), UNCHANGED vars
    PROVE  PointerRight(scan'[w]) /\ PhotoRight(scan'[w])
<1> DEFINE s == scan[w]
           n == scan'[w]
<1>1. TypeInv /\ s \in Scan /\ ScanShaped(s) /\ PointerRight(s) /\ PhotoRight(s)
  BY DEF IInv, ScanTypeInv, ScanTypeOK, ScanPhotoInv
<1>2. CASE n = NoScan
  BY <1>2, NoneAssumption DEF NoScan, PointerRight, PhotoRight
<1>3. CASE BeginScan(w)
  BY <1>1, <1>3, BeginScanLocals DEF ScanShaped, PointerRight, PhotoRight
<1>4. CASE Lookup(w) /\ n # NoScan
  <2>1. /\ n.step \in {"find_version", "find_org"} /\ n.machine = s.machine
        /\ n.pointer = photo[s.machine]
    BY <1>1, <1>4, LookupLocals
  <2>2. s.machine \in Machines
    BY <1>1, <1>4 DEF Lookup, ScanAt, ScanShaped
  <2>3. ASSUME n.pointer # None
        PROVE  /\ Used(n.pointer) /\ blobs[n.pointer] # None
               /\ \A v \in versions : v.id = n.pointer =>
                    docs[v.doc].machine = n.machine /\ docs[v.doc].kind = "file"
    <3>1. n.pointer \in Versions /\ Referenced(n.pointer)
      BY <1>1, <2>1, <2>2, <2>3 DEF TypeInv, TypeOK, Referenced
    <3> QED
      BY <2>1, <2>2, <2>3, <3>1, ReferencedUsed
      DEF BlobInv, PhotosStored, PhotoInv, PhotoIsOfItsMachine
  <2> QED BY <2>1, <2>3 DEF PointerRight, PhotoRight
<1>5. CASE FindOrg(w) \/ ListByMachine(w) \/ ShowCurrent(w)
  <2>1. n.pointer = s.pointer /\ n.machine = s.machine /\ n.view = s.view
    BY <1>1, <1>5, FindOrgLocals, ListLocals, ShowCurrentLocals DEF SameScan
  <2>2. s.view # "photo"
    BY <1>1, <1>5 DEF FindOrg, ListByMachine, ShowCurrent, ScanAt, ScanShaped
  <2> QED BY <1>1, <2>1, <2>2 DEF PointerRight, PhotoRight
<1>6. CASE FindPhoto(w) /\ n # NoScan
  <2>1. n.pointer = s.pointer /\ n.machine = s.machine /\ n.step = "fetch"
    BY <1>1, <1>6, FindPhotoLocals DEF SameScan
  <2>2. PICK v \in versions :
          /\ v.id = s.pointer /\ docs[v.doc].kind = "file"
          /\ n.doc = v.doc /\ n.content = v.content
    BY <1>1, <1>6, FindPhotoLocals
  <2>3. s.pointer # None
    BY <1>1, <1>6 DEF FindPhoto, ScanAt, ScanShaped
  <2>4. v.doc \in Docs /\ Live(v.doc) /\ Made(v.doc)
    <3>1. v.doc \in Docs /\ Live(v.doc)
      BY <1>1 DEF TypeInv, TypeOK, VersionRow, IInv, HistoryWellFormed, VersionsHaveSlots
    <3> QED BY <3>1, LiveMade
  <2>5. blobs[n.pointer] = n.content /\ docs[v.doc].machine = n.machine
    BY <1>1, <2>1, <2>2, <2>3 DEF BlobInv, VersionsReloadable, PointerRight
  <2> QED BY <1>1, <2>1, <2>2, <2>3, <2>4, <2>5 DEF PointerRight, PhotoRight
<1>7. CASE FetchPhoto(w) /\ n # NoScan
  <2>1. /\ n.pointer = s.pointer /\ n.machine = s.machine /\ n.doc = s.doc
        /\ n.content = s.content /\ n.bytes = blobs[s.pointer]
    BY <1>1, <1>7, FetchPhotoLocals DEF SameScan
  <2>2. s.view = "photo" /\ s.step = "fetch"
    BY <1>1, <1>7 DEF FetchPhoto, ScanAt, ScanShaped
  <2> QED BY <1>1, <2>1, <2>2 DEF PointerRight, PhotoRight
<1>8. CASE Leave(w)
  BY <1>2, <1>8, LeaveLocals
<1> QED
  BY <1>2, <1>3, <1>4, <1>5, <1>6, <1>7, <1>8 DEF Resolve, Done, ScanFails

(* Every step keeps pointers and photos of scans right. *)
LEMMA NextScanPhotos ==
    ASSUME Contents, Contents', BlobInv, ScanInv, ScanPhotoInv, [ScanNext]_scanVars
    PROVE  ScanPhotoInv'
<1>0. IInv /\ IInv' /\ IdsInv /\ PhotoInv /\ ScanTypeInv
  BY DEF Contents, ScanInv
<1>1. CASE UNCHANGED scanVars
  BY <1>1 DEF scanVars, vars, ScanPhotoInv, PointerRight, PhotoRight, Used, Made, Live
<1>2. ASSUME NEW w \in Workers, ServeApi(w), UNCHANGED scan
      PROVE  ScanPhotoInv'
  BY <1>0, <1>2, RequestsKeepPhotos DEF ServeApi
<1>3. ASSUME NEW w \in Workers, Resolve(w), UNCHANGED vars
      PROVE  ScanPhotoInv'
  <2>1. ASSUME NEW x \in Workers
        PROVE  PointerRight(scan[x])' /\ PhotoRight(scan[x])'
    <3>1. PointerRight(scan'[x]) /\ PhotoRight(scan'[x])
      BY <1>0, <1>3, ScanFinds, ScanSees DEF ScanPhotoInv
    <3>2. \A id : Used(id)' <=> Used(id)
      BY <1>3 DEF vars, Used
    <3>3. \A d : (Made(d)' <=> Made(d)) /\ (Live(d)' <=> Live(d))
      BY <1>3 DEF vars, Made, Live
    <3> QED BY <1>3, <3>1, <3>2, <3>3 DEF vars, PointerRight, PhotoRight
  <2> QED BY <2>1 DEF ScanPhotoInv
<1> QED BY <1>1, <1>2, <1>3 DEF ScanNext

(* Where no answer to a COMMIT is lost, scans have the right photos throughout. *)
THEOREM ScanPhotosHold ==
    ASSUME "lost_ack" \notin Faults
    PROVE  ScanSpec => [](Contents /\ BlobInv /\ ScanPhotoInv)
<1>1. ScanInit => ScanPhotoInv
  BY NoneAssumption DEF ScanInit, NoScan, ScanPhotoInv, PointerRight, PhotoRight
<1>2. Contents /\ Contents' /\ BlobInv /\ ScanInv /\ ScanPhotoInv /\ [ScanNext]_scanVars
        => ScanPhotoInv'
  BY NextScanPhotos
<1>3. ScanSpec => [](Contents /\ BlobInv)
  BY ScansKeepDocuments, BlobsHold, PTL
<1> QED BY <1>1, <1>2, <1>3, ScansHold, PTL DEF ScanSpec

(***************************************************************************)
(* Where no answer to a COMMIT is lost, the photo that a scan streams is a *)
(* file of a slot of the scanned machine, and the bytes its row vouches    *)
(* for, also when the slot is deleted between the reads.                   *)
(***************************************************************************)
THEOREM PhotosGenuine ==
    ASSUME "lost_ack" \notin Faults
    PROVE  ScanSpec => []PhotoIsGenuine
<1>1. Contents /\ BlobInv /\ ScanPhotoInv => PhotoIsGenuine
  BY DEF ScanPhotoInv, PhotoRight, PhotoIsGenuine, ScanAt
<1> QED BY <1>1, ScanPhotosHold, PTL

(***************************************************************************)
(* And a photo pointer, however stale, names bytes that are in the store.  *)
(***************************************************************************)
THEOREM PhotosWereStored ==
    ASSUME "lost_ack" \notin Faults
    PROVE  ScanSpec => []PhotoWasStored
<1>1. Contents /\ BlobInv /\ ScanPhotoInv => PhotoWasStored
  BY DEF BlobInv, PhotosStored, PhotoWasStored
<1> QED BY <1>1, ScanPhotosHold, PTL
===============================================================================
