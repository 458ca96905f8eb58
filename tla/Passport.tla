------------------------------- MODULE Passport -------------------------------
(***************************************************************************)
(* The resolver service: what a scan of a machine's tag is shown.          *)
(*                                                                         *)
(* The resolver reads the tables and the blob store that the api service   *)
(* writes, one autocommit statement after the other and without locks, so  *)
(* this module composes the scans with all of Documents.  A worker serves  *)
(* a request of the api (task) or a scan (scan).  The tag code is looked   *)
(* up in MachineTags, and so is the organisation gate of the full view; a  *)
(* scan here is one that passed it.                                        *)
(***************************************************************************)
EXTENDS Documents

CONSTANT Views  \* the endpoints of the resolver that are called

AllViews == {"summary", "full", "photo"}

ASSUME ViewsAssumption == Views \subseteq AllViews /\ None \notin AllViews \cup Nat

VARIABLE scan  \* the scan each worker serves, with the handler's locals

scanVars == <<vars, scan>>

ScanSteps == {"idle", "lookup", "find_org", "list", "read_current", "find_version",
              "fetch", "served"}

Scan == [view : AllViews \cup {None},
         step : ScanSteps,
         machine : Machines \cup {None},      \* machine of the tag
         pointer : Versions \cup {None},      \* its primary_photo_version_id
         listed : [Docs -> Nat \cup {None}],  \* slots listed, with their counters
         pending : SUBSET Docs,               \* of them, those still to be looked at
         shown : [Docs -> Nat],               \* current version found, 0 if none
         doc : Docs \cup {None},              \* slot of the photo's version
         content : Payloads \cup {None},      \* its checksum
         bytes : Payloads \cup {None},        \* bytes streamed
         there : SUBSET Docs]                 \* history: slots there at the look-up

Nothing == [d \in Docs |-> None]

NoScan == [view |-> None, step |-> "idle", machine |-> None, pointer |-> None,
           listed |-> Nothing, pending |-> {}, shown |-> [d \in Docs |-> 0],
           doc |-> None, content |-> None, bytes |-> None, there |-> {}]

(* The locals of a scan have their types. *)
ScanTypeOK == scan \in [Workers -> Scan]

ScanInit == Init /\ scan = [w \in Workers |-> NoScan]

-----------------------------------------------------------------------------
ScanAt(w, s) == scan[w].step = s
Scanning(w) == ~ScanAt(w, "idle")
Continue(w, s) == scan' = [scan EXCEPT ![w] = s]

\* The response has been sent, or an error: the handler's locals are gone.
Leave(w) == Continue(w, NoScan)

BeginScan(w) ==
    \E m \in Machines, v \in Views :
        /\ At(w, "idle")
        /\ ScanAt(w, "idle")
        /\ Continue(w, [NoScan EXCEPT !.view = v, !.step = "lookup", !.machine = m])

\* machines.find_by_public_code; a photo without a pointer is 404.
Lookup(w) ==
    LET s == scan[w]
        next == IF s.view = "photo" THEN "find_version" ELSE "find_org" IN
    /\ ScanAt(w, "lookup")
    /\ IF s.machine \notin machines \/ (s.view = "photo" /\ photo[s.machine] = None)
       THEN Leave(w)
       ELSE Continue(w, [s EXCEPT !.pointer = photo[s.machine], !.step = next,
                                  !.there = SlotsOf(s.machine)])

\* orgs.find_by_id: an organisation is never deleted, so it is found.
FindOrg(w) ==
    LET s == scan[w] IN
    /\ ScanAt(w, "find_org")
    /\ Continue(w, [s EXCEPT !.step = IF s.view = "full" THEN "list" ELSE "served"])

\* Mutant: only slots that have a version are listed.
MutantListed(m) == {d \in SlotsOf(m) : docs[d].current > 0}

\* WHERE machine_id = ?
Listed(m) == SlotsOf(m)

\* documents.list_by_machine
ListByMachine(w) ==
    LET s == scan[w]
        slots == Listed(s.machine) IN
    /\ ScanAt(w, "list")
    /\ Continue(w, [s EXCEPT
            !.listed = [d \in Docs |-> IF d \in slots THEN docs[d].current ELSE None],
            !.pending = slots,
            !.step = IF slots = {} THEN "served" ELSE "read_current"])

\* Mutant: the version read is the oldest.
MutantCurrentOf(d) == {v \in RowsOf(d) : v.no = 1}

\* WHERE document_id = ? AND is_current = TRUE
CurrentOf(d) == {v \in RowsOf(d) : v.is_current}

\* documents.current_version, for one listed slot after the other, in any order.
ShowCurrent(w) ==
    LET s == scan[w] IN
    /\ ScanAt(w, "read_current")
    /\ \E d \in s.pending :
        LET rest == s.pending \ {d}
            seen == [s EXCEPT !.pending = rest,
                              !.step = IF rest = {} THEN "served" ELSE "read_current"] IN
        \/ CurrentOf(d) = {} /\ Continue(w, seen)
        \/ \E v \in CurrentOf(d) : Continue(w, [seen EXCEPT !.shown[d] = v.no])

\* documents.find_version_by_id, by the id alone; a version that is gone, or has no
\* storage_key since it is JSON, is 404.
FindPhoto(w) ==
    LET s == scan[w]
        found == {v \in versions : v.id = s.pointer /\ docs[v.doc].kind = "file"} IN
    /\ ScanAt(w, "find_version")
    /\ \/ found = {} /\ Leave(w)
       \/ \E v \in found :
            Continue(w, [s EXCEPT !.doc = v.doc, !.content = v.content, !.step = "fetch"])

\* storage.get
FetchPhoto(w) ==
    LET s == scan[w] IN
    /\ ScanAt(w, "fetch")
    /\ IF blobs[s.pointer] = None
       THEN Leave(w)
       ELSE Continue(w, [s EXCEPT !.bytes = blobs[s.pointer], !.step = "served"])

Done(w) == ScanAt(w, "served") /\ Leave(w)

\* A statement or the blob store fails, or the handler future is dropped.
ScanFails(w) ==
    /\ \/ "abort" \in Faults
       \/ "database" \in Faults /\ ~ScanAt(w, "fetch")
       \/ "storage" \in Faults /\ ScanAt(w, "fetch")
    /\ Scanning(w)
    /\ ~ScanAt(w, "served")
    /\ Leave(w)

-----------------------------------------------------------------------------
Resolve(w) ==
    \/ BeginScan(w)
    \/ Lookup(w)
    \/ FindOrg(w)
    \/ ListByMachine(w)
    \/ ShowCurrent(w)
    \/ FindPhoto(w)
    \/ FetchPhoto(w)
    \/ Done(w)
    \/ ScanFails(w)

\* A request of the api, by a worker that serves no scan.
ServeApi(w) == ScanAt(w, "idle") /\ (Arrive(w) \/ Step(w) \/ Fault(w))

ScanNext ==
    \E w \in Workers :
        \/ ServeApi(w) /\ UNCHANGED scan
        \/ Resolve(w) /\ UNCHANGED vars

ScanSpec == ScanInit /\ [][ScanNext]_scanVars

-----------------------------------------------------------------------------
(***************************************************************************)
(* "The version id comes from the machine's own pointer, so this unscoped  *)
(* lookup is already bound to the right org": the version found is a file  *)
(* of a slot of the scanned machine, its bytes are still in the store when *)
(* they are fetched, even if the slot has been deleted meanwhile, and they *)
(* are the bytes its row vouches for.                                      *)
(***************************************************************************)
PhotoIsGenuine ==
    \A w \in Workers :
        LET s == scan[w] IN
        s.view = "photo" /\ s.step \in {"fetch", "served"} =>
            /\ Live(s.doc) => docs[s.doc].machine = s.machine /\ docs[s.doc].kind = "file"
            /\ blobs[s.pointer] = s.content
            /\ ScanAt(w, "served") => s.bytes = s.content

(***************************************************************************)
(* The slots of a full passport are read one by one while versions are     *)
(* added and slots deleted.  A listed slot that still lives is of the      *)
(* scanned machine and shows a current version no older than the counter   *)
(* listed with it, and none that does not exist; only a deleted slot may   *)
(* lack one.                                                               *)
(***************************************************************************)
FullIsMonotone ==
    \A w \in Workers, d \in Docs :
        LET s == scan[w] IN
        ScanAt(w, "served") /\ s.listed[d] # None /\ Live(d) =>
            /\ docs[d].machine = s.machine
            /\ s.listed[d] <= s.shown[d]
            /\ s.shown[d] <= docs[d].current

(***************************************************************************)
(* A full passport leaves out no slot that was there all the time from the *)
(* look-up of the machine to the answer.                                   *)
(***************************************************************************)
FullIsComplete ==
    \A w \in Workers :
        LET s == scan[w] IN
        s.view = "full" /\ ScanAt(w, "served") =>
            \A d \in s.there : Live(d) => s.listed[d] # None

(***************************************************************************)
(* The photo pointer has no foreign key and dangles once the photo's slot  *)
(* is deleted, while the passport goes on offering the photo.  Whatever    *)
(* writes the pointer, and however late, it is never the id of a version   *)
(* that was not committed or is JSON: its bytes are in the store.          *)
(***************************************************************************)
PhotoWasStored == \A m \in Machines : photo[m] # None => blobs[photo[m]] # None
=============================================================================
