------------------------------- MODULE Reports -------------------------------
(***************************************************************************)
(* The reports on an organisation's machines that take several statements  *)
(* while machines come and go: the paged list, which a client walks page   *)
(* by page, and the estimate of the yearly bill.                           *)
(*                                                                         *)
(* The list of the organisation's accounts is the same code over another   *)
(* table.  MachineTags has the requests that write the table in full; here *)
(* they are the statements they end in, and what an edit may do to the two *)
(* columns that the estimate looks at.  Readers do not disturb each other, *)
(* so one is enough.  Page numbers that exist are far from overflowing.    *)
(***************************************************************************)
EXTENDS Integers, FiniteSets, FiniteSetsExt

CONSTANTS
    Machines,       \* ids available, numbers in the order of their UUIDs
    MaxTime,        \* a bound on the clock
    MaxEdits,       \* a bound on edits
    Statuses,       \* values of machines.status
    Plans,          \* the catalogue: plan ids
    Price,          \* price_per_machine_year: [Plans -> Nat]
    Fee,            \* onboarding_fee: [Plans -> Nat]
    Offered,        \* plans that are active
    Periods,        \* billing periods a subscription may have, <<start, end>> or None
    DefaultPerPage, \* 20 in the code
    MaxPerPage,     \* 100 in the code
    PerPage,        \* values of the per_page parameter, None if it is left out
    None            \* SQL NULL, a missing row, Option::None

Time == 0 .. MaxTime
Row == [created : Time, status : Statuses, plan : Plans \cup {None}]

ASSUME MachinesAssumption == Machines \subseteq Nat /\ IsFiniteSet(Machines)
ASSUME BoundsAssumption == MaxTime \in Nat /\ MaxEdits \in Nat
ASSUME CatalogueAssumption ==
    /\ Price \in [Plans -> Nat]
    /\ Fee \in [Plans -> Nat]
    /\ Offered \subseteq Plans
    /\ IsFiniteSet(Plans)
ASSUME PeriodsAssumption == Periods \subseteq (Time \X Time) \cup {None}
ASSUME PagesAssumption ==
    /\ DefaultPerPage \in 1 .. MaxPerPage
    /\ MaxPerPage \in Nat
    /\ PerPage \subseteq Int \cup {None}
ASSUME NoneAssumption == None \notin Plans \cup Row \cup Int \cup (Time \X Time)

VARIABLES
    rows,     \* the organisation's rows of table machines, None where there is none
    drawn,    \* creates under way: the created_at they have drawn, or None
    spent,    \* ids that were drawn
    now,      \* the clock
    edits,    \* edits so far, for their bound
    period,   \* current_period_start and _end of the subscription; nothing changes it
    reader    \* the client, and the request it has sent

vars == <<rows, drawn, spent, now, edits, period, reader>>

Steps == {"idle", "list", "count", "turn", "machines", "plans", "subscription", "done"}

Reader == [report : {"list", "estimate"},
           step : Steps,
           page : Nat,
           limit : 0 .. MaxPerPage,
           listed : [Machines -> Nat],               \* how often the walk was shown each
           there : SUBSET Machines,                  \* history: there all the time
           deleted : Nat,                            \* history: rows deleted, and
           created : Nat,                            \* inserted, during the walk
           book : [Machines -> Row \cup {None}],     \* machines the estimate has read
           recurring : Nat,
           onboarding : Nat]

Resting(r) ==
    [report |-> r, step |-> "idle", page |-> 0, limit |-> 0,
     listed |-> [m \in Machines |-> 0], there |-> {}, deleted |-> 0, created |-> 0,
     book |-> [m \in Machines |-> None], recurring |-> 0, onboarding |-> 0]

(* The table, the clock, creates under way and the reader have their types. *)
TypeOK ==
    /\ rows \in [Machines -> Row \cup {None}]
    /\ drawn \in [Machines -> Time \cup {None}]
    /\ spent \subseteq Machines
    /\ now \in Time
    /\ edits \in 0 .. MaxEdits
    /\ period \in Periods
    /\ reader \in Reader

Init ==
    /\ rows = [m \in Machines |-> None]
    /\ drawn = [m \in Machines |-> None]
    /\ spent = {}
    /\ now = 0
    /\ edits = 0
    /\ period \in Periods
    /\ reader \in {Resting("list"), Resting("estimate")}

-----------------------------------------------------------------------------
(* The writers.                                                            *)

\* WHERE organization_id = ?
Present == {m \in Machines : rows[m] # None}

Walking == reader.step \in {"list", "count", "turn"}
\* What the reader's history notes of a row that comes or goes.
Noted(there, deleted, created) ==
    IF Walking
    THEN [reader EXCEPT !.there = there, !.deleted = @ + deleted, !.created = @ + created]
    ELSE reader

Tick ==
    /\ now < MaxTime
    /\ now' = now + 1
    /\ UNCHANGED <<rows, drawn, spent, edits, period, reader>>

\* MachineService::create draws created_at and the id before its INSERT.
BeginCreate ==
    \E m \in Machines \ spent :
        /\ drawn' = [drawn EXCEPT ![m] = now]
        /\ spent' = spent \cup {m}
        /\ UNCHANGED <<rows, now, edits, period, reader>>

\* machines.create; a new machine has no plan.
Insert(m) ==
    /\ drawn[m] # None
    /\ \E s \in Statuses :
        rows' = [rows EXCEPT ![m] = [created |-> drawn[m], status |-> s, plan |-> None]]
    /\ drawn' = [drawn EXCEPT ![m] = None]
    /\ reader' = Noted(reader.there, 0, 1)
    /\ UNCHANGED <<spent, now, edits, period>>

\* The INSERT fails, or the handler future is dropped before it.
Abandon(m) ==
    /\ drawn[m] # None
    /\ drawn' = [drawn EXCEPT ![m] = None]
    /\ UNCHANGED <<rows, spent, now, edits, period, reader>>

\* machines.update: status and plan as read or as asked for, created_at never.  The list
\* shows them, but no property of it looks at them.
Edit(m) ==
    /\ reader.report = "estimate"
    /\ edits < MaxEdits
    /\ edits' = edits + 1
    /\ m \in Present
    /\ \E s \in Statuses, p \in Plans \cup {None} :
        rows' = [rows EXCEPT ![m].status = s, ![m].plan = p]
    /\ UNCHANGED <<drawn, spent, now, period, reader>>

\* machines.delete
Erase(m) ==
    /\ m \in Present
    /\ rows' = [rows EXCEPT ![m] = None]
    /\ reader' = Noted(reader.there \ {m}, 1, 0)
    /\ UNCHANGED <<drawn, spent, now, edits, period>>

-----------------------------------------------------------------------------
(* The paged list.                                                         *)

AtMost(a, b) == IF a < b THEN a ELSE b
AtLeast(a, b) == IF a > b THEN a ELSE b

\* Mutant: there is no upper bound.
MutantLimit(per_page) ==
    IF per_page = None THEN DefaultPerPage ELSE AtLeast(per_page, 1)

\* PageParams::resolve
Limit(per_page) ==
    IF per_page = None THEN DefaultPerPage ELSE AtMost(AtLeast(per_page, 1), MaxPerPage)

\* Mutant: pages are counted from 0.
MutantOffset(page, limit) == page * limit

Offset(page, limit) == (page - 1) * limit

\* ORDER BY created_at ASC, id ASC
Before(m, n) ==
    \/ rows[m].created < rows[n].created
    \/ rows[m].created = rows[n].created /\ m < n

\* Mutant: one row more is read, to see whether there is another page.
MutantSlice(limit, offset) ==
    {m \in Present :
        Cardinality({n \in Present : Before(n, m)}) \in offset .. offset + limit}

\* LIMIT ? OFFSET ?
Slice(limit, offset) ==
    {m \in Present :
        Cardinality({n \in Present : Before(n, m)}) \in offset .. offset + limit - 1}

\* The first page; a page parameter that is left out or below 1 means it too.
BeginWalk ==
    \E n \in PerPage :
        /\ reader.report = "list"
        /\ reader.step = "idle"
        /\ reader' = [reader EXCEPT !.step = "list", !.page = 1, !.limit = Limit(n),
                        !.there = Present]
        /\ UNCHANGED <<rows, drawn, spent, now, edits, period>>

\* machines.list, its first statement: the rows of the page.
ListPage ==
    LET data == Slice(reader.limit, Offset(reader.page, reader.limit)) IN
    /\ reader.step = "list"
    /\ reader' = [reader EXCEPT !.step = "count",
            !.listed = [m \in Machines |-> IF m \in data THEN @[m] + 1 ELSE @[m]]]
    /\ UNCHANGED <<rows, drawn, spent, now, edits, period>>

\* Its second statement, COUNT, and the answer.  The client stops when the pages it has
\* cover the total it was told.
CountAll ==
    LET total == Cardinality(Present) IN
    /\ reader.step = "count"
    /\ reader' = [reader EXCEPT !.step =
            IF reader.page * reader.limit < total THEN "turn" ELSE "done"]
    /\ UNCHANGED <<rows, drawn, spent, now, edits, period>>

TurnPage ==
    /\ reader.step = "turn"
    /\ reader' = [reader EXCEPT !.step = "list", !.page = @ + 1]
    /\ UNCHANGED <<rows, drawn, spent, now, edits, period>>

-----------------------------------------------------------------------------
(* The estimate.                                                           *)

BeginEstimate ==
    /\ reader.report = "estimate"
    /\ reader.step = "idle"
    /\ reader' = [reader EXCEPT !.step = "machines"]
    /\ UNCHANGED <<rows, drawn, spent, now, edits, period>>

\* machines.list_all
ReadMachines ==
    /\ reader.step = "machines"
    /\ reader' = [reader EXCEPT !.step = "plans", !.book = rows]
    /\ UNCHANGED <<rows, drawn, spent, now, edits, period>>

\* plans.list(false): the catalogue is seeded once and nothing changes it.
ReadPlans ==
    /\ reader.step = "plans"
    /\ reader' = [reader EXCEPT !.step = "subscription"]
    /\ UNCHANGED <<rows, drawn, spent, now, edits, period>>

\* Mutant: plans that are not offered yet are charged too.
MutantRecurring(r) == IF r.plan # None /\ r.status = "active" THEN Price[r.plan] ELSE 0

Recurring(r) ==
    IF r.plan # None /\ r.status = "active" /\ r.plan \in Offered THEN Price[r.plan] ELSE 0

InPeriod(r) == period = None \/ (period[1] <= r.created /\ r.created <= period[2])

Onboarding(r) == IF r.plan # None /\ InPeriod(r) THEN Fee[r.plan] ELSE 0

\* The loop over the lines; sums do not depend on their order.
TotalOf(amounts) == MapThenSumSet(LAMBDA m : amounts[m], DOMAIN amounts)

\* subs.find_by_org, then the computation.
Compute ==
    LET book == reader.book
        lines == {m \in Machines : book[m] # None} IN
    /\ reader.step = "subscription"
    /\ reader' = [reader EXCEPT !.step = "done",
            !.recurring = TotalOf([m \in lines |-> Recurring(book[m])]),
            !.onboarding = TotalOf([m \in lines |-> Onboarding(book[m])])]
    /\ UNCHANGED <<rows, drawn, spent, now, edits, period>>

\* The report is taken note of, or a statement of it fails, or its handler is dropped.
Leave ==
    /\ reader.step # "idle"
    /\ reader' = Resting(reader.report)
    /\ UNCHANGED <<rows, drawn, spent, now, edits, period>>

-----------------------------------------------------------------------------
Write ==
    \/ Tick
    \/ BeginCreate
    \/ \E m \in Machines : Insert(m) \/ Abandon(m) \/ Edit(m) \/ Erase(m)

Read ==
    \/ BeginWalk
    \/ ListPage
    \/ CountAll
    \/ TurnPage
    \/ BeginEstimate
    \/ ReadMachines
    \/ ReadPlans
    \/ Compute
    \/ Leave

Next == Write \/ Read

Spec == Init /\ [][Next]_vars

-----------------------------------------------------------------------------
Walked == reader.report = "list" /\ reader.step = "done"

(***************************************************************************)
(* OFFSET counts rows that may have gone since the last page, and the      *)
(* total is counted a statement later than the rows.  Of the machines that *)
(* were there all the time, a walk over all pages leaves out no more than  *)
(* were deleted meanwhile; without deletions it leaves out none.           *)
(***************************************************************************)
WalkMissesFew ==
    Walked => Cardinality({m \in reader.there : reader.listed[m] = 0}) <= reader.deleted

(***************************************************************************)
(* A machine is inserted later than the created_at it is listed by was     *)
(* drawn, so it may push others over to the next page.  A walk shows no    *)
(* more machines twice than were inserted meanwhile.                       *)
(***************************************************************************)
WalkRepeatsFew ==
    Walked =>
        TotalOf([m \in Machines |-> AtLeast(reader.listed[m] - 1, 0)]) <= reader.created

(***************************************************************************)
(* "Recurring annual = sum over active machines of their (active) plan's   *)
(* price.  One-time = sum of onboarding_fee for machines created within    *)
(* the current billing period": the sums over the lines, machine by        *)
(* machine, are those counted plan by plan over the machines that          *)
(* list_all returned.                                                      *)
(***************************************************************************)
Charged == {m \in Machines : reader.book[m] # None /\ reader.book[m].status = "active"}
Welcomed == {m \in Machines : reader.book[m] # None /\ InPeriod(reader.book[m])}

Counted(p, T) == Cardinality({m \in T : reader.book[m].plan = p})

EstimateAddsUp ==
    reader.report = "estimate" /\ reader.step = "done" =>
        /\ reader.recurring = TotalOf([p \in Offered |-> Price[p] * Counted(p, Charged)])
        /\ reader.onboarding = TotalOf([p \in Plans |-> Fee[p] * Counted(p, Welcomed)])
=============================================================================
