------------------------------ MODULE Registration ------------------------------
(***************************************************************************)
(* How organisations, their accounts and their subscriptions come to be:   *)
(* register, the creation of an account by an administrator, and the       *)
(* renaming of an organisation.                                            *)
(*                                                                         *)
(* Registering is four INSERTs without a transaction, after two checks of  *)
(* what the first two of them need to be unique.  Requests interleave      *)
(* between statements and may stop after any of them.                      *)
(*                                                                         *)
(* A slug is a sequence of words, as its hyphens divide it.  UuidWord is   *)
(* the first six hex digits of a UUIDv7 drawn in a given window: the       *)
(* leading 24 of its 48 bits of milliseconds, so a window lasts 2^24 ms or *)
(* 4.66 hours, and all UUIDs of a window have the same six digits.         *)
(* Sessions are the refresh tokens that registering issues; Accounts has   *)
(* what happens to them later.                                             *)
(***************************************************************************)
EXTENDS Integers, Sequences, FiniteSets

CONSTANTS
    Orgs,          \* organisation ids available
    Users,         \* account ids available
    Spellings,     \* e-mail addresses as they are typed
    Mailboxes,     \* normalised addresses
    EmailOf,       \* Email::parse: [Spellings -> Mailboxes \cup {None}]
    Names,         \* display names of organisations
    Words,         \* words of a slug
    SlugOf,        \* Organization::slugify: [Names -> Seq(Words)]
    DefaultWord,   \* "org"
    MaxWindow,     \* a bound on the clock, in windows
    UuidWord,      \* [0 .. MaxWindow -> Words]
    Operations,    \* the endpoints that are called, a subset of AllOperations
    NewRoles,      \* roles that administrators give to new accounts
    Retries,       \* how often unique_slug tries a suffix (5 in the code)
    Workers,       \* request tasks that run at the same time
    MayFail,       \* TRUE: statements fail and handlers are dropped
    None           \* a missing row, Option::None

AllOperations == {"register", "create_user", "update_organization"}
Windows == 0 .. MaxWindow
Roles == {"owner", "admin", "engineer", "viewer"}
Managers == {"owner", "admin"}

ASSUME SpellingsAssumption == EmailOf \in [Spellings -> Mailboxes \cup {None}]
ASSUME SlugsAssumption == SlugOf \in [Names -> Seq(Words)] /\ DefaultWord \in Words
ASSUME WindowsAssumption == MaxWindow \in Nat /\ UuidWord \in [Windows -> Words]
ASSUME OperationsAssumption == Operations \subseteq AllOperations
ASSUME RolesAssumption == NewRoles \subseteq Roles
ASSUME RetriesAssumption == Retries \in Nat
ASSUME FailuresAssumption == MayFail \in BOOLEAN

\* base is history: the slug that the name at registration asked for.
OrgRow == [name : Names, slug : Seq(Words), base : Seq(Words)]
UserRow == [email : Mailboxes, org : Orgs, role : Roles]

ASSUME NoneAssumption ==
    None \notin Mailboxes \cup Names \cup Orgs \cup Users \cup OrgRow \cup UserRow

VARIABLES
    orgs,       \* table organizations, None where there is no row
    users,      \* table users
    subs,       \* organisations that have a row in table subscriptions
    sessions,   \* accounts with a row in refresh_tokens that registering put there
    window,     \* the clock
    task        \* the request each worker serves, with the handler's locals

vars == <<orgs, users, subs, sessions, window, task>>

Steps == {"idle", "exists_by_email", "find_by_slug", "insert_org", "insert_user",
          "insert_sub", "insert_token", "find_org", "write_org"}

Task == [op : AllOperations \cup {None},
         step : Steps,
         email : Mailboxes \cup {None},
         name : Names \cup {None},     \* of the organisation, as sent or as read
         base : Seq(Words),            \* slug without a suffix
         slug : Seq(Words),            \* candidate, or slug read
         tries : 0 .. Retries,         \* suffixes tried
         role : Roles,                 \* of the new account
         org : Orgs \cup {None},
         user : Users \cup {None},     \* account inserted
         taken : BOOLEAN]              \* history: the address has had an account ever
                                       \* since the request arrived

Idle == [op |-> None, step |-> "idle", email |-> None, name |-> None, base |-> <<>>,
         slug |-> <<>>, tries |-> 0, role |-> "owner", org |-> None, user |-> None,
         taken |-> FALSE]

(* Tables, clock and request locals have their types. *)
TypeOK ==
    /\ orgs \in [Orgs -> OrgRow \cup {None}]
    /\ users \in [Users -> UserRow \cup {None}]
    /\ subs \subseteq Orgs
    /\ sessions \subseteq Users
    /\ window \in Windows
    /\ task \in [Workers -> Task]

Init ==
    /\ orgs = [o \in Orgs |-> None]
    /\ users = [u \in Users |-> None]
    /\ subs = {}
    /\ sessions = {}
    /\ window = 0
    /\ task = [w \in Workers |-> Idle]

-----------------------------------------------------------------------------
At(w, s) == task[w].step = s
Running(w) == ~At(w, "idle")
Resume(w, t) == task' = [task EXCEPT ![w] = t]
Goto(w, s) == task' = [task EXCEPT ![w].step = s]
Answer(w) == Resume(w, Idle)

Organisations == {o \in Orgs : orgs[o] # None}
Registered == {u \in Users : users[u] # None}

HasAccount(email) == \E u \in Registered : users[u].email = email
SlugTaken(slug) == \E o \in Organisations : orgs[o].slug = slug

\* Account ids that no row and no request has.
FreshUsers == {u \in Users \ Registered : \A w \in Workers : task[w].user # u}

-----------------------------------------------------------------------------
(* Requests arrive.  Those whose address Email::parse refuses end there.   *)

\* unique_slug: a name without any letter or digit asks for "org".
PlainSlug(n) == IF SlugOf[n] = <<>> THEN <<DefaultWord>> ELSE SlugOf[n]

Begin(w, op) == op \in Operations /\ ~Running(w)

BeginRegister(w) ==
    \E s \in Spellings, n \in Names :
        /\ Begin(w, "register")
        /\ EmailOf[s] # None
        /\ Resume(w, [Idle EXCEPT !.op = "register", !.step = "exists_by_email",
                !.email = EmailOf[s], !.name = n, !.base = PlainSlug(n),
                !.slug = PlainSlug(n), !.taken = HasAccount(EmailOf[s])])
        /\ UNCHANGED <<orgs, users, subs, sessions, window>>

\* From here on the callers are those that authenticate and require_role(Admin) let
\* through.
Manages(u, o) == u \in Registered /\ users[u].org = o /\ users[u].role \in Managers

BeginCreateUser(w) ==
    \E u \in Users, o \in Orgs, s \in Spellings, r \in NewRoles :
        /\ Begin(w, "create_user")
        /\ Manages(u, o)
        /\ EmailOf[s] # None
        /\ Resume(w, [Idle EXCEPT !.op = "create_user", !.step = "exists_by_email",
                !.email = EmailOf[s], !.org = o, !.role = r,
                !.taken = HasAccount(EmailOf[s])])
        /\ UNCHANGED <<orgs, users, subs, sessions, window>>

\* The name in the body is optional.
BeginUpdateOrganization(w) ==
    \E u \in Users, o \in Orgs, n \in Names \cup {None} :
        /\ Begin(w, "update_organization")
        /\ Manages(u, o)
        /\ Resume(w, [Idle EXCEPT !.op = "update_organization", !.step = "find_org",
                !.org = o, !.name = n])
        /\ UNCHANGED <<orgs, users, subs, sessions, window>>

Arrive(w) == BeginRegister(w) \/ BeginCreateUser(w) \/ BeginUpdateOrganization(w)

-----------------------------------------------------------------------------
(* Register, and create an account.  Locals are forgotten once they are    *)
(* not used any more.                                                      *)

\* Mutant: only an administrator's request asks whether the address is in use.
MutantExistsByEmail(w) ==
    LET t == task[w] IN
    /\ At(w, "exists_by_email")
    /\ IF t.op = "register"
       THEN Goto(w, "find_by_slug")
       ELSE IF HasAccount(t.email) THEN Answer(w) ELSE Goto(w, "insert_user")
    /\ UNCHANGED <<orgs, users, subs, sessions, window>>

\* users.exists_by_email: 409 if so.
ExistsByEmail(w) ==
    LET t == task[w] IN
    /\ At(w, "exists_by_email")
    /\ IF HasAccount(t.email)
       THEN Answer(w)
       ELSE Goto(w, IF t.op = "register" THEN "find_by_slug" ELSE "insert_user")
    /\ UNCHANGED <<orgs, users, subs, sessions, window>>

\* Mutant: unique_slug tries until it finds something.
MutantFindBySlug(w) ==
    LET t == task[w] IN
    /\ At(w, "find_by_slug")
    /\ IF ~SlugTaken(t.slug)
       THEN Goto(w, "insert_org")
       ELSE Resume(w, [t EXCEPT !.tries = @ + 1,
                                !.slug = Append(t.base, UuidWord[window])])
    /\ UNCHANGED <<orgs, users, subs, sessions, window>>

\* unique_slug: orgs.find_by_slug of the plain slug, then of the slug with the leading
\* digits of a UUIDv7 drawn now; 409 when all tries were in use.
FindBySlug(w) ==
    LET t == task[w] IN
    /\ At(w, "find_by_slug")
    /\ \/ ~SlugTaken(t.slug) /\ Goto(w, "insert_org")
       \/ /\ SlugTaken(t.slug) /\ t.tries < Retries
          /\ Resume(w, [t EXCEPT !.tries = @ + 1,
                                 !.slug = Append(t.base, UuidWord[window])])
       \/ SlugTaken(t.slug) /\ t.tries = Retries /\ Answer(w)
    /\ UNCHANGED <<orgs, users, subs, sessions, window>>

\* orgs.create; the unique key on slug answers 409.  The role stays that of an owner.
InsertOrg(w) ==
    LET t == task[w] IN
    /\ At(w, "insert_org")
    /\ \/ SlugTaken(t.slug) /\ Answer(w) /\ UNCHANGED orgs
       \/ /\ ~SlugTaken(t.slug)
          /\ \E o \in Orgs \ Organisations :
                /\ orgs' = [orgs EXCEPT ![o] =
                        [name |-> t.name, slug |-> t.slug, base |-> t.base]]
                /\ Resume(w, [Idle EXCEPT !.op = t.op, !.step = "insert_user",
                        !.email = t.email, !.taken = t.taken, !.org = o])
    /\ UNCHANGED <<users, subs, sessions, window>>

\* Mutant: the address has no unique key.
MutantAddressRefused(email) == FALSE

\* The unique key on users.email.
AddressRefused(email) == HasAccount(email)

\* Mutant: the owner gets a session before the organisation a subscription.
MutantAfterUser(op) == IF op = "register" THEN "insert_token" ELSE "idle"

\* register goes on, create_user is done.
AfterUser(op) == IF op = "register" THEN "insert_sub" ELSE "idle"

\* users.create, with Argon2 before it; the unique key on email answers 409.
InsertUser(w) ==
    LET t == task[w] IN
    /\ At(w, "insert_user")
    /\ \/ AddressRefused(t.email) /\ Answer(w) /\ UNCHANGED users
       \/ /\ ~AddressRefused(t.email)
          /\ \E u \in FreshUsers :
                /\ users' = [users EXCEPT ![u] =
                        [email |-> t.email, org |-> t.org, role |-> t.role]]
                /\ IF AfterUser(t.op) = "idle"
                   THEN Answer(w)
                   ELSE Resume(w, [Idle EXCEPT !.op = t.op, !.step = AfterUser(t.op),
                            !.org = t.org, !.user = u])
    /\ UNCHANGED <<orgs, subs, sessions, window>>

\* subs.create, with status trialing.
InsertSub(w) ==
    /\ At(w, "insert_sub")
    /\ subs' = subs \cup {task[w].org}
    /\ Goto(w, "insert_token")
    /\ UNCHANGED <<orgs, users, sessions, window>>

\* issue_tokens; the foreign key requires the account.
InsertToken(w) ==
    LET t == task[w] IN
    /\ At(w, "insert_token")
    /\ sessions' = sessions \cup ({t.user} \cap Registered)
    /\ Answer(w)
    /\ UNCHANGED <<orgs, users, subs, window>>

-----------------------------------------------------------------------------
(* Rename an organisation.                                                 *)

\* Mutant: the slug follows the name.
MutantRenamed(n, row) ==
    IF n = None THEN row ELSE [row EXCEPT !.name = n, !.slug = PlainSlug(n)]

Renamed(n, row) == IF n = None THEN row ELSE [row EXCEPT !.name = n]

\* orgs.find_by_id, then the new name in memory; the slug is kept to be written back.
FindOrg(w) ==
    LET t == task[w]
        row == Renamed(t.name, orgs[t.org]) IN
    /\ At(w, "find_org")
    /\ Resume(w, [t EXCEPT !.name = row.name, !.slug = row.slug, !.step = "write_org"])
    /\ UNCHANGED <<orgs, users, subs, sessions, window>>

\* orgs.update writes name and slug.
WriteOrg(w) ==
    LET t == task[w] IN
    /\ At(w, "write_org")
    /\ orgs' = [orgs EXCEPT ![t.org].name = t.name, ![t.org].slug = t.slug]
    /\ Answer(w)
    /\ UNCHANGED <<users, subs, sessions, window>>

-----------------------------------------------------------------------------
\* An administrator deletes an account (module Accounts has the request); its refresh
\* tokens go with it, and its address is free again.
EraseUser(u) ==
    /\ u \in Registered
    /\ users' = [users EXCEPT ![u] = None]
    /\ sessions' = sessions \ {u}
    /\ task' = [w \in Workers |->
            IF task[w].email = users[u].email
            THEN [task[w] EXCEPT !.taken = FALSE] ELSE task[w]]
    /\ UNCHANGED <<orgs, subs, window>>

\* A statement fails, or the handler future is dropped at an await.
Fail(w) ==
    /\ MayFail
    /\ Running(w)
    /\ Answer(w)
    /\ UNCHANGED <<orgs, users, subs, sessions, window>>

Tick ==
    /\ window < MaxWindow
    /\ window' = window + 1
    /\ UNCHANGED <<orgs, users, subs, sessions, task>>

Step(w) ==
    \/ ExistsByEmail(w)
    \/ FindBySlug(w)
    \/ InsertOrg(w)
    \/ InsertUser(w)
    \/ InsertSub(w)
    \/ InsertToken(w)
    \/ FindOrg(w)
    \/ WriteOrg(w)
    \/ Fail(w)

Next ==
    \/ Tick
    \/ \E u \in Users : EraseUser(u)
    \/ \E w \in Workers : Arrive(w) \/ Step(w)

Spec == Init /\ [][Next]_vars

-----------------------------------------------------------------------------
(***************************************************************************)
(* "email is globally unique", and so is a slug: the checks of two         *)
(* requests may both find an address or a slug free before either inserts  *)
(* it, and yet no two accounts have one address and no two organisations   *)
(* one slug.                                                               *)
(***************************************************************************)
NamesAreUnique ==
    /\ \A u, v \in Registered : users[u].email = users[v].email => u = v
    /\ \A o, p \in Organisations : orgs[o].slug = orgs[p].slug => o = p

(***************************************************************************)
(* "email already registered": a request whose address has had an account  *)
(* ever since it arrived is refused at the first statement, and leaves no  *)
(* organisation behind.                                                    *)
(***************************************************************************)
TakenLeavesNothing ==
    \A w \in Workers : task[w].taken => At(w, "exists_by_email")

(***************************************************************************)
(* An owner who is given tokens finds all that registering promises, "org  *)
(* + owner user + a `trialing` subscription", whatever was deleted or      *)
(* failed while the rows were inserted one by one.                         *)
(***************************************************************************)
SessionsAreWhole ==
    \A u \in sessions : u \in Registered /\ users[u].org \in subs

(***************************************************************************)
(* A slug gets a suffix only because another organisation has the plain    *)
(* one, and keeps it: renaming an organisation, even while its slug is     *)
(* being looked up for another, gives no slug away.                        *)
(***************************************************************************)
PlainSlugFirst ==
    \A o \in Organisations : SlugTaken(orgs[o].base)

(***************************************************************************)
(* "One subscription per organization": an organisation that no request is *)
(* setting up any more has its subscription.                               *)
(***************************************************************************)
EveryOrgIsSetUp ==
    \A o \in Organisations : o \in subs \/ \E w \in Workers : task[w].org = o
=============================================================================
