-------------------------- MODULE RegistrationProofs --------------------------
(***************************************************************************)
(* Machine-checked proofs about Registration, for any number of            *)
(* organisations, accounts, addresses, names, workers and retries, any     *)
(* set of endpoints in use, with and without failures.                     *)
(***************************************************************************)
EXTENDS Registration, TLAPS

(***************************************************************************)
(* What the locals of a handler hold at each of its awaits ...             *)
(***************************************************************************)
Naming == {"find_by_slug", "insert_org"}
Completing == {"insert_sub", "insert_token"}
Renaming == {"find_org", "write_org"}

Shaped(t) ==
    /\ t.step \in Naming => t.op = "register"
    /\ t.step \in Naming => t.name \in Names
    /\ t.step = "exists_by_email" /\ t.op = "register" => t.name \in Names
    /\ t.step = "exists_by_email" => t.slug = t.base
    /\ t.step \in Naming \cup {"exists_by_email", "insert_user"} => t.email \in Mailboxes
    /\ t.step \in Completing \cup Renaming \cup {"insert_user"} => t.org \in Orgs
    /\ t.step = "exists_by_email" /\ t.op # "register" => t.org \in Orgs
    /\ t.step \in Completing => t.user \in Users
    /\ t.step = "write_org" => t.name \in Names

(***************************************************************************)
(* ... and how they agree with the tables.  A suffix is only tried after   *)
(* the plain slug was found in use; an account that registering inserted   *)
(* is of the new organisation as long as it is there; a rename writes back *)
(* the slug that the row still has.                                        *)
(***************************************************************************)
Agrees(w) ==
    LET t == task[w] IN
    /\ t.taken => At(w, "exists_by_email") /\ HasAccount(t.email)
    /\ t.step \in Naming => t.slug = t.base \/ SlugTaken(t.base)
    /\ t.step \in Completing /\ users[t.user] # None => users[t.user].org = t.org
    /\ t.step = "insert_token" => t.org \in subs
    /\ t.org # None => orgs[t.org] # None
    /\ t.step = "write_org" => orgs[t.org].slug = t.slug

AccountsHaveOrgs == \A u \in Registered : orgs[users[u].org] # None

AllShaped == \A w \in Workers : Shaped(task[w])
AllAgree == \A w \in Workers : Agrees(w)

TypeInv == TypeOK /\ AllShaped

(***************************************************************************)
(* The inductive invariant.                                                *)
(***************************************************************************)
IInv ==
    /\ TypeInv
    /\ AllAgree
    /\ AccountsHaveOrgs
    /\ NamesAreUnique
    /\ PlainSlugFirst
    /\ SessionsAreWhole

-----------------------------------------------------------------------------
(* Answering a request forgets it. *)
LEMMA IdleShaped == Idle \in Task /\ Shaped(Idle)
BY RetriesAssumption DEF Idle, Task, Steps, Roles, AllOperations, Shaped, Naming,
     Completing, Renaming

(* A worker's locals stay well shaped when it goes on with well shaped ones. *)
LEMMA ResumeShaped ==
    ASSUME TypeInv, NEW w \in Workers, NEW t \in Task, Shaped(t), Resume(w, t)
    PROVE  task' \in [Workers -> Task] /\ AllShaped'
BY DEF TypeInv, TypeOK, AllShaped, Resume

(* So they do when a step only moves on, within the locals already there. *)
LEMMA GotoShaped ==
    ASSUME TypeInv, NEW w \in Workers, NEW s \in Steps, Goto(w, s),
           Shaped([task[w] EXCEPT !.step = s])
    PROVE  task' \in [Workers -> Task] /\ AllShaped'
<1>1. [task[w] EXCEPT !.step = s] \in Task
  BY DEF TypeInv, TypeOK, Task
<1>2. Resume(w, [task[w] EXCEPT !.step = s])
  BY DEF Goto, Resume, TypeInv, TypeOK
<1> QED BY <1>1, <1>2, ResumeShaped

(* A plain slug is a sequence of words. *)
LEMMA PlainSlugType == \A n \in Names : PlainSlug(n) \in Seq(Words)
BY SlugsAssumption DEF PlainSlug

(* A candidate with a suffix is a sequence of words. *)
LEMMA CandidateType ==
    ASSUME NEW s \in Seq(Words), window \in Windows
    PROVE  Append(s, UuidWord[window]) \in Seq(Words)
BY WindowsAssumption

(* Arriving requests keep types and shapes. *)
LEMMA ArriveType ==
    ASSUME TypeInv, NEW w \in Workers, Arrive(w)
    PROVE  TypeInv'
<1>1. UNCHANGED <<orgs, users, subs, sessions, window>>
  BY DEF Arrive, BeginRegister, BeginCreateUser, BeginUpdateOrganization
<1>2. task' \in [Workers -> Task] /\ AllShaped'
  <2>1. CASE BeginRegister(w)
    <3>1. PICK s \in Spellings, n \in Names :
            /\ EmailOf[s] # None
            /\ Resume(w, [Idle EXCEPT !.op = "register", !.step = "exists_by_email",
                    !.email = EmailOf[s], !.name = n, !.base = PlainSlug(n),
                    !.slug = PlainSlug(n), !.taken = HasAccount(EmailOf[s])])
      BY <2>1 DEF BeginRegister
    <3> DEFINE e == EmailOf[s]
               p == PlainSlug(n)
               h == HasAccount(e)
               t == [Idle EXCEPT !.op = "register", !.step = "exists_by_email",
                       !.email = e, !.name = n, !.base = p, !.slug = p, !.taken = h]
    <3>2. e \in Mailboxes /\ p \in Seq(Words) /\ h \in BOOLEAN
      BY <3>1, SpellingsAssumption, PlainSlugType DEF HasAccount
    <3>3. Resume(w, t)
      BY <3>1
    <3> HIDE DEF e, p, h
    <3>4. t \in Task /\ Shaped(t)
      BY <3>2, IdleShaped DEF Idle, Task, Steps, AllOperations, Shaped, Naming, Completing,
         Renaming
    <3> QED BY <3>3, <3>4, ResumeShaped
  <2>2. CASE BeginCreateUser(w)
    <3>1. PICK o \in Orgs, s \in Spellings, r \in NewRoles :
            /\ EmailOf[s] # None
            /\ Resume(w, [Idle EXCEPT !.op = "create_user", !.step = "exists_by_email",
                    !.email = EmailOf[s], !.org = o, !.role = r,
                    !.taken = HasAccount(EmailOf[s])])
      BY <2>2 DEF BeginCreateUser
    <3> DEFINE e == EmailOf[s]
               h == HasAccount(e)
               t == [Idle EXCEPT !.op = "create_user", !.step = "exists_by_email",
                       !.email = e, !.org = o, !.role = r, !.taken = h]
    <3>2. e \in Mailboxes /\ r \in Roles /\ h \in BOOLEAN
      BY <3>1, SpellingsAssumption, RolesAssumption DEF HasAccount
    <3>3. Resume(w, t)
      BY <3>1
    <3> HIDE DEF e, h
    <3>4. t \in Task /\ Shaped(t)
      BY <3>2, IdleShaped DEF Idle, Task, Steps, AllOperations, Shaped, Naming, Completing,
         Renaming
    <3> QED BY <3>3, <3>4, ResumeShaped
  <2>3. CASE BeginUpdateOrganization(w)
    <3>1. PICK o \in Orgs, n \in Names \cup {None} :
            Resume(w, [Idle EXCEPT !.op = "update_organization", !.step = "find_org",
                        !.org = o, !.name = n])
      BY <2>3 DEF BeginUpdateOrganization
    <3> DEFINE t == [Idle EXCEPT !.op = "update_organization", !.step = "find_org",
                       !.org = o, !.name = n]
    <3>2. t \in Task /\ Shaped(t)
      BY IdleShaped DEF Idle, Task, Steps, AllOperations, Shaped, Naming, Completing, Renaming
    <3> QED BY <3>1, <3>2, ResumeShaped
  <2> QED BY <2>1, <2>2, <2>3 DEF Arrive
<1> QED BY <1>1, <1>2 DEF TypeInv, TypeOK

(* Locals of a registration that has inserted its organisation. *)
LEMMA OrgInsertedShaped ==
    ASSUME NEW op \in AllOperations \cup {None}, NEW e \in Mailboxes, NEW h \in BOOLEAN,
           NEW o \in Orgs,
           NEW t, t = [Idle EXCEPT !.op = op, !.step = "insert_user", !.email = e,
                                   !.taken = h, !.org = o]
    PROVE  t \in Task /\ Shaped(t)
BY IdleShaped DEF Idle, Task, Steps, Shaped, Naming, Completing, Renaming

(* Locals of a registration that has inserted its owner. *)
LEMMA OwnerInsertedShaped ==
    ASSUME NEW op \in AllOperations \cup {None}, NEW o \in Orgs, NEW u \in Users,
           NEW t, t = [Idle EXCEPT !.op = op, !.step = "insert_sub", !.org = o, !.user = u]
    PROVE  t \in Task /\ Shaped(t)
BY IdleShaped DEF Idle, Task, Steps, Shaped, Naming, Completing, Renaming

(* So do the steps of a handler. *)
LEMMA StepType ==
    ASSUME TypeInv, AllAgree, NEW w \in Workers, Step(w)
    PROVE  TypeInv'
<1> DEFINE t == task[w]
<1>1. t \in Task /\ Shaped(t)
  BY DEF TypeInv, TypeOK, AllShaped
<1>2. ASSUME Answer(w) PROVE task' \in [Workers -> Task] /\ AllShaped'
  BY <1>2, IdleShaped, ResumeShaped DEF Answer
<1>3. CASE ExistsByEmail(w)
  <2>1. ASSUME NEW s \in Steps, s = IF t.op = "register" THEN "find_by_slug" ELSE "insert_user",
               Goto(w, s)
        PROVE  task' \in [Workers -> Task] /\ AllShaped'
    <3>1. Shaped([t EXCEPT !.step = s])
      BY <1>1, <1>3, <2>1 DEF ExistsByEmail, At, Task, Shaped, Naming, Completing, Renaming
    <3> QED BY <2>1, <3>1, GotoShaped
  <2> QED BY <1>2, <1>3, <2>1 DEF ExistsByEmail, TypeInv, TypeOK, Steps
<1>4. CASE FindBySlug(w)
  <2>1. ASSUME Goto(w, "insert_org") PROVE task' \in [Workers -> Task] /\ AllShaped'
    <3>1. Shaped([t EXCEPT !.step = "insert_org"])
      BY <1>1, <1>4 DEF FindBySlug, At, Task, Shaped, Naming, Completing, Renaming
    <3> QED BY <2>1, <3>1, GotoShaped DEF Steps
  <2>2. ASSUME t.tries < Retries,
               Resume(w, [t EXCEPT !.tries = @ + 1,
                                   !.slug = Append(t.base, UuidWord[window])])
        PROVE  task' \in [Workers -> Task] /\ AllShaped'
    <3> DEFINE c == Append(t.base, UuidWord[window])
               s == [t EXCEPT !.tries = @ + 1, !.slug = c]
    <3>1. c \in Seq(Words)
      BY <1>1, CandidateType DEF Task, TypeInv, TypeOK
    <3>2. Resume(w, s)
      BY <2>2
    <3> HIDE DEF c
    <3>3. t.tries + 1 \in 0 .. Retries
      BY <1>1, <2>2, RetriesAssumption DEF Task
    <3>4. s \in Task /\ Shaped(s)
      BY <1>1, <1>4, <3>1, <3>3 DEF FindBySlug, At, Task, Shaped
    <3> QED BY <3>2, <3>4, ResumeShaped
  <2> QED BY <1>2, <1>4, <2>1, <2>2 DEF FindBySlug, TypeInv, TypeOK
<1>5. CASE InsertOrg(w)
  <2>1. ASSUME NEW o \in Orgs,
               orgs' = [orgs EXCEPT ![o] = [name |-> t.name, slug |-> t.slug, base |-> t.base]],
               Resume(w, [Idle EXCEPT !.op = t.op, !.step = "insert_user",
                            !.email = t.email, !.taken = t.taken, !.org = o])
        PROVE  orgs' \in [Orgs -> OrgRow \cup {None}]
               /\ task' \in [Workers -> Task] /\ AllShaped'
    <3>0. t.step = "insert_org"
      BY <1>5 DEF InsertOrg, At
    <3>1. t.name \in Names /\ t.email \in Mailboxes
      BY <1>1, <3>0 DEF Shaped, Naming
    <3>2. [name |-> t.name, slug |-> t.slug, base |-> t.base] \in OrgRow
      BY <1>1, <3>1 DEF OrgRow, Task
    <3>3. t.op \in AllOperations \cup {None} /\ t.taken \in BOOLEAN
      BY <1>1 DEF Task
    <3> DEFINE s == [Idle EXCEPT !.op = t.op, !.step = "insert_user",
                            !.email = t.email, !.taken = t.taken, !.org = o]
    <3>4. s \in Task /\ Shaped(s)
      BY <3>1, <3>3, OrgInsertedShaped
    <3>5. Resume(w, s)
      BY <2>1
    <3> HIDE DEF s
    <3>6. task' \in [Workers -> Task] /\ AllShaped'
      BY <3>4, <3>5, ResumeShaped
    <3> QED BY <2>1, <3>2, <3>6 DEF TypeInv, TypeOK
  <2> QED BY <1>2, <1>5, <2>1 DEF InsertOrg, TypeInv, TypeOK
<1>6. CASE InsertUser(w)
  <2>1. ASSUME NEW u \in Users,
               users' = [users EXCEPT ![u] = [email |-> t.email, org |-> t.org, role |-> t.role]]
        PROVE  users' \in [Users -> UserRow \cup {None}]
    <3>1. [email |-> t.email, org |-> t.org, role |-> t.role] \in UserRow
      BY <1>1, <1>6 DEF InsertUser, At, Shaped, UserRow, Task
    <3> QED BY <2>1, <3>1 DEF TypeInv, TypeOK
  <2>2. ASSUME NEW u \in Users, AfterUser(t.op) # "idle",
               Resume(w, [Idle EXCEPT !.op = t.op, !.step = AfterUser(t.op),
                            !.org = t.org, !.user = u])
        PROVE  task' \in [Workers -> Task] /\ AllShaped'
    <3>1. Resume(w, [Idle EXCEPT !.op = t.op, !.step = "insert_sub", !.org = t.org, !.user = u])
      BY <2>2 DEF AfterUser
    <3>2. t.org \in Orgs
      BY <1>1, <1>6 DEF InsertUser, At, Shaped
    <3>3. t.op \in AllOperations \cup {None}
      BY <1>1 DEF Task
    <3> QED BY <3>1, <3>2, <3>3, OwnerInsertedShaped, ResumeShaped
  <2> QED BY <1>2, <1>6, <2>1, <2>2 DEF InsertUser, FreshUsers, TypeInv, TypeOK
<1>7. CASE InsertSub(w)
  <2>1. Shaped([t EXCEPT !.step = "insert_token"]) /\ t.org \in Orgs
    BY <1>1, <1>7 DEF InsertSub, At, Task, Shaped, Naming, Completing, Renaming
  <2> QED BY <1>7, <2>1, GotoShaped DEF InsertSub, TypeInv, TypeOK, Steps
<1>8. CASE InsertToken(w)
  BY <1>2, <1>8 DEF InsertToken, Registered, TypeInv, TypeOK
<1>9. CASE FindOrg(w)
  <2> DEFINE row == Renamed(t.name, orgs[t.org])
  <2>1. t.step = "find_org"
    BY <1>9 DEF FindOrg, At
  <2>2. t.org \in Orgs /\ orgs[t.org] \in OrgRow
    BY <1>1, <2>1, NoneAssumption DEF Shaped, Renaming, AllAgree, Agrees, TypeInv, TypeOK
  <2>3. row.name \in Names /\ row.slug \in Seq(Words)
    BY <1>1, <2>2 DEF Renamed, OrgRow, Task
  <2>4. Resume(w, [t EXCEPT !.name = row.name, !.slug = row.slug, !.step = "write_org"])
    BY <1>9 DEF FindOrg
  <2> HIDE DEF row
  <2> DEFINE s == [t EXCEPT !.name = row.name, !.slug = row.slug, !.step = "write_org"]
  <2>5. s \in Task /\ Shaped(s)
    BY <1>1, <2>2, <2>3 DEF Task, Steps, Shaped, Naming, Completing, Renaming
  <2> QED BY <1>9, <2>4, <2>5, ResumeShaped DEF FindOrg, TypeInv, TypeOK
<1>10. CASE WriteOrg(w)
  <2>1. t.step = "write_org"
    BY <1>10 DEF WriteOrg, At
  <2>2. t.org \in Orgs /\ orgs[t.org] \in OrgRow /\ t.name \in Names
    BY <1>1, <2>1, NoneAssumption DEF Shaped, Renaming, AllAgree, Agrees, TypeInv, TypeOK
  <2>3. [orgs[t.org] EXCEPT !.name = t.name, !.slug = t.slug] \in OrgRow
    BY <1>1, <2>2 DEF OrgRow, Task
  <2>4. orgs' = [orgs EXCEPT ![t.org] = [orgs[t.org] EXCEPT !.name = t.name, !.slug = t.slug]]
    BY <1>10, <2>2 DEF WriteOrg, TypeInv, TypeOK
  <2> QED BY <1>2, <1>10, <2>3, <2>4 DEF WriteOrg, TypeInv, TypeOK
<1>11. CASE Fail(w)
  BY <1>2, <1>11 DEF Fail, TypeInv, TypeOK
<1> QED BY <1>3, <1>4, <1>5, <1>6, <1>7, <1>8, <1>9, <1>10, <1>11 DEF Step

(* So do the deletion of an account and the passing of time. *)
LEMMA OtherType ==
    ASSUME TypeInv, (\E u \in Users : EraseUser(u)) \/ Tick
    PROVE  TypeInv'
<1>1. CASE \E u \in Users : EraseUser(u)
  <2>1. PICK u \in Users : EraseUser(u)
    BY <1>1
  <2>2. users' \in [Users -> UserRow \cup {None}] /\ sessions' \subseteq Users
    BY <2>1 DEF EraseUser, TypeInv, TypeOK
  <2>3. ASSUME NEW w \in Workers
        PROVE  task'[w] \in Task /\ Shaped(task'[w])
    <3>1. task'[w] = task[w] \/ task'[w] = [task[w] EXCEPT !.taken = FALSE]
      BY <2>1 DEF EraseUser
    <3>2. task[w] \in Task /\ Shaped(task[w])
      BY DEF TypeInv, TypeOK, AllShaped
    <3>3. [task[w] EXCEPT !.taken = FALSE] \in Task /\ Shaped([task[w] EXCEPT !.taken = FALSE])
      BY <3>2 DEF Task, Shaped
    <3> QED BY <3>1, <3>2, <3>3
  <2>4. task' = [w \in Workers |-> task'[w]]
    BY <2>1 DEF EraseUser
  <2>5. task' \in [Workers -> Task] /\ AllShaped'
    BY <2>3, <2>4 DEF AllShaped
  <2> QED BY <2>1, <2>2, <2>5 DEF EraseUser, TypeInv, TypeOK
<1>2. CASE Tick
  BY <1>2, WindowsAssumption DEF Tick, Windows, TypeInv, TypeOK, AllShaped
<1> QED BY <1>1, <1>2

-----------------------------------------------------------------------------
(***************************************************************************)
(* How the tables move under the handlers: organisations keep their slugs, *)
(* accounts stay as inserted, subscriptions stay, and a new account is one *)
(* that no request has in hand.                                            *)
(***************************************************************************)
OrgsKept ==
    \A o \in Orgs : orgs[o] # None =>
        orgs'[o] # None /\ orgs'[o].slug = orgs[o].slug /\ orgs'[o].base = orgs[o].base

UsersKept == \A u \in Users : users[u] # None => users'[u] = users[u]

NewUsersUnknown ==
    \A u \in Users : users[u] = None /\ users'[u] # None =>
        \A x \in Workers : task[x].user # u

Grows == OrgsKept /\ UsersKept /\ NewUsersUnknown /\ subs \subseteq subs'

(* Every step of a handler only adds to the tables, and leaves other handlers alone. *)
LEMMA StepGrows ==
    ASSUME TypeInv, AllAgree, NEW w \in Workers, Arrive(w) \/ Step(w)
    PROVE  Grows /\ \A x \in Workers \ {w} : task'[x] = task[x]
<1>1. \A x \in Workers \ {w} : task'[x] = task[x]
  BY DEF Arrive, BeginRegister, BeginCreateUser, BeginUpdateOrganization, Step,
     ExistsByEmail, FindBySlug, InsertOrg, InsertUser, InsertSub, InsertToken, FindOrg,
     WriteOrg, Fail, Resume, Goto, Answer, TypeInv, TypeOK
<1>2. OrgsKept
  <2>1. CASE WriteOrg(w)
    <3>1. task[w].org \in Orgs /\ orgs[task[w].org] \in OrgRow
          /\ orgs[task[w].org].slug = task[w].slug
      BY <2>1, NoneAssumption DEF WriteOrg, At, TypeInv, TypeOK, AllShaped, Shaped, AllAgree,
         Agrees, Renaming
    <3>2. orgs' = [orgs EXCEPT ![task[w].org] =
                    [orgs[task[w].org] EXCEPT !.name = task[w].name, !.slug = task[w].slug]]
      BY <2>1, <3>1 DEF WriteOrg, TypeInv, TypeOK
    <3>3. [orgs[task[w].org] EXCEPT !.name = task[w].name, !.slug = task[w].slug] \in OrgRow
      BY <2>1, <3>1 DEF WriteOrg, At, TypeInv, TypeOK, AllShaped, Shaped, OrgRow, Task
    <3> QED BY <3>1, <3>2, <3>3, NoneAssumption DEF OrgsKept, OrgRow, TypeInv, TypeOK
  <2>2. CASE InsertOrg(w)
    BY <2>2 DEF InsertOrg, Organisations, OrgsKept, TypeInv, TypeOK
  <2>3. CASE orgs' = orgs
    BY <2>3 DEF OrgsKept
  <2> QED BY <2>1, <2>2, <2>3 DEF Arrive, BeginRegister, BeginCreateUser,
       BeginUpdateOrganization, Step, ExistsByEmail, FindBySlug, InsertUser, InsertSub,
       InsertToken, FindOrg, Fail
<1>3. UsersKept /\ NewUsersUnknown
  <2>1. CASE InsertUser(w)
    BY <2>1 DEF InsertUser, FreshUsers, Registered, UsersKept, NewUsersUnknown, TypeInv, TypeOK
  <2>2. CASE users' = users
    BY <2>2 DEF UsersKept, NewUsersUnknown
  <2> QED BY <2>1, <2>2 DEF Arrive, BeginRegister, BeginCreateUser,
       BeginUpdateOrganization, Step, ExistsByEmail, FindBySlug, InsertOrg, InsertSub,
       InsertToken, FindOrg, WriteOrg, Fail
<1>4. subs \subseteq subs'
  BY DEF Arrive, BeginRegister, BeginCreateUser, BeginUpdateOrganization, Step,
     ExistsByEmail, FindBySlug, InsertOrg, InsertUser, InsertSub, InsertToken, FindOrg,
     WriteOrg, Fail
<1> QED BY <1>1, <1>2, <1>3, <1>4 DEF Grows

(* Slugs and addresses in use stay in use as tables grow. *)
LEMMA TakenStaysTaken ==
    ASSUME Grows
    PROVE  /\ \A s : SlugTaken(s) => SlugTaken(s)'
           /\ \A e : HasAccount(e) => HasAccount(e)'
BY DEF Grows, OrgsKept, UsersKept, SlugTaken, HasAccount, Organisations, Registered

(* A handler that does not move keeps agreeing with tables that grow. *)
LEMMA OthersAgree ==
    ASSUME TypeInv, Grows, NEW x \in Workers, Agrees(x), task'[x] = task[x]
    PROVE  Agrees(x)'
<1>1. Shaped(task[x])
  BY DEF TypeInv, AllShaped
<1>2. task[x].step \in Completing /\ users'[task[x].user] # None =>
        users'[task[x].user].org = task[x].org
  BY <1>1 DEF Agrees, Shaped, Grows, UsersKept, NewUsersUnknown
<1>3. task[x].org # None => orgs'[task[x].org] # None
  BY DEF Agrees, Grows, OrgsKept, TypeInv, TypeOK, Task
<1>4. task[x].step = "write_org" => orgs'[task[x].org].slug = task[x].slug
  BY <1>1, NoneAssumption DEF Agrees, Shaped, Grows, OrgsKept, Renaming
<1>5. task[x].step = "insert_token" => task[x].org \in subs'
  BY DEF Agrees, Grows
<1>6. task[x].taken => task[x].step = "exists_by_email" /\ HasAccount(task[x].email)'
  BY TakenStaysTaken DEF Agrees, At
<1>7. task[x].step \in Naming => task[x].slug = task[x].base \/ SlugTaken(task[x].base)'
  BY TakenStaysTaken DEF Agrees
<1> QED BY <1>2, <1>3, <1>4, <1>5, <1>6, <1>7 DEF Agrees, At

(* The locals of an answered request agree with any tables. *)
LEMMA IdleAgrees ==
    ASSUME TypeInv, NEW w \in Workers, Answer(w)
    PROVE  Agrees(w)'
<1>1. task'[w] = Idle
  BY DEF Answer, Resume, TypeInv, TypeOK
<1> QED BY <1>1 DEF Agrees, At, Idle, Naming, Completing, Renaming

(* A handler agrees with the tables after its own step. *)
LEMMA OwnStepAgrees ==
    ASSUME TypeInv, AllAgree, AccountsHaveOrgs, NEW w \in Workers, Arrive(w) \/ Step(w)
    PROVE  Agrees(w)'
<1> DEFINE t == task[w]
<1>1. t \in Task /\ Shaped(t) /\ Agrees(w)
  BY DEF TypeInv, TypeOK, AllShaped, AllAgree
<1>2. Grows
  BY StepGrows
<1>3. CASE Arrive(w)
  <2>1. CASE BeginRegister(w)
    <3>1. PICK s \in Spellings, n \in Names :
            task'[w] = [Idle EXCEPT !.op = "register", !.step = "exists_by_email",
                    !.email = EmailOf[s], !.name = n, !.base = PlainSlug(n),
                    !.slug = PlainSlug(n), !.taken = HasAccount(EmailOf[s])]
      BY <2>1 DEF BeginRegister, Resume, TypeInv, TypeOK
    <3>2. /\ task'[w].step = "exists_by_email"
          /\ task'[w].taken = HasAccount(EmailOf[s])
          /\ task'[w].email = EmailOf[s]
          /\ task'[w].org = None
      BY <3>1 DEF Idle
    <3>3. task'[w].taken => HasAccount(task[w].email)'
      BY <1>2, <3>2, TakenStaysTaken
    <3> QED BY <3>2, <3>3 DEF Agrees, At, Naming, Completing, Renaming
  <2>2. CASE BeginCreateUser(w)
    <3>1. PICK u \in Users, o \in Orgs, s \in Spellings, r \in NewRoles :
            /\ Manages(u, o)
            /\ orgs' = orgs
            /\ task' = [task EXCEPT ![w] =
                   [Idle EXCEPT !.op = "create_user", !.step = "exists_by_email",
                    !.email = EmailOf[s], !.org = o, !.role = r,
                    !.taken = HasAccount(EmailOf[s])]]
      BY <2>2 DEF BeginCreateUser, Resume
    <3>2. /\ task'[w].step = "exists_by_email"
          /\ task'[w].taken = HasAccount(EmailOf[s])
          /\ task'[w].email = EmailOf[s]
          /\ task'[w].org = o
      BY <3>1 DEF Idle, TypeInv, TypeOK
    <3>3. task'[w].taken => HasAccount(task[w].email)'
      BY <1>2, <3>2, TakenStaysTaken
    <3>4. orgs'[o] # None
      BY <3>1 DEF Manages, AccountsHaveOrgs
    <3> QED BY <3>2, <3>3, <3>4 DEF Agrees, At, Naming, Completing, Renaming
  <2>3. CASE BeginUpdateOrganization(w)
    <3>1. PICK u \in Users, o \in Orgs, n \in Names \cup {None} :
            /\ Manages(u, o)
            /\ Resume(w, [Idle EXCEPT !.op = "update_organization", !.step = "find_org",
                            !.org = o, !.name = n])
            /\ orgs' = orgs
      BY <2>3 DEF BeginUpdateOrganization
    <3>2. task'[w].step = "find_org" /\ ~task'[w].taken /\ task'[w].org = o
      BY <3>1 DEF Idle, Resume, TypeInv, TypeOK
    <3>3. orgs'[o] # None
      BY <3>1 DEF Manages, AccountsHaveOrgs
    <3> QED BY <3>2, <3>3 DEF Agrees, At, Naming, Completing, Renaming
  <2> QED BY <1>3, <2>1, <2>2, <2>3 DEF Arrive
<1>4. CASE ExistsByEmail(w)
  <2>1. ASSUME ~HasAccount(t.email),
               Goto(w, IF t.op = "register" THEN "find_by_slug" ELSE "insert_user")
        PROVE  Agrees(w)'
    <3>1. /\ task'[w].step \in {"find_by_slug", "insert_user"}
          /\ task'[w].slug = t.slug /\ task'[w].base = t.base
          /\ task'[w].taken = t.taken /\ task'[w].org = t.org
      BY <1>1, <2>1 DEF Goto, Task, TypeInv, TypeOK
    <3>2. t.slug = t.base /\ ~t.taken
      BY <1>1, <1>4, <2>1 DEF ExistsByEmail, At, Shaped, Agrees
    <3>3. orgs' = orgs /\ (t.org # None => orgs[t.org] # None)
      BY <1>1, <1>4 DEF ExistsByEmail, Agrees
    <3> QED BY <3>1, <3>2, <3>3 DEF Agrees, Naming, Completing, Renaming
  <2> QED BY <1>4, <2>1, IdleAgrees DEF ExistsByEmail
<1>5. CASE FindBySlug(w)
  <2>1. t.step = "find_by_slug" /\ orgs' = orgs /\ ~t.taken
        /\ (t.slug = t.base \/ SlugTaken(t.base)) /\ (t.org # None => orgs[t.org] # None)
    BY <1>1, <1>5 DEF FindBySlug, At, Agrees, Naming
  <2>2. ASSUME Goto(w, "insert_org") PROVE Agrees(w)'
    <3>1. /\ task'[w].step = "insert_org"
          /\ task'[w].slug = t.slug /\ task'[w].base = t.base
          /\ task'[w].taken = t.taken /\ task'[w].org = t.org
      BY <1>1, <2>2 DEF Goto, Task, TypeInv, TypeOK
    <3>2. SlugTaken(t.base) => SlugTaken(t.base)'
      BY <1>2, <3>1, TakenStaysTaken
    <3> QED BY <2>1, <3>1, <3>2 DEF Agrees, Naming, Completing, Renaming
  <2>3. ASSUME SlugTaken(t.slug),
               Resume(w, [t EXCEPT !.tries = @ + 1,
                                   !.slug = Append(t.base, UuidWord[window])])
        PROVE  Agrees(w)'
    <3>1. /\ task'[w].step = "find_by_slug" /\ task'[w].base = t.base
          /\ task'[w].taken = t.taken /\ task'[w].org = t.org
      BY <1>1, <2>1, <2>3 DEF Resume, Task, TypeInv, TypeOK
    <3>2. SlugTaken(t.base)'
      BY <1>2, <2>1, <2>3, <3>1, TakenStaysTaken
    <3> QED BY <2>1, <3>1, <3>2 DEF Agrees, Naming, Completing, Renaming
  <2> QED BY <1>5, <2>2, <2>3, IdleAgrees DEF FindBySlug
<1>6. CASE InsertOrg(w)
  <2>1. ASSUME NEW o \in Orgs,
               orgs' = [orgs EXCEPT ![o] = [name |-> t.name, slug |-> t.slug, base |-> t.base]],
               Resume(w, [Idle EXCEPT !.op = t.op, !.step = "insert_user",
                            !.email = t.email, !.taken = t.taken, !.org = o])
        PROVE  Agrees(w)'
    <3>1. task'[w].step = "insert_user" /\ task'[w].taken = t.taken /\ task'[w].org = o
      BY <2>1 DEF Idle, Resume, TypeInv, TypeOK
    <3>2. t.step = "insert_org"
      BY <1>6 DEF InsertOrg, At
    <3>3. ~t.taken /\ t.name \in Names
      BY <1>1, <3>2 DEF Agrees, At, Shaped, Naming
    <3>4. orgs'[o] # None
      BY <1>1, <2>1, <3>3, NoneAssumption DEF OrgRow, Task, TypeInv, TypeOK
    <3> QED BY <3>1, <3>3, <3>4 DEF Agrees, Naming, Completing, Renaming
  <2> QED BY <1>6, <2>1, IdleAgrees DEF InsertOrg
<1>7. CASE InsertUser(w)
  <2>1. ASSUME NEW u \in Users, AfterUser(t.op) # "idle",
               users' = [users EXCEPT ![u] = [email |-> t.email, org |-> t.org, role |-> t.role]],
               Resume(w, [Idle EXCEPT !.op = t.op, !.step = AfterUser(t.op),
                            !.org = t.org, !.user = u])
        PROVE  Agrees(w)'
    <3>1. /\ task'[w].step = "insert_sub" /\ task'[w].taken = FALSE
          /\ task'[w].org = t.org /\ task'[w].user = u
      BY <2>1 DEF AfterUser, Idle, Resume, TypeInv, TypeOK
    <3>2. users'[u].org = t.org
      BY <2>1 DEF TypeInv, TypeOK
    <3>3. t.org # None => orgs'[t.org] # None
      BY <1>1, <1>7 DEF InsertUser, Agrees
    <3> QED BY <3>1, <3>2, <3>3 DEF Agrees, Naming, Completing, Renaming
  <2> QED BY <1>7, <2>1, IdleAgrees DEF InsertUser, FreshUsers
<1>8. CASE InsertSub(w)
  <2>1. /\ task'[w].step = "insert_token" /\ task'[w].taken = t.taken
        /\ task'[w].org = t.org /\ task'[w].user = t.user
    BY <1>1, <1>8 DEF InsertSub, Goto, Task, TypeInv, TypeOK
  <2>2. ~t.taken /\ t.step \in Completing
    BY <1>1, <1>8 DEF InsertSub, At, Agrees, Completing
  <2>3. t.org \in subs' /\ users' = users /\ orgs' = orgs
    BY <1>8 DEF InsertSub
  <2> QED BY <1>1, <2>1, <2>2, <2>3 DEF Agrees, Naming, Completing, Renaming
<1>9. CASE FindOrg(w)
  <2> DEFINE row == Renamed(t.name, orgs[t.org])
  <2>1. t.step = "find_org" /\ orgs' = orgs
    BY <1>9 DEF FindOrg, At
  <2>2. t.org \in Orgs /\ orgs[t.org] \in OrgRow /\ ~t.taken
    BY <1>1, <2>1, NoneAssumption DEF Shaped, Renaming, Agrees, At, TypeInv, TypeOK
  <2>3. row.slug = orgs[t.org].slug
    BY <2>2 DEF Renamed, OrgRow
  <2>4. Resume(w, [t EXCEPT !.name = row.name, !.slug = row.slug, !.step = "write_org"])
    BY <1>9 DEF FindOrg
  <2> HIDE DEF row
  <2>5. /\ task'[w].step = "write_org" /\ task'[w].slug = row.slug
        /\ task'[w].org = t.org /\ task'[w].taken = t.taken
    BY <1>1, <2>4 DEF Resume, Task, TypeInv, TypeOK
  <2> QED BY <1>1, <2>1, <2>2, <2>3, <2>5 DEF Agrees, Naming, Completing, Renaming
<1>10. CASE InsertToken(w) \/ WriteOrg(w) \/ Fail(w)
  BY <1>10, IdleAgrees DEF InsertToken, WriteOrg, Fail
<1> QED BY <1>3, <1>4, <1>5, <1>6, <1>7, <1>8, <1>9, <1>10 DEF Step

(* Handlers agree with the tables while accounts go and time passes.  An address that
   loses its only account is free, and the requests about it are told apart. *)
LEMMA OtherAgree ==
    ASSUME TypeInv, AllAgree, NamesAreUnique, (\E u \in Users : EraseUser(u)) \/ Tick
    PROVE  AllAgree'
<1>1. CASE \E u \in Users : EraseUser(u)
  <2>1. PICK u \in Users : EraseUser(u)
    BY <1>1
  <2> SUFFICES ASSUME NEW w \in Workers PROVE Agrees(w)'
    BY DEF AllAgree
  <2>2. task[w] \in Task /\ Shaped(task[w]) /\ Agrees(w)
    BY DEF TypeInv, TypeOK, AllShaped, AllAgree
  <2>3. task'[w] = IF task[w].email = users[u].email
                   THEN [task[w] EXCEPT !.taken = FALSE] ELSE task[w]
    BY <2>1 DEF EraseUser
  <2>4. /\ task'[w].step = task[w].step /\ task'[w].email = task[w].email
        /\ task'[w].slug = task[w].slug /\ task'[w].base = task[w].base
        /\ task'[w].org = task[w].org /\ task'[w].user = task[w].user
        /\ task'[w].taken => task[w].taken /\ task[w].email # users[u].email
    BY <2>2, <2>3 DEF Task
  <2>5. \A v \in Users : users'[v] # None => users'[v] = users[v]
    BY <2>1 DEF EraseUser, TypeInv, TypeOK
  <2>6. \A v \in Users \ {u} : users'[v] = users[v]
    BY <2>1 DEF EraseUser, TypeInv, TypeOK
  <2>7. task'[w].taken => HasAccount(task[w].email)'
    <3>1. SUFFICES ASSUME task'[w].taken PROVE HasAccount(task[w].email)'
      OBVIOUS
    <3>2. PICK v \in Registered : users[v].email = task[w].email
      BY <2>2, <2>4, <3>1 DEF Agrees, HasAccount
    <3>3. v # u /\ v \in Users
      BY <2>4, <3>1, <3>2 DEF Registered
    <3>4. users'[v] = users[v] /\ users[v] # None
      BY <2>6, <3>2, <3>3 DEF Registered
    <3> QED BY <2>4, <3>2, <3>3, <3>4 DEF HasAccount, Registered
  <2>8. orgs' = orgs /\ subs' = subs
    BY <2>1 DEF EraseUser
  <2>9. task[w].step \in Completing /\ users'[task[w].user] # None =>
            users'[task[w].user].org = task[w].org
    BY <2>2, <2>5 DEF Agrees, Shaped
  <2>10. SlugTaken(task[w].base) => SlugTaken(task[w].base)'
    BY <2>4, <2>8 DEF SlugTaken, Organisations
  <2> QED BY <2>2, <2>4, <2>7, <2>8, <2>9, <2>10 DEF Agrees, At
<1>2. CASE Tick
  BY <1>2 DEF Tick, AllAgree, Agrees, At, HasAccount, Registered, SlugTaken, Organisations
<1> QED BY <1>1, <1>2

-----------------------------------------------------------------------------
(* The rows that a step of a handler adds have an organisation, an address and a slug
   of their own. *)
LEMMA StepTables ==
    ASSUME IInv, NEW w \in Workers, Arrive(w) \/ Step(w)
    PROVE  AccountsHaveOrgs' /\ NamesAreUnique'
<1> DEFINE t == task[w]
<1>1. t \in Task /\ Shaped(t) /\ Agrees(w)
  BY DEF IInv, TypeInv, TypeOK, AllShaped, AllAgree
<1>2. Grows
  BY StepGrows DEF IInv
<1>3. CASE InsertUser(w) /\ users' # users
  <2>1. PICK u \in Users :
            /\ users[u] = None
            /\ users' = [users EXCEPT ![u] = [email |-> t.email, org |-> t.org, role |-> t.role]]
    BY <1>3 DEF InsertUser, FreshUsers, Registered
  <2>2. orgs' = orgs /\ ~HasAccount(t.email)
    BY <1>3 DEF InsertUser, AddressRefused
  <2>3. t.org \in Orgs /\ orgs[t.org] # None
    BY <1>1, <1>3, NoneAssumption DEF InsertUser, At, Shaped, Agrees
  <2>4. users'[u].org = t.org /\ users'[u].email = t.email
    BY <2>1 DEF IInv, TypeInv, TypeOK
  <2>5. \A v \in Users \ {u} : users'[v] = users[v]
    BY <2>1 DEF IInv, TypeInv, TypeOK
  <2>6. AccountsHaveOrgs'
    BY <2>2, <2>3, <2>4, <2>5 DEF IInv, AccountsHaveOrgs, Registered
  <2>7. \A v \in Users \ {u} : users'[v] # None => users'[v].email # t.email
    BY <2>2, <2>5 DEF HasAccount, Registered
  <2>8. NamesAreUnique'
    BY <2>2, <2>4, <2>5, <2>7 DEF IInv, NamesAreUnique, Registered, Organisations
  <2> QED BY <2>6, <2>8
<1>4. CASE InsertOrg(w) /\ orgs' # orgs
  <2>1. PICK o \in Orgs :
            /\ orgs[o] = None
            /\ orgs' = [orgs EXCEPT ![o] = [name |-> t.name, slug |-> t.slug, base |-> t.base]]
    BY <1>4 DEF InsertOrg, Organisations
  <2>2. users' = users /\ ~SlugTaken(t.slug)
    BY <1>4 DEF InsertOrg
  <2>3. orgs'[o].slug = t.slug /\ \A p \in Orgs \ {o} : orgs'[p] = orgs[p]
    BY <2>1 DEF IInv, TypeInv, TypeOK
  <2>4. \A p \in Orgs \ {o} : orgs'[p] # None => orgs'[p].slug # t.slug
    BY <2>2, <2>3 DEF SlugTaken, Organisations
  <2>5. NamesAreUnique'
    BY <2>2, <2>3, <2>4 DEF IInv, NamesAreUnique, Registered, Organisations
  <2>6. AccountsHaveOrgs'
    BY <1>2, <2>2 DEF IInv, AccountsHaveOrgs, Registered, Grows, OrgsKept, TypeInv, TypeOK, UserRow
  <2> QED BY <2>5, <2>6
<1>5. CASE WriteOrg(w)
  <2>1. t.org \in Orgs /\ orgs[t.org] \in OrgRow /\ orgs[t.org].slug = t.slug
    BY <1>1, <1>5, NoneAssumption DEF WriteOrg, At, Shaped, Agrees, Renaming, IInv, TypeInv, TypeOK
  <2>2. users' = users /\ \A p \in Orgs : p # t.org => orgs'[p] = orgs[p]
    BY <1>5 DEF WriteOrg, IInv, TypeInv, TypeOK
  <2>3. orgs'[t.org].slug = orgs[t.org].slug /\ orgs[t.org] # None
    BY <1>2, <2>1, NoneAssumption DEF Grows, OrgsKept
  <2>4. \A p \in Orgs : orgs'[p] # None => orgs[p] # None /\ orgs'[p].slug = orgs[p].slug
    BY <2>2, <2>3
  <2>5. NamesAreUnique'
    BY <2>2, <2>4 DEF IInv, NamesAreUnique, Registered, Organisations
  <2>6. AccountsHaveOrgs'
    BY <1>2, <2>2 DEF IInv, AccountsHaveOrgs, Registered, Grows, OrgsKept, TypeInv, TypeOK, UserRow
  <2> QED BY <2>5, <2>6
<1>6. CASE users' = users /\ orgs' = orgs
  BY <1>6 DEF IInv, AccountsHaveOrgs, NamesAreUnique, Registered, Organisations
<1> QED BY <1>3, <1>4, <1>5, <1>6 DEF Arrive, BeginRegister, BeginCreateUser,
     BeginUpdateOrganization, Step, ExistsByEmail, FindBySlug, InsertOrg, InsertUser,
     InsertSub, InsertToken, FindOrg, Fail

(* A step of a handler gives no plain slug away. *)
LEMMA StepSlugs ==
    ASSUME IInv, NEW w \in Workers, Arrive(w) \/ Step(w)
    PROVE  PlainSlugFirst'
<1>1. Grows
  BY StepGrows DEF IInv
<1> SUFFICES ASSUME NEW o \in Orgs, orgs'[o] # None
             PROVE  SlugTaken(orgs[o].base)'
  BY DEF PlainSlugFirst, Organisations
<1>2. CASE orgs[o] # None
  <2>1. orgs'[o].base = orgs[o].base /\ SlugTaken(orgs[o].base)
    BY <1>1, <1>2 DEF Grows, OrgsKept, IInv, PlainSlugFirst, Organisations
  <2> QED BY <1>1, <2>1, TakenStaysTaken
<1>3. CASE orgs[o] = None
  <2> DEFINE t == task[w]
  <2>1. InsertOrg(w)
    <3>1. CASE WriteOrg(w)
      <4>1. t.org \in Orgs /\ orgs[t.org] # None
        BY <3>1, NoneAssumption DEF WriteOrg, At, Shaped, Agrees, Renaming, IInv, TypeInv,
           TypeOK, AllAgree, AllShaped
      <4>2. orgs'[o] = orgs[o]
        BY <1>3, <3>1, <4>1 DEF WriteOrg, IInv, TypeInv, TypeOK
      <4> QED BY <1>3, <4>2
    <3>2. CASE orgs' = orgs
      BY <1>3, <3>2
    <3> QED BY <3>1, <3>2 DEF Arrive, BeginRegister, BeginCreateUser,
         BeginUpdateOrganization, Step, ExistsByEmail, FindBySlug, InsertUser, InsertSub,
         InsertToken, FindOrg, Fail
  <2>2. orgs'[o].base = t.base /\ orgs'[o].slug = t.slug
    <3>1. PICK p \in Orgs :
            orgs' = [orgs EXCEPT ![p] = [name |-> t.name, slug |-> t.slug, base |-> t.base]]
      BY <1>3, <2>1 DEF InsertOrg
    <3>2. p = o
      BY <1>3, <3>1 DEF IInv, TypeInv, TypeOK
    <3> QED BY <3>1, <3>2 DEF IInv, TypeInv, TypeOK
  <2>3. t.slug = t.base \/ SlugTaken(t.base)
    BY <2>1 DEF InsertOrg, At, IInv, AllAgree, Agrees, Naming
  <2>4. CASE t.slug = t.base
    BY <2>2, <2>4 DEF SlugTaken, Organisations
  <2>5. CASE SlugTaken(t.base)
    BY <1>1, <2>2, <2>5, TakenStaysTaken
  <2> QED BY <2>3, <2>4, <2>5
<1> QED BY <1>2, <1>3

(* A step of a handler gives tokens to owners of complete organisations only. *)
LEMMA StepSessions ==
    ASSUME IInv, NEW w \in Workers, Arrive(w) \/ Step(w)
    PROVE  SessionsAreWhole'
<1>1. Grows
  BY StepGrows DEF IInv
<1>2. \A u \in sessions : u \in Registered' /\ users'[u].org \in subs'
  BY <1>1 DEF Grows, UsersKept, IInv, SessionsAreWhole, Registered
<1>3. CASE InsertToken(w)
  <2>1. task[w].user \in Registered =>
            users[task[w].user].org = task[w].org /\ task[w].org \in subs
    BY <1>3 DEF InsertToken, At, Registered, IInv, AllAgree, Agrees, Completing
  <2>2. users' = users /\ subs' = subs
    BY <1>3 DEF InsertToken
  <2> QED BY <1>2, <1>3, <2>1, <2>2 DEF InsertToken, SessionsAreWhole, Registered
<1>4. CASE sessions' = sessions
  BY <1>2, <1>4 DEF SessionsAreWhole
<1> QED BY <1>3, <1>4 DEF Arrive, BeginRegister, BeginCreateUser,
     BeginUpdateOrganization, Step, ExistsByEmail, FindBySlug, InsertOrg, InsertUser,
     InsertSub, FindOrg, WriteOrg, Fail

(* Neither the deletion of an account nor time breaks what the tables promise. *)
LEMMA OtherTables ==
    ASSUME IInv, (\E u \in Users : EraseUser(u)) \/ Tick
    PROVE  AccountsHaveOrgs' /\ NamesAreUnique' /\ PlainSlugFirst' /\ SessionsAreWhole'
<1>1. orgs' = orgs /\ subs' = subs
  BY DEF EraseUser, Tick
<1>2. \A v \in Users : users'[v] # None => users'[v] = users[v]
  BY DEF EraseUser, Tick, IInv, TypeInv, TypeOK
<1>3. \A v \in sessions' : v \in sessions /\ users'[v] = users[v]
  BY DEF EraseUser, Tick, IInv, TypeInv, TypeOK
<1>4. AccountsHaveOrgs'
  BY <1>1, <1>2 DEF IInv, AccountsHaveOrgs, Registered
<1>5. NamesAreUnique'
  BY <1>1, <1>2 DEF IInv, NamesAreUnique, Registered, Organisations
<1>6. PlainSlugFirst'
  BY <1>1 DEF IInv, PlainSlugFirst, SlugTaken, Organisations
<1>7. SessionsAreWhole'
  BY <1>1, <1>3 DEF IInv, SessionsAreWhole, Registered
<1> QED BY <1>4, <1>5, <1>6, <1>7

-----------------------------------------------------------------------------
(* The invariant holds at the start. *)
LEMMA InitInv == Init => IInv
<1> SUFFICES ASSUME Init PROVE IInv
  OBVIOUS
<1>1. TypeInv
  BY IdleShaped, WindowsAssumption DEF Init, TypeInv, TypeOK, AllShaped, Windows
<1>2. AllAgree
  BY DEF Init, AllAgree, Agrees, At, Idle, Naming, Completing, Renaming
<1>3. AccountsHaveOrgs /\ NamesAreUnique /\ PlainSlugFirst /\ SessionsAreWhole
  BY DEF Init, AccountsHaveOrgs, NamesAreUnique, PlainSlugFirst, SessionsAreWhole, Registered,
     Organisations
<1> QED BY <1>1, <1>2, <1>3 DEF IInv

(* Every step keeps the invariant. *)
LEMMA NextInv == IInv /\ [Next]_vars => IInv'
<1> SUFFICES ASSUME IInv, [Next]_vars PROVE IInv'
  OBVIOUS
<1>1. ASSUME NEW w \in Workers, Arrive(w) \/ Step(w)
      PROVE  IInv'
  <2>1. TypeInv'
    BY <1>1, ArriveType, StepType DEF IInv
  <2>2. AllAgree'
    BY <1>1, StepGrows, OthersAgree, OwnStepAgrees DEF IInv, AllAgree
  <2> QED BY <1>1, <2>1, <2>2, StepTables, StepSlugs, StepSessions DEF IInv
<1>2. CASE (\E u \in Users : EraseUser(u)) \/ Tick
  BY <1>2, OtherType, OtherAgree, OtherTables DEF IInv
<1>3. CASE UNCHANGED vars
  BY <1>3 DEF vars, IInv, TypeInv, TypeOK, AllShaped, AllAgree, Agrees, At, AccountsHaveOrgs,
     NamesAreUnique, PlainSlugFirst, SessionsAreWhole, HasAccount, SlugTaken, Registered,
     Organisations
<1> QED BY <1>1, <1>2, <1>3 DEF Next

(* The inductive invariant holds throughout. *)
THEOREM InvariantHolds == Spec => []IInv
<1>1. Init => IInv
  BY InitInv
<1>2. IInv /\ [Next]_vars => IInv'
  BY NextInv
<1> QED BY <1>1, <1>2, PTL DEF Spec

(***************************************************************************)
(* Tables, clock and request locals always have their types.               *)
(***************************************************************************)
THEOREM TypeCorrect == Spec => []TypeOK
<1>1. IInv => TypeOK
  BY DEF IInv, TypeInv
<1> QED BY <1>1, InvariantHolds, PTL

(***************************************************************************)
(* Addresses and slugs are used once, however the checks of concurrent     *)
(* requests, renames and deletions interleave.                             *)
(***************************************************************************)
THEOREM NamesUnique == Spec => []NamesAreUnique
<1>1. IInv => NamesAreUnique
  BY DEF IInv
<1> QED BY <1>1, InvariantHolds, PTL

(***************************************************************************)
(* A registration under an address that is in use all the while stops at   *)
(* its first statement.                                                    *)
(***************************************************************************)
THEOREM TakenStopsEarly == Spec => []TakenLeavesNothing
<1>1. IInv => TakenLeavesNothing
  BY DEF IInv, AllAgree, Agrees, TakenLeavesNothing
<1> QED BY <1>1, InvariantHolds, PTL

(***************************************************************************)
(* Whoever got tokens from registering owns a complete organisation.       *)
(***************************************************************************)
THEOREM SessionsComplete == Spec => []SessionsAreWhole
<1>1. IInv => SessionsAreWhole
  BY DEF IInv
<1> QED BY <1>1, InvariantHolds, PTL

(***************************************************************************)
(* The plain slug of every organisation's first name is some               *)
(* organisation's slug, for ever.                                          *)
(***************************************************************************)
THEOREM PlainSlugsStay == Spec => []PlainSlugFirst
<1>1. IInv => PlainSlugFirst
  BY DEF IInv
<1> QED BY <1>1, InvariantHolds, PTL

-----------------------------------------------------------------------------
(***************************************************************************)
(* What it takes to leave an organisation without its subscription.  The   *)
(* run on EveryOrgIsSetUp shows two registrations with one address; here   *)
(* is that nothing less does it.  If no statement fails and no handler is  *)
(* dropped, and no two requests under way have one address, an address     *)
(* that was found free stays free until the account is inserted, and every *)
(* registration that has inserted an organisation completes it.            *)
(***************************************************************************)
AddressesApart ==
    \A v, w \in Workers :
        v # w /\ task[w].email # None => task[v].email # task[w].email

AddressStaysFree ==
    \A w \in Workers :
        task[w].step \in Naming \cup {"insert_user"} => ~HasAccount(task[w].email)

SettingUp(w, o) ==
    /\ task[w].org = o
    /\ task[w].op = "register"
    /\ task[w].step \in {"insert_user", "insert_sub"}

AllSetUp == \A o \in Organisations : o \in subs \/ \E w \in Workers : SettingUp(w, o)

(* Arriving requests have found nothing yet, and are setting nothing up. *)
LEMMA ArriveSetsUp ==
    ASSUME IInv, AddressStaysFree, AllSetUp, NEW w \in Workers, Arrive(w)
    PROVE  AddressStaysFree' /\ AllSetUp'
<1>1. UNCHANGED <<orgs, users, subs>> /\ task[w].step = "idle"
  BY DEF Arrive, BeginRegister, BeginCreateUser, BeginUpdateOrganization, Begin, Running, At
<1>2. \A v \in Workers \ {w} : task'[v] = task[v]
  BY StepGrows DEF IInv
<1>3. task'[w].step \in {"exists_by_email", "find_org"}
  <2>1. CASE BeginRegister(w)
    <3>1. PICK e, n, b, h :
            Resume(w, [Idle EXCEPT !.op = "register", !.step = "exists_by_email", !.email = e,
                         !.name = n, !.base = b, !.slug = b, !.taken = h])
      BY <2>1 DEF BeginRegister
    <3> QED BY <3>1 DEF Idle, Resume, IInv, TypeInv, TypeOK
  <2>2. CASE BeginCreateUser(w)
    <3>1. PICK e, o, r, h :
            Resume(w, [Idle EXCEPT !.op = "create_user", !.step = "exists_by_email",
                         !.email = e, !.org = o, !.role = r, !.taken = h])
      BY <2>2 DEF BeginCreateUser
    <3> QED BY <3>1 DEF Idle, Resume, IInv, TypeInv, TypeOK
  <2>3. CASE BeginUpdateOrganization(w)
    <3>1. PICK o, n :
            Resume(w, [Idle EXCEPT !.op = "update_organization", !.step = "find_org",
                         !.org = o, !.name = n])
      BY <2>3 DEF BeginUpdateOrganization
    <3> QED BY <3>1 DEF Idle, Resume, IInv, TypeInv, TypeOK
  <2> QED BY <2>1, <2>2, <2>3 DEF Arrive
<1>4. AddressStaysFree'
  BY <1>1, <1>2, <1>3 DEF AddressStaysFree, HasAccount, Registered, Naming
<1>5. \A v \in Workers, o \in Orgs : SettingUp(v, o) => SettingUp(v, o)'
  BY <1>1, <1>2 DEF SettingUp
<1> QED BY <1>1, <1>4, <1>5 DEF AllSetUp, Organisations

(* A handler inserts the account under an address that no other handler has. *)
LEMMA StepKeepsFree ==
    ASSUME IInv, AddressStaysFree, AddressesApart, NEW w \in Workers, Step(w)
    PROVE  AddressStaysFree'
<1> DEFINE t == task[w]
<1>1. t \in Task /\ Shaped(t)
  BY DEF IInv, TypeInv, TypeOK, AllShaped
<1>2. \A v \in Workers \ {w} : task'[v] = task[v]
  BY StepGrows DEF IInv
<1>3. CASE InsertUser(w)
  <2>1. task'[w].step \in {"idle", "insert_sub"}
    <3>1. \/ Resume(w, Idle)
          \/ \E u : Resume(w, [Idle EXCEPT !.op = t.op, !.step = "insert_sub",
                                            !.org = t.org, !.user = u])
      BY <1>3 DEF InsertUser, Answer, AfterUser
    <3>2. CASE Resume(w, Idle)
      BY <3>2 DEF Idle, Resume, IInv, TypeInv, TypeOK
    <3>3. ASSUME NEW u, Resume(w, [Idle EXCEPT !.op = t.op, !.step = "insert_sub",
                                             !.org = t.org, !.user = u])
          PROVE  task'[w].step = "insert_sub"
      BY <3>3 DEF Idle, Resume, IInv, TypeInv, TypeOK
    <3> QED BY <3>1, <3>2, <3>3
  <2>2. ASSUME NEW v \in Workers \ {w}, task[v].step \in Naming \cup {"insert_user"}
        PROVE  ~HasAccount(task[v].email)'
    <3>1. task[v].email # t.email /\ ~HasAccount(task[v].email)
      <4>1. t.email \in Mailboxes /\ t.email # None
        BY <1>1, <1>3, NoneAssumption DEF InsertUser, At, Shaped
      <4> QED BY <2>2, <4>1 DEF AddressesApart, AddressStaysFree
    <3>2. \A u \in Users : users'[u] # None =>
            users'[u].email = t.email \/ (users[u] # None /\ users'[u] = users[u])
      <4>1. CASE users' = users
        BY <4>1
      <4>2. CASE users' # users
        <5>1. PICK u \in Users : users' = [users EXCEPT ![u] =
                                    [email |-> t.email, org |-> t.org, role |-> t.role]]
          BY <1>3, <4>2 DEF InsertUser, FreshUsers
        <5> QED BY <5>1 DEF IInv, TypeInv, TypeOK
      <4> QED BY <4>1, <4>2
    <3>3. task'[v] = task[v]
      BY <1>2, <2>2
    <3> QED BY <3>1, <3>2, <3>3 DEF HasAccount, Registered
  <2> QED BY <1>2, <2>1, <2>2 DEF AddressStaysFree, Naming
<1>4. CASE ExistsByEmail(w)
  <2>1. /\ users' = users
        /\ task'[w].step = "idle" \/ (~HasAccount(t.email) /\ task'[w].email = t.email)
    <3>1. CASE HasAccount(t.email)
      BY <1>4, <3>1 DEF ExistsByEmail, Answer, Resume, Idle, IInv, TypeInv, TypeOK
    <3>2. CASE ~HasAccount(t.email)
      <4>1. PICK s : Goto(w, s)
        BY <1>4, <3>2 DEF ExistsByEmail
      <4>2. task'[w].email = t.email
        BY <1>1, <4>1 DEF Goto, Task, IInv, TypeInv, TypeOK
      <4> QED BY <1>4, <3>2, <4>2 DEF ExistsByEmail
    <3> QED BY <3>1, <3>2
  <2> QED BY <1>2, <2>1 DEF AddressStaysFree, HasAccount, Registered, Naming, Idle
<1>5. CASE FindBySlug(w) \/ InsertOrg(w)
  <2>1. t.step \in Naming /\ users' = users
    BY <1>5 DEF FindBySlug, InsertOrg, At, Naming
  <2>2. task'[w] = Idle \/ task'[w].email = t.email
    <3>1. CASE FindBySlug(w)
      <4> DEFINE c == Append(t.base, UuidWord[window])
      <4>1. \/ task' = [task EXCEPT ![w].step = "insert_org"]
            \/ task' = [task EXCEPT ![w] = [t EXCEPT !.tries = @ + 1, !.slug = c]]
            \/ task' = [task EXCEPT ![w] = Idle]
        BY <3>1 DEF FindBySlug, Goto, Resume, Answer
      <4> HIDE DEF c
      <4> QED BY <1>1, <4>1 DEF Task, IInv, TypeInv, TypeOK
    <3>2. CASE InsertOrg(w)
      BY <3>2 DEF InsertOrg, Resume, Answer, Idle, IInv, TypeInv, TypeOK
    <3> QED BY <1>5, <3>1, <3>2
  <2> QED BY <1>2, <2>1, <2>2 DEF AddressStaysFree, HasAccount, Registered, Naming, Idle
<1>6. CASE InsertSub(w) \/ InsertToken(w) \/ FindOrg(w) \/ WriteOrg(w) \/ Fail(w)
  <2>1. users' = users
    BY <1>6 DEF InsertSub, InsertToken, FindOrg, WriteOrg, Fail
  <2>2. task'[w].step \in {"insert_token", "write_org", "idle"}
    <3>1. CASE FindOrg(w)
      <4> DEFINE row == Renamed(t.name, orgs[t.org])
      <4>1. task' = [task EXCEPT ![w] =
                        [t EXCEPT !.name = row.name, !.slug = row.slug, !.step = "write_org"]]
        BY <3>1 DEF FindOrg, Resume
      <4> HIDE DEF row
      <4> QED BY <1>1, <4>1 DEF Task, IInv, TypeInv, TypeOK
    <3>2. CASE InsertSub(w)
      BY <1>1, <3>2 DEF InsertSub, Goto, Task, IInv, TypeInv, TypeOK
    <3>3. CASE InsertToken(w) \/ WriteOrg(w) \/ Fail(w)
      BY <3>3 DEF InsertToken, WriteOrg, Fail, Answer, Resume, Idle, IInv, TypeInv, TypeOK
    <3> QED BY <1>6, <3>1, <3>2, <3>3
  <2> QED BY <1>2, <2>1, <2>2 DEF AddressStaysFree, HasAccount, Registered, Naming
<1> QED BY <1>3, <1>4, <1>5, <1>6 DEF Step

(* The handler that inserted an organisation goes on until it has its subscription. *)
LEMMA StepSetsUp ==
    ASSUME IInv, AddressStaysFree, AllSetUp, ~MayFail, NEW w \in Workers, Step(w)
    PROVE  AllSetUp'
<1> DEFINE t == task[w]
<1>1. t \in Task /\ Shaped(t)
  BY DEF IInv, TypeInv, TypeOK, AllShaped
<1>2. \A v \in Workers \ {w} : task'[v] = task[v]
  BY StepGrows DEF IInv
<1>3. \A v \in Workers \ {w}, o \in Orgs : SettingUp(v, o) => SettingUp(v, o)'
  BY <1>2 DEF SettingUp
<1>4. subs \subseteq subs'
  BY StepGrows DEF IInv, Grows
<1>5. ASSUME Organisations' = Organisations, \A o \in Orgs : ~SettingUp(w, o)
      PROVE  AllSetUp'
  BY <1>3, <1>4, <1>5 DEF AllSetUp, Organisations
<1>6. CASE InsertOrg(w)
  <2>1. t.step = "insert_org" /\ t.op = "register"
    BY <1>1, <1>6 DEF InsertOrg, At, Shaped, Naming
  <2>2. \A o \in Orgs : ~SettingUp(w, o)
    BY <2>1 DEF SettingUp
  <2>3. CASE orgs' = orgs
    BY <1>5, <2>2, <2>3 DEF Organisations
  <2>4. CASE orgs' # orgs
    <3>1. PICK o \in Orgs :
            /\ orgs' = [orgs EXCEPT ![o] =
                    [name |-> t.name, slug |-> t.slug, base |-> t.base]]
            /\ Resume(w, [Idle EXCEPT !.op = t.op, !.step = "insert_user",
                    !.email = t.email, !.taken = t.taken, !.org = o])
      BY <1>6, <2>4 DEF InsertOrg
    <3>2. SettingUp(w, o)'
      BY <2>1, <3>1 DEF SettingUp, Resume, Idle, IInv, TypeInv, TypeOK
    <3>3. \A p \in Orgs : p # o /\ orgs'[p] # None => orgs[p] # None
      BY <3>1 DEF IInv, TypeInv, TypeOK
    <3> QED BY <1>3, <1>4, <2>2, <3>2, <3>3 DEF AllSetUp, Organisations
  <2> QED BY <2>3, <2>4
<1>7. CASE InsertUser(w)
  <2>1. orgs' = orgs /\ t.step = "insert_user"
    BY <1>7 DEF InsertUser, At
  <2>2. CASE t.op = "register"
    <3>1. ~AddressRefused(t.email)
      BY <2>1 DEF AddressStaysFree, AddressRefused
    <3>2. PICK u \in Users :
            Resume(w, [Idle EXCEPT !.op = t.op, !.step = AfterUser(t.op),
                            !.org = t.org, !.user = u])
      BY <1>7, <2>2, <3>1 DEF InsertUser, AfterUser, FreshUsers, Registered
    <3>3. \A o \in Orgs : SettingUp(w, o) => SettingUp(w, o)'
      BY <2>2, <3>2 DEF SettingUp, AfterUser, Resume, Idle, IInv, TypeInv, TypeOK
    <3> QED BY <1>3, <1>4, <2>1, <3>3 DEF AllSetUp, Organisations
  <2>3. CASE t.op # "register"
    BY <1>5, <2>1, <2>3 DEF SettingUp, Organisations
  <2> QED BY <2>2, <2>3
<1>8. CASE InsertSub(w)
  <2>1. orgs' = orgs /\ subs' = subs \cup {t.org}
    BY <1>8 DEF InsertSub
  <2>2. \A o \in Orgs : SettingUp(w, o) => o \in subs'
    BY <2>1 DEF SettingUp
  <2> QED BY <1>3, <2>1, <2>2 DEF AllSetUp, Organisations
<1>9. CASE WriteOrg(w)
  <2>1. t.step = "write_org"
    BY <1>9 DEF WriteOrg, At
  <2>2. Organisations' = Organisations
    <3>1. t.org \in Orgs /\ orgs[t.org] \in OrgRow /\ orgs[t.org] # None
      BY <1>1, <2>1, NoneAssumption DEF Shaped, Agrees, Renaming, IInv, TypeInv, TypeOK, AllAgree
    <3>2. orgs'[t.org] # None
      BY <3>1, StepGrows DEF IInv, Grows, OrgsKept
    <3>3. \A o \in Orgs : o # t.org => orgs'[o] = orgs[o]
      BY <1>9 DEF WriteOrg, IInv, TypeInv, TypeOK
    <3> QED BY <3>1, <3>2, <3>3 DEF Organisations
  <2> QED BY <1>5, <2>1, <2>2 DEF SettingUp
<1>10. CASE ExistsByEmail(w) \/ FindBySlug(w) \/ InsertToken(w) \/ FindOrg(w)
  <2>1. orgs' = orgs /\ t.step \in {"exists_by_email", "find_by_slug", "insert_token", "find_org"}
    BY <1>10 DEF ExistsByEmail, FindBySlug, InsertToken, FindOrg, At
  <2> QED BY <1>5, <2>1 DEF SettingUp, Organisations
<1>11. ~Fail(w)
  BY DEF Fail
<1> QED BY <1>6, <1>7, <1>8, <1>9, <1>10, <1>11 DEF Step

(* Deletions free addresses, and neither they nor time undo an organisation. *)
LEMMA OtherSetsUp ==
    ASSUME IInv, AddressStaysFree, AllSetUp, (\E u \in Users : EraseUser(u)) \/ Tick
    PROVE  AddressStaysFree' /\ AllSetUp'
<1>1. orgs' = orgs /\ subs' = subs
  BY DEF EraseUser, Tick
<1>2. \A v \in Users : users'[v] # None => users'[v] = users[v]
  BY DEF EraseUser, Tick, IInv, TypeInv, TypeOK
<1>3. \A w \in Workers : /\ task'[w].step = task[w].step /\ task'[w].email = task[w].email
                         /\ task'[w].org = task[w].org /\ task'[w].op = task[w].op
  <2>1. \A w \in Workers : task'[w] = task[w] \/ task'[w] = [task[w] EXCEPT !.taken = FALSE]
    BY DEF EraseUser, Tick
  <2>2. \A w \in Workers : task[w] \in Task
    BY DEF IInv, TypeInv, TypeOK
  <2> QED BY <2>1, <2>2 DEF Task
<1>4. AddressStaysFree'
  BY <1>2, <1>3 DEF AddressStaysFree, HasAccount, Registered
<1>5. AllSetUp'
  BY <1>1, <1>3 DEF AllSetUp, SettingUp, Organisations
<1> QED BY <1>4, <1>5

(***************************************************************************)
(* Unless something fails or two requests under way have one address,      *)
(* every organisation that no request is setting up has its subscription.  *)
(***************************************************************************)
THEOREM OrgsAreSetUp == ~MayFail => (Spec /\ []AddressesApart => []EveryOrgIsSetUp)
<1> SUFFICES ASSUME ~MayFail
             PROVE  Spec /\ []AddressesApart => []EveryOrgIsSetUp
  OBVIOUS
<1> DEFINE Inv == IInv /\ AddressStaysFree /\ AllSetUp
<1>1. Init => Inv
  <2>1. Init => AddressStaysFree /\ AllSetUp
    BY DEF Init, AddressStaysFree, AllSetUp, Idle, Naming, Organisations
  <2> QED BY <2>1, InitInv
<1>2. Inv /\ AddressesApart /\ [Next]_vars => Inv'
  <2> SUFFICES ASSUME Inv, AddressesApart, [Next]_vars PROVE Inv'
    OBVIOUS
  <2>1. IInv'
    BY NextInv
  <2>2. ASSUME NEW w \in Workers, Arrive(w) \/ Step(w)
        PROVE  AddressStaysFree' /\ AllSetUp'
    BY <2>2, ArriveSetsUp, StepKeepsFree, StepSetsUp
  <2>3. CASE (\E u \in Users : EraseUser(u)) \/ Tick
    BY <2>1, <2>3, OtherSetsUp
  <2>4. CASE UNCHANGED vars
    BY <2>1, <2>4 DEF vars, AddressStaysFree, AllSetUp, SettingUp, HasAccount, Registered,
       Organisations
  <2> QED BY <2>1, <2>2, <2>3, <2>4 DEF Next
<1>3. Inv => EveryOrgIsSetUp
  BY DEF AllSetUp, SettingUp, EveryOrgIsSetUp
<1> HIDE DEF Inv
<1> QED BY <1>1, <1>2, <1>3, PTL DEF Spec
=============================================================================
