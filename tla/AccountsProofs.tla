---------------------------- MODULE AccountsProofs ----------------------------
(***************************************************************************)
(* Machine-checked proofs about Accounts, for any number of accounts,      *)
(* tokens and workers, any lifetimes and any set of endpoints in use.      *)
(* What needs clients who take turns says so.                              *)
(***************************************************************************)
EXTENDS Accounts, TLAPS

(***************************************************************************)
(* What the locals of a handler hold at each of its awaits.                *)
(***************************************************************************)
Manage == {"update_user", "delete_user"}

Shaped(t) ==
    /\ t.step # "idle" => t.op \in AllOperations
    /\ t.step = "find_user" => t.op = "login"
    /\ t.step \in {"find_token", "revoke"} => t.op \in {"refresh", "logout"}
    /\ t.step = "find_any" => t.op = "refresh"
    /\ t.step = "insert_token" => t.op \in {"login", "refresh"} /\ t.claims \in Claims
    /\ t.step \in {"revoke", "find_any", "insert_token"} => t.user \in Users
    /\ t.op \in {"login"} \cup Manage => t.user \in Users
    /\ t.op \in {"login", "refresh"} => t.fresh \in Tokens
    /\ t.op \in {"refresh", "logout"} => t.token \in Tokens
    /\ t.op = "login" => t.token = None
    /\ t.step \in {"authenticate", "find_target"} => t.op \in Manage
    /\ t.step = "authenticate" => t.claims \in Claims
    /\ t.step = "write_user" => t.op = "update_user" /\ t.row \in UserRow
    /\ t.step = "erase_user" => t.op = "delete_user"
    /\ t.op = "update_user" => t.patch \in Patch
    /\ t.barred => t.step = "authenticate"

AllShaped(tasks) == tasks \in [Workers -> Task] /\ \A x \in Workers : Shaped(tasks[x])

TypeInv == TypeOK /\ AllShaped(task)

WantedIsThere == \A u \in Users : users[u] # None <=> wanted[u] # None

(***************************************************************************)
(* A caller who is marked as barred is not an active administrator now.    *)
(***************************************************************************)
BarredRight == \A w \in Workers : task[w].barred => ~ActiveAdmin(task[w].claims.sub)

(***************************************************************************)
(* Every refresh token that is stored, presented or given up was issued,   *)
(* and one that a handler has drawn was not, and is this handler's only.   *)
(***************************************************************************)
TokensIssued ==
    \A k \in Tokens : tokens[k] # None =>
        /\ access[k] # None
        /\ tokens[k].parent # None => access[tokens[k].parent] # None

HeldIssued == \A w \in Workers : task[w].token # None => access[task[w].token] # None

FreshNew ==
    \A w \in Workers : task[w].fresh # None =>
        /\ tokens[task[w].fresh] = None
        /\ access[task[w].fresh] = None
        /\ \A x \in Workers \ {w} : task[x].fresh # task[w].fresh

Rest ==
    /\ WantedIsThere
    /\ TokensHaveUsers
    /\ BarredRight
    /\ TokensIssued
    /\ HeldIssued
    /\ FreshNew

(***************************************************************************)
(* The inductive invariant.                                                *)
(***************************************************************************)
IInv == TypeInv /\ Rest

-----------------------------------------------------------------------------
(* Answering a request forgets it. *)
LEMMA IdleShaped == Idle \in Task /\ Shaped(Idle)
<1>1. Idle \in Task
  BY DEF Idle, Task, Steps
<1>2. ~Idle.barred
  BY DEF Idle
<1>3. /\ Idle.op = None /\ Idle.step = "idle"
  BY DEF Idle
<1>4. None \notin AllOperations
  BY NoneAssumption
<1> QED BY <1>1, <1>2, <1>3, <1>4 DEF Shaped, Manage, AllOperations

(* A worker's locals stay well shaped when it goes on with well shaped ones. *)
LEMMA ResumeShaped ==
    ASSUME TypeInv, NEW w \in Workers, NEW t \in Task, Shaped(t), Resume(w, t)
    PROVE  AllShaped(task')
BY DEF TypeInv, TypeOK, AllShaped, Resume

(* The locals of an answered request are well shaped: there are none. *)
LEMMA AnswerShaped ==
    ASSUME TypeInv, NEW w \in Workers, Answer(w)
    PROVE  AllShaped(task')
BY IdleShaped, ResumeShaped DEF Answer

(* So are those of a request that only moves on. *)
LEMMA GotoShaped ==
    ASSUME TypeInv, NEW w \in Workers, NEW s \in Steps, Goto(w, s),
           Shaped([task[w] EXCEPT !.step = s])
    PROVE  AllShaped(task')
<1>1. [task[w] EXCEPT !.step = s] \in Task
  BY DEF TypeInv, TypeOK, Task
<1>2. Resume(w, [task[w] EXCEPT !.step = s])
  BY DEF Goto, Resume, TypeInv, TypeOK
<1> QED BY <1>1, <1>2, ResumeShaped

(* Requests about sessions arrive. *)
LEMMA BeginSessionType ==
    ASSUME TypeInv, NEW w \in Workers, BeginLogin(w) \/ BeginRefresh(w) \/ BeginLogout(w)
    PROVE  TypeInv'
<1>1. UNCHANGED <<users, tokens, access, now, wanted, loggedOut>>
  BY DEF BeginLogin, BeginRefresh, BeginLogout
<1>2. CASE BeginLogin(w)
  <2>1. PICK u \in Users, p \in Passwords, k \in Tokens \ Drawn :
            Resume(w, [Idle EXCEPT !.op = "login", !.step = "find_user", !.user = u,
                         !.password = p, !.fresh = k])
    BY <1>2 DEF BeginLogin
  <2> DEFINE t == [Idle EXCEPT !.op = "login", !.step = "find_user", !.user = u,
                     !.password = p, !.fresh = k]
  <2>2. t \in Task /\ Shaped(t)
    BY NoneAssumption DEF Idle, Task, Steps, Shaped, AllOperations, Manage
  <2> QED BY <1>1, <2>1, <2>2, ResumeShaped DEF TypeInv, TypeOK, AllShaped
<1>3. CASE BeginRefresh(w)
  <2>1. PICK k \in Issued, f \in Tokens \ Drawn :
            Resume(w, [Idle EXCEPT !.op = "refresh", !.step = "find_token", !.token = k,
                         !.fresh = f])
    BY <1>3 DEF BeginRefresh
  <2> DEFINE t == [Idle EXCEPT !.op = "refresh", !.step = "find_token", !.token = k,
                     !.fresh = f]
  <2>2. t \in Task /\ Shaped(t)
    BY NoneAssumption DEF Idle, Task, Steps, Shaped, AllOperations, Manage, Issued
  <2> QED BY <1>1, <2>1, <2>2, ResumeShaped DEF TypeInv, TypeOK, AllShaped
<1>4. CASE BeginLogout(w)
  <2>1. PICK k \in Issued :
            Resume(w, [Idle EXCEPT !.op = "logout", !.step = "find_token", !.token = k])
    BY <1>4 DEF BeginLogout
  <2> DEFINE t == [Idle EXCEPT !.op = "logout", !.step = "find_token", !.token = k]
  <2>2. t \in Task /\ Shaped(t)
    BY NoneAssumption DEF Idle, Task, Steps, Shaped, AllOperations, Manage, Issued
  <2> QED BY <1>1, <2>1, <2>2, ResumeShaped DEF TypeInv, TypeOK, AllShaped
<1> QED BY <1>2, <1>3, <1>4

(* An administrator's request arrives. *)
LEMMA BeginManageType ==
    ASSUME TypeInv, NEW w \in Workers, BeginManage(w)
    PROVE  TypeInv'
<1>1. UNCHANGED <<users, tokens, access, now, wanted, loggedOut>>
  BY DEF BeginManage
<1>2. ASSUME NEW k \in Issued, NEW u \in Users, NEW p \in Patches, NEW op \in Manage,
             Resume(w, [Idle EXCEPT !.op = op, !.step = "authenticate",
                    !.claims = access[k], !.user = u,
                    !.patch = IF op = "update_user" THEN p ELSE None,
                    !.barred = ~ActiveAdmin(access[k].sub)])
      PROVE  AllShaped(task')
  <2> DEFINE c == access[k]
             q == IF op = "update_user" THEN p ELSE None
             b == ~ActiveAdmin(access[k].sub)
             t == [Idle EXCEPT !.op = op, !.step = "authenticate", !.claims = c, !.user = u,
                     !.patch = q, !.barred = b]
  <2>1. /\ c \in Claims /\ b \in BOOLEAN
        /\ q \in Patch \cup {None} /\ (op = "update_user" => q \in Patch)
    BY PatchesAssumption DEF Issued, TypeInv, TypeOK
  <2>2. Resume(w, t)
    BY <1>2
  <2> HIDE DEF c, q, b
  <2>3. t \in Task /\ Shaped(t)
    BY <2>1, NoneAssumption DEF Idle, Task, Steps, Shaped, AllOperations, Manage
  <2> QED BY <2>2, <2>3, ResumeShaped
<1> QED BY <1>1, <1>2, AnswerShaped DEF BeginManage, Manage, TypeInv, TypeOK, AllShaped

(* Signing for an account that exists. *)
LEMMA SignType ==
    ASSUME TypeInv, NEW t \in Task, Shaped(t), t.step \in {"find_user", "find_any"},
           NEW u \in Users, Exists(u)
    PROVE  Sign(t, u) \in Task /\ Shaped(Sign(t, u))
<1> DEFINE c == Signed(u)
           e == now + RefreshTTL
<1>1. c \in Claims /\ e \in Nat
  BY TimesAssumption DEF Signed, Claims, Exists, UserRow, TypeInv, TypeOK, Time
<1>2. Sign(t, u) = [t EXCEPT !.step = "insert_token", !.user = u, !.claims = c, !.expires = e]
  BY DEF Sign
<1> HIDE DEF c, e
<1>3. [t EXCEPT !.step = "insert_token", !.user = u, !.claims = c, !.expires = e] \in Task
  BY <1>1 DEF Task, Steps
<1>4. Shaped([t EXCEPT !.step = "insert_token", !.user = u, !.claims = c, !.expires = e])
  BY <1>1 DEF Task, Shaped, AllOperations, Manage
<1> QED BY <1>2, <1>3, <1>4

(* The steps of a session. *)
LEMMA SessionType ==
    ASSUME TypeInv, NEW w \in Workers,
           FindUser(w) \/ FindAny(w) \/ FindToken(w) \/ Revoke(w) \/ InsertToken(w)
    PROVE  TypeInv'
<1> DEFINE t == task[w]
<1>1. t \in Task /\ Shaped(t)
  BY DEF TypeInv, AllShaped
<1>2. CASE FindUser(w)
  <2>1. t.step = "find_user" /\ t.user \in Users
    BY <1>1, <1>2 DEF FindUser, At, Shaped
  <2>2. CASE Resume(w, Sign(t, t.user)) /\ Exists(t.user)
    BY <1>1, <1>2, <2>1, <2>2, SignType, ResumeShaped DEF FindUser, TypeInv, TypeOK, AllShaped
  <2>3. CASE Answer(w)
    BY <1>2, <2>3, AnswerShaped DEF FindUser, TypeInv, TypeOK, AllShaped
  <2> QED BY <1>2, <2>2, <2>3 DEF FindUser
<1>3. CASE FindAny(w)
  <2>1. t.step = "find_any" /\ t.user \in Users
    BY <1>1, <1>3 DEF FindAny, At, Shaped
  <2>2. CASE Resume(w, Sign(t, t.user)) /\ Exists(t.user)
    BY <1>1, <1>3, <2>1, <2>2, SignType, ResumeShaped DEF FindAny, TypeInv, TypeOK, AllShaped
  <2>3. CASE Answer(w)
    BY <1>3, <2>3, AnswerShaped DEF FindAny, TypeInv, TypeOK, AllShaped
  <2> QED BY <1>3, <2>2, <2>3 DEF FindAny
<1>4. CASE FindToken(w)
  <2>1. t.step = "find_token" /\ t.token \in Tokens /\ t.op \in {"refresh", "logout"}
    BY <1>1, <1>4 DEF FindToken, At, Shaped
  <2>2. CASE /\ tokens[t.token] # None
             /\ Resume(w, [t EXCEPT !.user = tokens[t.token].user, !.step = "revoke"])
    <3> DEFINE u == tokens[t.token].user
               s == [t EXCEPT !.user = u, !.step = "revoke"]
    <3>1. u \in Users /\ Resume(w, s)
      BY <2>1, <2>2 DEF TypeInv, TypeOK, TokenRow
    <3> HIDE DEF u
    <3>2. s \in Task /\ Shaped(s)
      BY <1>1, <2>1, <3>1 DEF Task, Steps, Shaped, AllOperations, Manage
    <3> QED BY <1>4, <3>1, <3>2, ResumeShaped DEF FindToken, TypeInv, TypeOK, AllShaped
  <2>3. CASE Answer(w)
    BY <1>4, <2>3, AnswerShaped DEF FindToken, TypeInv, TypeOK, AllShaped
  <2> QED BY <1>4, <2>2, <2>3 DEF FindToken
<1>5. CASE Revoke(w)
  <2>1. t.step = "revoke" /\ t.token \in Tokens /\ t.op \in {"refresh", "logout"}
    BY <1>1, <1>5 DEF Revoke, At, Shaped
  <2>2. tokens' \in [Tokens -> TokenRow \cup {None}]
    BY <1>5, <2>1 DEF Revoke, Revoked, TypeInv, TypeOK, TokenRow
  <2>3. loggedOut' \subseteq Tokens
    BY <1>5, <2>1 DEF Revoke, TypeInv, TypeOK
  <2>4. t.op = "refresh" => Shaped([t EXCEPT !.step = "find_any"])
    BY <1>1, <2>1 DEF Task, Shaped, AllOperations, Manage
  <2>5. AllShaped(task')
    BY <1>5, <2>1, <2>4, AnswerShaped, GotoShaped DEF Revoke, Steps
  <2> QED BY <1>5, <2>2, <2>3, <2>5 DEF Revoke, TypeInv, TypeOK, AllShaped
<1>6. CASE InsertToken(w)
  <2>1. /\ t.user \in Users /\ t.fresh \in Tokens /\ t.claims \in Claims
        /\ t.token \in Tokens \cup {None} /\ t.expires \in Nat
    BY <1>1, <1>6 DEF InsertToken, At, Shaped, Task
  <2>2. [user |-> t.user, expires |-> t.expires, revoked |-> None, parent |-> t.token]
            \in TokenRow
    BY <2>1 DEF TokenRow
  <2>3. AllShaped(task')
    BY <1>6, AnswerShaped DEF InsertToken
  <2> QED BY <1>6, <2>1, <2>2, <2>3 DEF InsertToken, TypeInv, TypeOK, AllShaped
<1> QED BY <1>2, <1>3, <1>4, <1>5, <1>6

(* What a PATCH makes of an account is an account. *)
LEMMA PatchedType ==
    ASSUME NEW p \in Patch, NEW row \in UserRow
    PROVE  Patched(p, row) \in UserRow /\ Asked(p, row) = Patched(p, row)
<1>1. /\ p.role \in Roles \cup {None} /\ row.role \in Roles
      /\ p.active \in BOOLEAN \cup {None} /\ row.active \in BOOLEAN
      /\ p.password \in Passwords \cup {None} /\ row.password \in Passwords
  BY DEF Patch, UserRow
<1> DEFINE r == IF p.role = None THEN row.role ELSE p.role
           a == IF p.active = None THEN row.active ELSE p.active
           q == IF p.password = None THEN row.password ELSE p.password
<1>2. r \in Roles /\ a \in BOOLEAN /\ q \in Passwords
  BY <1>1
<1>3. Patched(p, row) = [role |-> r, active |-> a, password |-> q]
  BY DEF Patched
<1>4. Asked(p, row) = [row EXCEPT !.role = r, !.active = a, !.password = q]
  BY DEF Asked
<1> HIDE DEF r, a, q
<1> QED BY <1>2, <1>3, <1>4 DEF UserRow

(* The steps of an administrator's request up to its write. *)
LEMMA ManageType ==
    ASSUME TypeInv, BarredRight, NEW w \in Workers, Authenticate(w) \/ FindTarget(w)
    PROVE  TypeInv'
<1> DEFINE t == task[w]
<1>1. t \in Task /\ Shaped(t)
  BY DEF TypeInv, AllShaped
<1>2. UNCHANGED <<users, tokens, access, now, wanted, loggedOut>>
  BY DEF Authenticate, FindTarget
<1>3. CASE Authenticate(w)
  <2>1. t.step = "authenticate"
    BY <1>3 DEF Authenticate, At
  <2>2. CASE Answer(w)
    BY <1>2, <2>2, AnswerShaped DEF TypeInv, TypeOK, AllShaped
  <2>3. CASE Goto(w, "find_target") /\ Admitted(t.claims)
    <3>1. ~t.barred
      BY <2>3 DEF BarredRight, Admitted
    <3>2. Shaped([t EXCEPT !.step = "find_target"])
      BY <1>1, <2>1, <3>1 DEF Task, Shaped, AllOperations, Manage
    <3> QED BY <1>2, <2>3, <3>2, GotoShaped DEF Steps, TypeInv, TypeOK, AllShaped
  <2> QED BY <1>3, <2>2, <2>3 DEF Authenticate
<1>4. CASE FindTarget(w)
  <2>1. t.step = "find_target" /\ t.user \in Users /\ t.op \in Manage
    BY <1>1, <1>4 DEF FindTarget, At, Shaped
  <2>2. t.op = "delete_user" => Shaped([t EXCEPT !.step = "erase_user"])
    BY <1>1, <2>1 DEF Task, Shaped, AllOperations, Manage
  <2>3. ASSUME Exists(t.user), t.op # "delete_user",
               Resume(w, [t EXCEPT !.row = Patched(t.patch, users[t.user]),
                                   !.step = "write_user"])
        PROVE  AllShaped(task')
    <3> DEFINE r == Patched(t.patch, users[t.user])
               s == [t EXCEPT !.row = r, !.step = "write_user"]
    <3>1. t.op = "update_user" /\ t.patch \in Patch /\ users[t.user] \in UserRow
      BY <1>1, <2>1, <2>3 DEF Shaped, Manage, Exists, TypeInv, TypeOK
    <3>2. r \in UserRow
      BY <3>1, PatchedType
    <3> HIDE DEF r
    <3>3. s \in Task /\ Shaped(s)
      BY <1>1, <2>1, <3>1, <3>2 DEF Task, Steps, Shaped, AllOperations, Manage
    <3> QED BY <2>3, <3>3, ResumeShaped DEF r
  <2> QED BY <1>2, <1>4, <2>2, <2>3, AnswerShaped, GotoShaped DEF FindTarget, Steps, TypeInv,
          TypeOK, AllShaped
<1> QED BY <1>3, <1>4

(* The writes to table users. *)
LEMMA WriteType ==
    ASSUME TypeInv, WantedIsThere, NEW w \in Workers, WriteUser(w) \/ EraseUser(w)
    PROVE  TypeInv'
<1> DEFINE t == task[w]
<1>1. t \in Task /\ Shaped(t)
  BY DEF TypeInv, AllShaped
<1>2. CASE WriteUser(w)
  <2>1. /\ t.op = "update_user" /\ t.row \in UserRow /\ t.user \in Users
        /\ t.patch \in Patch
    BY <1>1, <1>2 DEF WriteUser, At, Shaped, Manage
  <2>2. CASE ~Exists(t.user)
    BY <1>2, <2>2, AnswerShaped DEF WriteUser, TypeInv, TypeOK, AllShaped
  <2>3. CASE Exists(t.user)
    <3>1. users' \in [Users -> UserRow \cup {None}]
      BY <1>2, <2>1, <2>3 DEF WriteUser, TypeInv, TypeOK
    <3>2. Asked(t.patch, wanted[t.user]) \in UserRow
      BY <2>1, <2>3, PatchedType DEF WantedIsThere, Exists, TypeInv, TypeOK
    <3>3. wanted' \in [Users -> UserRow \cup {None}]
      BY <1>2, <2>1, <2>3, <3>2 DEF WriteUser, TypeInv, TypeOK
    <3>4. ASSUME NEW x \in Workers
          PROVE  [task[x] EXCEPT !.barred = FALSE] \in Task
                 /\ Shaped([task[x] EXCEPT !.barred = FALSE])
      <4> DEFINE s == [task[x] EXCEPT !.barred = FALSE]
      <4>1. task[x] \in Task /\ Shaped(task[x])
        BY DEF TypeInv, AllShaped
      <4>2. s \in Task /\ ~s.barred
        BY <4>1 DEF Task
      <4>3. /\ s.op = task[x].op /\ s.step = task[x].step /\ s.user = task[x].user
            /\ s.token = task[x].token /\ s.fresh = task[x].fresh /\ s.row = task[x].row
            /\ s.claims = task[x].claims /\ s.patch = task[x].patch
        BY <4>1 DEF Task
      <4> HIDE DEF s
      <4>4. Shaped(s)
        BY <4>1, <4>2, <4>3 DEF Shaped
      <4> QED BY <4>2, <4>4 DEF s
    <3>5. AllShaped(task')
      BY <1>2, <2>3, <3>4, IdleShaped DEF WriteUser, TypeInv, TypeOK, AllShaped
    <3> QED BY <1>2, <3>1, <3>3, <3>5 DEF WriteUser, TypeInv, TypeOK, AllShaped
  <2> QED BY <2>2, <2>3
<1>3. CASE EraseUser(w)
  <2>1. t.user \in Users
    BY <1>1, <1>3 DEF EraseUser, At, Shaped, Manage
  <2> QED BY <1>3, <2>1, AnswerShaped DEF EraseUser, TokensWithout, TypeInv, TypeOK, AllShaped
<1> QED BY <1>2, <1>3

(* Every step keeps types and shapes. *)
LEMMA NextType ==
    ASSUME IInv, Next
    PROVE  TypeInv'
<1>1. CASE Tick
  BY <1>1, TimesAssumption DEF Tick, IInv, TypeInv, TypeOK, AllShaped, Time
<1>2. ASSUME NEW w \in Workers, Fail(w)
      PROVE  TypeInv'
  BY <1>2, AnswerShaped DEF Fail, IInv, TypeInv, TypeOK, AllShaped
<1> QED BY <1>1, <1>2, BeginSessionType, BeginManageType, SessionType, ManageType, WriteType
        DEF Next, Arrive, Step, IInv, Rest

-----------------------------------------------------------------------------
(***************************************************************************)
(* A step after which every handler holds the tokens it held, or none, and *)
(* nobody is marked as barred anew.                                        *)
(***************************************************************************)
Quiet ==
    \A x \in Workers :
        /\ task'[x].token \in {task[x].token, None}
        /\ task'[x].fresh \in {task[x].fresh, None}
        /\ task'[x].barred => task[x].barred /\ task'[x].claims = task[x].claims

(* After a quiet step the tokens in hand are still issued. *)
LEMMA QuietHeld ==
    ASSUME IInv, Quiet, \A k \in Tokens : access[k] # None => access'[k] # None
    PROVE  HeldIssued'
BY DEF IInv, TypeInv, TypeOK, Task, Rest, HeldIssued, Quiet

(* After a quiet step the tokens drawn but not stored are still new. *)
LEMMA QuietFresh ==
    ASSUME IInv, Quiet, UNCHANGED <<tokens, access>>
    PROVE  FreshNew'
BY DEF IInv, Rest, FreshNew, Quiet

(* A quiet step that leaves the tables alone keeps all there is to keep. *)
LEMMA QuietRest ==
    ASSUME IInv, Quiet, UNCHANGED <<users, tokens, access, wanted>>
    PROVE  Rest'
<1>1. BarredRight'
  BY DEF IInv, Rest, BarredRight, Quiet, ActiveAdmin, Exists
<1> QED BY <1>1, QuietHeld, QuietFresh DEF IInv, Rest, WantedIsThere, TokensHaveUsers,
        TokensIssued, Exists

(* Moving on and answering are quiet. *)
LEMMA GotoQuiet ==
    ASSUME TypeInv, NEW w \in Workers, NEW s \in Steps, Goto(w, s)
    PROVE  Quiet /\ \A x \in Workers : task'[x] = [task[x] EXCEPT !.step = task'[x].step]
BY DEF TypeInv, TypeOK, Task, Goto, Quiet

(* An answer forgets the tokens in hand, and nothing more. *)
LEMMA AnswerQuiet ==
    ASSUME TypeInv, NEW w \in Workers, Answer(w)
    PROVE  Quiet /\ task'[w] = Idle /\ \A x \in Workers \ {w} : task'[x] = task[x]
<1>1. task'[w] = Idle /\ \A x \in Workers \ {w} : task'[x] = task[x]
  BY DEF TypeInv, TypeOK, Answer, Resume
<1>2. Idle.token = None /\ Idle.fresh = None /\ ~Idle.barred
  BY DEF Idle
<1> QED BY <1>1, <1>2 DEF Quiet

(* A token that is drawn is new. *)
LEMMA DrawnNew ==
    ASSUME NEW k \in Tokens \ Drawn
    PROVE  tokens[k] = None /\ access[k] = None /\ \A x \in Workers : task[x].fresh # k
BY DEF Drawn

(* Requests arrive with tokens that were issued, and draw new ones. *)
LEMMA ArriveRest ==
    ASSUME IInv, NEW w \in Workers, Arrive(w)
    PROVE  Rest'
<1>1. UNCHANGED <<users, tokens, access, now, wanted, loggedOut>>
  BY DEF Arrive, BeginLogin, BeginRefresh, BeginLogout, BeginManage
<1>2. ASSUME NEW k \in Tokens \cup {None}, k # None => access[k] # None,
             NEW f \in Tokens \cup {None}, f # None => f \notin Drawn,
             task'[w].token = k, task'[w].fresh = f,
             task'[w].barred => ~ActiveAdmin(task'[w].claims.sub),
             \A x \in Workers \ {w} : task'[x] = task[x]
      PROVE  Rest'
  <2>1. HeldIssued'
    BY <1>1, <1>2 DEF IInv, Rest, HeldIssued
  <2>2. FreshNew'
    <3>1. CASE f = None
      BY <1>1, <1>2, <3>1 DEF IInv, Rest, FreshNew
    <3>2. CASE f # None
      <4>1. tokens[f] = None /\ access[f] = None /\ \A x \in Workers : task[x].fresh # f
        BY <1>2, <3>2, DrawnNew
      <4> QED BY <1>1, <1>2, <4>1 DEF IInv, Rest, FreshNew
    <3> QED BY <3>1, <3>2
  <2>3. BarredRight'
    BY <1>1, <1>2 DEF IInv, Rest, BarredRight, ActiveAdmin, Exists
  <2> QED BY <1>1, <2>1, <2>2, <2>3 DEF IInv, Rest, WantedIsThere, TokensHaveUsers,
          TokensIssued, Exists
<1>3. CASE BeginLogin(w)
  <2>1. PICK u \in Users, p \in Passwords, f \in Tokens \ Drawn :
            Resume(w, [Idle EXCEPT !.op = "login", !.step = "find_user", !.user = u,
                         !.password = p, !.fresh = f])
    BY <1>3 DEF BeginLogin
  <2>2. /\ task'[w].token = None /\ task'[w].fresh = f /\ ~task'[w].barred
        /\ \A x \in Workers \ {w} : task'[x] = task[x]
    BY <2>1 DEF Resume, Idle, IInv, TypeInv, TypeOK
  <2> QED BY <1>2, <2>2
<1>4. CASE BeginRefresh(w)
  <2>1. PICK k \in Issued, f \in Tokens \ Drawn :
            Resume(w, [Idle EXCEPT !.op = "refresh", !.step = "find_token", !.token = k,
                         !.fresh = f])
    BY <1>4 DEF BeginRefresh
  <2>2. /\ task'[w].token = k /\ task'[w].fresh = f /\ ~task'[w].barred
        /\ \A x \in Workers \ {w} : task'[x] = task[x]
    BY <2>1 DEF Resume, Idle, IInv, TypeInv, TypeOK
  <2> QED BY <1>2, <2>2 DEF Issued
<1>5. CASE BeginLogout(w)
  <2>1. PICK k \in Issued :
            Resume(w, [Idle EXCEPT !.op = "logout", !.step = "find_token", !.token = k])
    BY <1>5 DEF BeginLogout
  <2>2. /\ task'[w].token = k /\ task'[w].fresh = None /\ ~task'[w].barred
        /\ \A x \in Workers \ {w} : task'[x] = task[x]
    BY <2>1 DEF Resume, Idle, IInv, TypeInv, TypeOK
  <2> QED BY <1>2, <2>2 DEF Issued
<1>6. CASE BeginManage(w)
  <2>1. CASE Answer(w)
    BY <1>1, <2>1, AnswerQuiet, QuietRest DEF IInv
  <2>2. ASSUME NEW k \in Issued, NEW u \in Users, NEW p \in Patches, NEW op \in Manage,
               Resume(w, [Idle EXCEPT !.op = op, !.step = "authenticate",
                    !.claims = access[k], !.user = u,
                    !.patch = IF op = "update_user" THEN p ELSE None,
                    !.barred = ~ActiveAdmin(access[k].sub)])
        PROVE  Rest'
    <3> DEFINE q == IF op = "update_user" THEN p ELSE None
               b == ~ActiveAdmin(access[k].sub)
    <3>1. b = TRUE => ~ActiveAdmin(access[k].sub)
      OBVIOUS
    <3>2. b \in BOOLEAN
      OBVIOUS
    <3>3. Resume(w, [Idle EXCEPT !.op = op, !.step = "authenticate",
                    !.claims = access[k], !.user = u, !.patch = q, !.barred = b])
      BY <2>2
    <3> HIDE DEF q, b
    <3>4. /\ task'[w].token = None /\ task'[w].fresh = None /\ task'[w].barred = b
          /\ task'[w].claims = access[k]
          /\ \A x \in Workers \ {w} : task'[x] = task[x]
      BY <3>3 DEF Resume, Idle, IInv, TypeInv, TypeOK
    <3> QED BY <1>2, <3>1, <3>2, <3>4
  <2> QED BY <1>6, <2>1, <2>2 DEF BeginManage, Manage
<1> QED BY <1>3, <1>4, <1>5, <1>6 DEF Arrive

(* Steps that write nothing. *)
LEMMA ReadRest ==
    ASSUME IInv, NEW w \in Workers,
           \/ FindUser(w) \/ FindToken(w) \/ FindAny(w) \/ Authenticate(w) \/ FindTarget(w)
           \/ Fail(w)
    PROVE  Rest'
<1> DEFINE t == task[w]
<1>1. UNCHANGED <<users, tokens, access, now, wanted, loggedOut>>
  BY DEF FindUser, FindToken, FindAny, Authenticate, FindTarget, Fail
<1>2. t \in Task
  BY DEF IInv, TypeInv, TypeOK
<1>3. ASSUME NEW s, s.token = t.token, s.fresh = t.fresh, s.barred = t.barred,
             t.barred => s.claims = t.claims, Resume(w, s)
      PROVE  Quiet
  BY <1>3 DEF Quiet, Resume, IInv, TypeInv, TypeOK
<1>4. ASSUME NEW u, Resume(w, Sign(t, u)), ~t.barred
      PROVE  Quiet
  <2> DEFINE s == Sign(t, u)
  <2>1. s.token = t.token /\ s.fresh = t.fresh /\ s.barred = t.barred
    BY <1>2 DEF Sign, Task
  <2> HIDE DEF s
  <2> QED BY <1>3, <1>4, <2>1 DEF s
<1>5. At(w, "find_user") \/ At(w, "find_any") => ~t.barred
  BY DEF At, IInv, TypeInv, AllShaped, Shaped
<1>6. ASSUME NEW u, Resume(w, [t EXCEPT !.user = u, !.step = "revoke"])
      PROVE  Quiet
  <2> DEFINE s == [t EXCEPT !.user = u, !.step = "revoke"]
  <2>1. s.token = t.token /\ s.fresh = t.fresh /\ s.barred = t.barred /\ s.claims = t.claims
    BY <1>2 DEF Task
  <2> HIDE DEF s
  <2> QED BY <1>3, <1>6, <2>1 DEF s
<1>7. ASSUME NEW r, Resume(w, [t EXCEPT !.row = r, !.step = "write_user"])
      PROVE  Quiet
  <2> DEFINE s == [t EXCEPT !.row = r, !.step = "write_user"]
  <2>1. s.token = t.token /\ s.fresh = t.fresh /\ s.barred = t.barred /\ s.claims = t.claims
    BY <1>2 DEF Task
  <2> HIDE DEF s
  <2> QED BY <1>3, <1>7, <2>1 DEF s
<1>8. Quiet
  BY <1>4, <1>5, <1>6, <1>7, GotoQuiet, AnswerQuiet DEF FindUser, FindToken, FindAny,
     Authenticate, FindTarget, Fail, Steps, IInv
<1> QED BY <1>1, <1>8, QuietRest

(* Giving a token up changes only the time of its revocation. *)
LEMMA RevokedTokens ==
    ASSUME TypeInv, NEW k \in Tokens
    PROVE  \A l \in Tokens :
            /\ Revoked(k)[l] = None <=> tokens[l] = None
            /\ tokens[l] # None =>
                /\ Revoked(k)[l].user = tokens[l].user
                /\ Revoked(k)[l].expires = tokens[l].expires
                /\ Revoked(k)[l].parent = tokens[l].parent
                /\ tokens[l].revoked # None => Revoked(k)[l].revoked = tokens[l].revoked
                /\ l = k => Revoked(k)[l].revoked # None
                /\ l # k => Revoked(k)[l] = tokens[l]
<1>1. CASE tokens[k] # None /\ tokens[k].revoked = None
  <2>1. tokens[k] \in TokenRow /\ now \in Time /\ now # None
    BY <1>1, TimesAssumption, NoneAssumption DEF TypeInv, TypeOK
  <2>2. Revoked(k) = [tokens EXCEPT ![k] = [tokens[k] EXCEPT !.revoked = now]]
    BY <1>1 DEF Revoked
  <2> DEFINE r == [tokens[k] EXCEPT !.revoked = now]
  <2>3. /\ r \in TokenRow /\ r.user = tokens[k].user /\ r.expires = tokens[k].expires
        /\ r.parent = tokens[k].parent /\ r.revoked = now
    BY <2>1 DEF TokenRow
  <2> HIDE DEF r
  <2>4. Revoked(k) = [tokens EXCEPT ![k] = r]
    BY <2>2 DEF r
  <2> QED BY <1>1, <2>1, <2>3, <2>4, NoneAssumption DEF TypeInv, TypeOK
<1>2. CASE ~(tokens[k] # None /\ tokens[k].revoked = None)
  BY <1>2 DEF Revoked
<1> QED BY <1>1, <1>2

(* The writes to table refresh_tokens. *)
LEMMA RevokeRest ==
    ASSUME IInv, NEW w \in Workers, Revoke(w)
    PROVE  Rest'
<1> DEFINE k == task[w].token
<1>1. k \in Tokens /\ tokens' = Revoked(k) /\ UNCHANGED <<users, access, now, wanted>>
  BY DEF Revoke, At, IInv, TypeInv, AllShaped, Shaped
<1>2. Quiet
  BY GotoQuiet, AnswerQuiet DEF Revoke, Steps, IInv
<1>3. HeldIssued'
  BY <1>1, <1>2, QuietHeld
<1>4. \A l \in Tokens : tokens'[l] = None <=> tokens[l] = None
  BY <1>1, RevokedTokens DEF IInv
<1>5. FreshNew'
  BY <1>1, <1>2, <1>4 DEF IInv, Rest, FreshNew, Quiet, TypeInv, TypeOK, Task
<1>6. TokensIssued'
  BY <1>1, RevokedTokens DEF IInv, Rest, TokensIssued
<1>7. TokensHaveUsers'
  BY <1>1, RevokedTokens DEF IInv, Rest, TokensHaveUsers, Exists
<1>8. BarredRight'
  BY <1>1, <1>2 DEF IInv, Rest, BarredRight, Quiet, ActiveAdmin, Exists
<1> QED BY <1>1, <1>3, <1>5, <1>6, <1>7, <1>8 DEF IInv, Rest, WantedIsThere

(* A new session: its token was drawn by this handler only. *)
LEMMA InsertTokenRest ==
    ASSUME IInv, NEW w \in Workers, InsertToken(w)
    PROVE  Rest'
<1> DEFINE t == task[w]
           r == [user |-> t.user, expires |-> t.expires, revoked |-> None, parent |-> t.token]
<1>1. Quiet /\ task'[w] = Idle /\ \A x \in Workers \ {w} : task'[x] = task[x]
  BY AnswerQuiet DEF InsertToken, IInv
<1>2. /\ t.fresh \in Tokens /\ t.user \in Users /\ t.claims \in Claims
      /\ t.token \in Tokens \cup {None} /\ t.fresh # None /\ t.claims # None
  BY NoneAssumption DEF InsertToken, At, IInv, TypeInv, AllShaped, Shaped, Task
<1>3. UNCHANGED <<users, wanted>>
  BY DEF InsertToken
<1>4. CASE UNCHANGED <<tokens, access>>
  BY <1>1, <1>3, <1>4, QuietRest
<1>5. CASE /\ Exists(t.user)
           /\ tokens' = [tokens EXCEPT ![t.fresh] = r]
           /\ access' = [access EXCEPT ![t.fresh] = t.claims]
  <2>1. r.user = t.user /\ r.parent = t.token
    OBVIOUS
  <2> HIDE DEF r
  <2>2. /\ \A l \in Tokens : tokens'[l] = IF l = t.fresh THEN r ELSE tokens[l]
        /\ \A l \in Tokens : access'[l] = IF l = t.fresh THEN t.claims ELSE access[l]
    BY <1>2, <1>5 DEF IInv, TypeInv, TypeOK
  <2>3. \A l \in Tokens : access[l] # None => access'[l] # None
    BY <1>2, <2>2
  <2>4. HeldIssued'
    BY <1>1, <2>3, QuietHeld
  <2>5. TokensHaveUsers'
    BY <1>2, <1>3, <1>5, <2>1, <2>2 DEF IInv, Rest, TokensHaveUsers, Exists
  <2>6. TokensIssued'
    <3> SUFFICES ASSUME NEW l \in Tokens, tokens'[l] # None
                 PROVE  /\ access'[l] # None
                        /\ tokens'[l].parent # None => access'[tokens'[l].parent] # None
      BY DEF TokensIssued
    <3>1. CASE l = t.fresh
      <4>1. tokens'[l].parent = t.token /\ access'[l] # None
        BY <1>2, <2>1, <2>2, <3>1
      <4>2. t.token # None => access[t.token] # None /\ t.token \in Tokens
        BY <1>2 DEF IInv, Rest, HeldIssued
      <4> QED BY <2>3, <4>1, <4>2
    <3>2. CASE l # t.fresh
      <4>1. tokens'[l] = tokens[l] /\ tokens[l] \in TokenRow
        BY <2>2, <3>2 DEF IInv, TypeInv, TypeOK
      <4>2. /\ access[l] # None /\ tokens[l].parent \in Tokens \cup {None}
            /\ tokens[l].parent # None => access[tokens[l].parent] # None
        BY <4>1 DEF IInv, Rest, TokensIssued, TokenRow
      <4> QED BY <2>3, <4>1, <4>2
    <3> QED BY <3>1, <3>2
  <2>7. FreshNew'
    <3> SUFFICES ASSUME NEW x \in Workers, task'[x].fresh # None
                 PROVE  /\ tokens'[task'[x].fresh] = None
                        /\ access'[task'[x].fresh] = None
                        /\ \A y \in Workers \ {x} : task'[y].fresh # task'[x].fresh
      BY DEF FreshNew
    <3>1. Idle.fresh = None
      BY DEF Idle
    <3>2. x # w /\ task'[x] = task[x]
      BY <1>1, <3>1
    <3>3. /\ task[x].fresh \in Tokens /\ task[x].fresh # t.fresh
          /\ tokens[task[x].fresh] = None /\ access[task[x].fresh] = None
          /\ \A y \in Workers \ {x} : task[y].fresh # task[x].fresh
      BY <1>2, <3>2 DEF IInv, Rest, FreshNew, TypeInv, TypeOK, Task
    <3> QED BY <1>1, <2>2, <3>1, <3>2, <3>3
  <2>8. BarredRight'
    BY <1>1, <1>3 DEF IInv, Rest, BarredRight, Quiet, ActiveAdmin, Exists
  <2> QED BY <1>3, <2>4, <2>5, <2>6, <2>7, <2>8 DEF IInv, Rest, WantedIsThere
<1> QED BY <1>4, <1>5 DEF InsertToken

(* A PATCH is written: no account comes or goes, and those it makes active *)
(* administrators are not barred any more.                                 *)
LEMMA WriteUserRest ==
    ASSUME IInv, NEW w \in Workers, WriteUser(w)
    PROVE  Rest'
<1> DEFINE t == task[w]
<1>1. UNCHANGED <<tokens, access>>
  BY DEF WriteUser
<1>2. CASE Answer(w) /\ UNCHANGED <<users, wanted>>
  BY <1>1, <1>2, AnswerQuiet, QuietRest DEF IInv
<1>3. CASE Exists(t.user)
  <2> DEFINE after == [users EXCEPT ![t.user] = t.row]
             admitted == {u \in Users : after[u] # None /\ after[u].active
                                          /\ AtLeast(after[u].role, "admin")}
  <2>1. /\ users' = after
        /\ wanted' = [wanted EXCEPT ![t.user] = Asked(t.patch, wanted[t.user])]
        /\ task' = [x \in Workers |->
                    IF x = w THEN Idle
                    ELSE IF task[x].barred /\ task[x].claims.sub \in admitted
                         THEN [task[x] EXCEPT !.barred = FALSE] ELSE task[x]]
    BY <1>3 DEF WriteUser
  <2>2. /\ t.row \in UserRow /\ t.row # None /\ t.user \in Users /\ t.patch \in Patch
        /\ users[t.user] # None
    BY <1>3, NoneAssumption DEF WriteUser, At, Exists, IInv, TypeInv, AllShaped, Shaped, Manage
  <2>3. \A u \in Users : users'[u] # None <=> users[u] # None
    BY <2>1, <2>2 DEF IInv, TypeInv, TypeOK
  <2>4. Asked(t.patch, wanted[t.user]) # None
    BY <2>2, PatchedType, NoneAssumption DEF IInv, Rest, WantedIsThere, TypeInv, TypeOK
  <2>5. WantedIsThere'
    BY <2>1, <2>2, <2>3, <2>4 DEF IInv, Rest, WantedIsThere, TypeInv, TypeOK
  <2>6. TokensHaveUsers'
    BY <1>1, <2>3 DEF IInv, Rest, TokensHaveUsers, Exists, TypeInv, TypeOK, TokenRow
  <2>7. \A x \in Workers :
            /\ task'[x].token \in {task[x].token, None}
            /\ task'[x].fresh \in {task[x].fresh, None}
            /\ task'[x].barred => /\ x # w /\ task[x].barred /\ task[x].claims.sub \notin admitted
                                  /\ task'[x].claims = task[x].claims
    <3> HIDE DEF admitted
    <3> SUFFICES ASSUME NEW x \in Workers
                 PROVE  /\ task'[x].token \in {task[x].token, None}
                        /\ task'[x].fresh \in {task[x].fresh, None}
                        /\ task'[x].barred => /\ x # w /\ task[x].barred
                                              /\ task[x].claims.sub \notin admitted
                                              /\ task'[x].claims = task[x].claims
      OBVIOUS
    <3>1. CASE x = w
      <4>1. task'[x] = Idle
        BY <2>1, <3>1
      <4> QED BY <4>1 DEF Idle
    <3>2. CASE x # w /\ task[x].barred /\ task[x].claims.sub \in admitted
      <4>1. task'[x] = [task[x] EXCEPT !.barred = FALSE] /\ task[x] \in Task
        BY <2>1, <3>2 DEF IInv, TypeInv, TypeOK
      <4> QED BY <4>1 DEF Task
    <3>3. CASE x # w /\ ~(task[x].barred /\ task[x].claims.sub \in admitted)
      <4>1. task'[x] = task[x]
        BY <2>1, <3>3
      <4> QED BY <3>3, <4>1
    <3> QED BY <3>1, <3>2, <3>3
  <2>8. Quiet
    BY <2>7 DEF Quiet
  <2>9. HeldIssued' /\ FreshNew'
    BY <1>1, <2>8, QuietHeld, QuietFresh
  <2>10. BarredRight'
    <3> SUFFICES ASSUME NEW x \in Workers, task'[x].barred
                 PROVE  LET u == task'[x].claims.sub IN
                        ~(/\ users'[u] # None /\ users'[u].active
                          /\ AtLeast(users'[u].role, "admin"))
      BY DEF BarredRight, ActiveAdmin, Exists
    <3>1. /\ task[x].barred /\ task[x].claims.sub \notin admitted
          /\ task'[x].claims = task[x].claims
      BY <2>7
    <3>2. task[x].claims.sub \in Users
      BY <3>1 DEF IInv, TypeInv, AllShaped, Shaped, Claims
    <3> QED BY <2>1, <3>1, <3>2
  <2>11. TokensIssued'
    BY <1>1 DEF IInv, Rest, TokensIssued
  <2> QED BY <2>5, <2>6, <2>9, <2>10, <2>11 DEF Rest
<1> QED BY <1>2, <1>3 DEF WriteUser

(* An account goes with its tokens. *)
LEMMA EraseUserRest ==
    ASSUME IInv, NEW w \in Workers, EraseUser(w)
    PROVE  Rest'
<1> DEFINE u == task[w].user
<1>1. u \in Users
  BY DEF EraseUser, At, IInv, TypeInv, AllShaped, Shaped, Manage
<1>2. Quiet
  BY AnswerQuiet DEF EraseUser, IInv
<1>3. /\ users' = [users EXCEPT ![u] = None] /\ wanted' = [wanted EXCEPT ![u] = None]
      /\ tokens' = TokensWithout(u) /\ UNCHANGED access
  BY DEF EraseUser
<1>4. WantedIsThere'
  BY <1>1, <1>3 DEF IInv, Rest, WantedIsThere, TypeInv, TypeOK
<1>5. \A k \in Tokens : tokens'[k] # None => tokens'[k] = tokens[k] /\ tokens[k].user # u
  BY <1>3 DEF TokensWithout
<1>6. TokensHaveUsers'
  BY <1>1, <1>3, <1>5 DEF IInv, Rest, TokensHaveUsers, Exists, TypeInv, TypeOK, TokenRow
<1>7. TokensIssued'
  BY <1>3, <1>5 DEF IInv, Rest, TokensIssued
<1>8. HeldIssued'
  BY <1>2, <1>3, QuietHeld
<1>9. FreshNew'
  <2>1. \A k \in Tokens : tokens[k] = None => tokens'[k] = None
    BY <1>5
  <2> QED BY <1>2, <1>3, <2>1 DEF IInv, Rest, FreshNew, Quiet, TypeInv, TypeOK, Task
<1>10. BarredRight'
  <2>1. \A v \in Users : ActiveAdmin(v)' => ActiveAdmin(v)
    BY <1>1, <1>3 DEF ActiveAdmin, Exists, IInv, TypeInv, TypeOK
  <2>2. \A x \in Workers : task[x].barred => task[x].claims.sub \in Users
    BY DEF IInv, TypeInv, AllShaped, Shaped, Claims
  <2> QED BY <1>2, <2>1, <2>2 DEF IInv, Rest, BarredRight, Quiet
<1> QED BY <1>4, <1>6, <1>7, <1>8, <1>9, <1>10 DEF Rest

(* Whatever the requests, the invariant holds. *)
THEOREM InvariantHolds == Spec => []IInv
<1>1. Init => IInv
  <2> SUFFICES ASSUME Init PROVE IInv
    OBVIOUS
  <2>1. TypeInv
    BY IdleShaped, RegisteredAssumption, TimesAssumption DEF Init, TypeInv, TypeOK, AllShaped,
       Time
  <2>2. \A w \in Workers : task[w].token = None /\ task[w].fresh = None /\ ~task[w].barred
    BY DEF Init, Idle
  <2> QED BY <2>1, <2>2 DEF Init, IInv, Rest, WantedIsThere, TokensHaveUsers, BarredRight,
          TokensIssued, HeldIssued, FreshNew
<1>2. IInv /\ [Next]_vars => IInv'
  <2> SUFFICES ASSUME IInv, [Next]_vars PROVE IInv'
    OBVIOUS
  <2>1. CASE Next
    <3>1. TypeInv'
      BY <2>1, NextType
    <3>2. CASE Tick
      <4>1. Quiet
        BY <3>2 DEF Tick, Quiet
      <4> QED BY <3>1, <3>2, <4>1, QuietRest DEF Tick, IInv
    <3> QED BY <2>1, <3>1, <3>2, ArriveRest, ReadRest, RevokeRest, InsertTokenRest,
            WriteUserRest, EraseUserRest DEF Next, Step, IInv
  <2>2. CASE UNCHANGED vars
    BY <2>2 DEF vars, IInv, TypeInv, TypeOK, AllShaped, Rest, WantedIsThere, TokensHaveUsers,
       BarredRight, TokensIssued, HeldIssued, FreshNew, Exists, ActiveAdmin
  <2> QED BY <2>1, <2>2
<1> QED BY <1>1, <1>2, PTL DEF Spec

-----------------------------------------------------------------------------
(* Tables, clock, request locals and history variables have their types. *)
THEOREM TypeCorrect == Spec => []TypeOK
<1>1. IInv => TypeOK
  BY DEF IInv, TypeInv
<1> QED BY <1>1, InvariantHolds, PTL

(* No refresh token outlives its account, although accounts are deleted while sessions *)
(* are being started or renewed.                                                       *)
THEOREM TokensAreOfUsers == Spec => []TokensHaveUsers
<1>1. IInv => TokensHaveUsers
  BY DEF IInv, Rest
<1> QED BY <1>1, InvariantHolds, PTL

(* Only callers who have been active administrators since their request arrived get to *)
(* manage accounts, whatever role their access token was signed with.                  *)
THEOREM OnlyAdminsManage == Spec => []BarredStayOut
<1>1. IInv => BarredStayOut
  BY DEF IInv, TypeInv, AllShaped, Shaped, BarredStayOut, At
<1> QED BY <1>1, InvariantHolds, PTL

(* A refresh token that was revoked stays so, and no token changes hands. *)
THEOREM RevocationsStand == Spec => RevocationStands
<1>1. IInv /\ [Next]_vars => [TokensOnlyEnd]_vars
  <2> SUFFICES ASSUME IInv, Next, NEW k \in Tokens, tokens[k] # None, tokens'[k] # None
               PROVE  /\ [tokens[k] EXCEPT !.revoked = None]
                            = [tokens'[k] EXCEPT !.revoked = None]
                      /\ tokens[k].revoked # None => tokens'[k].revoked = tokens[k].revoked
    BY DEF TokensOnlyEnd
  <2>1. CASE UNCHANGED tokens
    BY <2>1
  <2>2. ASSUME NEW w \in Workers, Revoke(w)
        PROVE  /\ [tokens[k] EXCEPT !.revoked = None] = [tokens'[k] EXCEPT !.revoked = None]
               /\ tokens[k].revoked # None => tokens'[k].revoked = tokens[k].revoked
    <3>1. task[w].token \in Tokens /\ tokens' = Revoked(task[w].token)
      BY <2>2 DEF Revoke, At, IInv, TypeInv, AllShaped, Shaped
    <3>2. tokens[k] \in TokenRow /\ tokens'[k] \in TokenRow
      BY NextType DEF IInv, TypeInv, TypeOK
    <3>3. /\ tokens'[k].user = tokens[k].user /\ tokens'[k].expires = tokens[k].expires
          /\ tokens'[k].parent = tokens[k].parent
          /\ tokens[k].revoked # None => tokens'[k].revoked = tokens[k].revoked
      BY <3>1, RevokedTokens DEF IInv
    <3> QED BY <3>2, <3>3 DEF TokenRow
  <2>3. ASSUME NEW w \in Workers, InsertToken(w)
        PROVE  tokens'[k] = tokens[k]
    <3>1. task[w].fresh \in Tokens /\ task[w].fresh # None
      BY <2>3, NoneAssumption DEF InsertToken, At, IInv, TypeInv, AllShaped, Shaped
    <3>2. k # task[w].fresh
      BY <3>1 DEF IInv, Rest, FreshNew
    <3> QED BY <2>3, <3>1, <3>2 DEF InsertToken, IInv, TypeInv, TypeOK
  <2>4. ASSUME NEW w \in Workers, EraseUser(w)
        PROVE  tokens'[k] = tokens[k]
    BY <2>4 DEF EraseUser, TokensWithout
  <2>5. \/ UNCHANGED tokens
        \/ \E w \in Workers : Revoke(w) \/ InsertToken(w) \/ EraseUser(w)
    BY DEF Next, Tick, Arrive, Step, BeginLogin, BeginRefresh, BeginLogout, BeginManage,
       FindUser, FindToken, FindAny, Authenticate, FindTarget, WriteUser, Fail
  <2> QED BY <2>1, <2>2, <2>3, <2>4, <2>5
<1> QED BY <1>1, InvariantHolds, PTL DEF Spec, RevocationStands

-----------------------------------------------------------------------------
(***************************************************************************)
(* Clients use a token, and administrators edit an account, one request at *)
(* a time.  A refresh that has found its token usable then finds no        *)
(* successor of it, and an edit writes over what it has read.              *)
(***************************************************************************)
Renewing == {"find_any", "insert_token"}
Revoking == {"revoke"} \cup Renewing

OneUse ==
    \A w, x \in Workers :
        w # x /\ task[w].token # None => task[x].token # task[w].token

Unspent(k) ==
    /\ k \notin loggedOut
    /\ \A l \in Tokens : tokens[l] # None => tokens[l].parent # k

Renewals ==
    \A w \in Workers : LET t == task[w] IN t.op = "refresh" =>
        /\ t.step \in Revoking => Unspent(t.token)
        /\ t.step \in Renewing =>
            (tokens[t.token] # None => tokens[t.token].revoked # None)

LoggedOutRevoked ==
    \A k \in loggedOut :
        access[k] # None /\ (tokens[k] # None => tokens[k].revoked # None)

SpentOnce ==
    \A k \in Tokens : tokens[k] # None /\ tokens[k].parent # None =>
        /\ tokens[tokens[k].parent] # None => tokens[tokens[k].parent].revoked # None
        /\ \A l \in Tokens :
            tokens[l] # None /\ tokens[l].parent = tokens[k].parent => k = l

OneUpdate ==
    \A w, x \in Workers :
        w # x /\ task[w].op = "update_user" /\ task[x].op = "update_user" =>
            task[w].user # task[x].user

RowsFresh ==
    \A w \in Workers : At(w, "write_user") /\ Exists(task[w].user) =>
        task[w].row = Patched(task[w].patch, users[task[w].user])

TurnsInv ==
    /\ OneUse
    /\ Renewals
    /\ LoggedOutRevoked
    /\ SpentOnce
    /\ LogoutEndsSession
    /\ OneUpdate
    /\ RowsFresh
    /\ NoLostPatch

(***************************************************************************)
(* A handler that starts using no token, gets no further with a refresh    *)
(* and reads no account to edit.                                           *)
(***************************************************************************)
Still(x) ==
    \/ task'[x] = task[x]
    \/ task'[x].token = None /\ task'[x].op \notin {"refresh", "update_user"}
    \/ /\ task'[x].op = task[x].op
       /\ task'[x].token = task[x].token
       /\ task'[x].op = "update_user" => task'[x].user = task[x].user
       /\ task'[x].op = "refresh" =>
            /\ task'[x].step \in Revoking => task[x].step \in Revoking
            /\ task'[x].step \in Renewing => task[x].step \in Renewing
       /\ task'[x].step # "write_user"

Calm == \A x \in Workers : Still(x)

(* Handlers that keep still keep to their turns. *)
LEMMA CalmUses ==
    ASSUME Calm, TurnsInv
    PROVE  OneUse' /\ OneUpdate'
BY DEF Calm, Still, TurnsInv, OneUse, OneUpdate

(* A handler that keeps still holds a current row while rows stay or go. *)
LEMMA CalmRows ==
    ASSUME TypeInv', Calm, TurnsInv,
           \A u \in Users : users'[u] # None => users'[u] = users[u]
    PROVE  RowsFresh'
<1> SUFFICES ASSUME NEW w \in Workers, task'[w].step = "write_user",
                    users'[task'[w].user] # None
             PROVE  task'[w].row = Patched(task'[w].patch, users'[task'[w].user])
  BY DEF RowsFresh, At, Exists, Patched
<1>1. task'[w].op = "update_user" /\ task'[w].user \in Users
  BY DEF TypeInv, AllShaped, Shaped, Manage
<1>2. task'[w] = task[w]
  BY <1>1 DEF Calm, Still
<1>3. users'[task[w].user] = users[task[w].user]
  BY <1>1, <1>2
<1> QED BY <1>2, <1>3 DEF TurnsInv, RowsFresh, At, Exists

(* So does its knowledge of the token it is about to renew. *)
LEMMA CalmRenewals ==
    ASSUME Calm, TurnsInv, UNCHANGED <<tokens, loggedOut>>
    PROVE  Renewals'
<1> SUFFICES ASSUME NEW w \in Workers, task'[w].op = "refresh"
             PROVE  /\ task'[w].step \in Revoking => Unspent(task'[w].token)
                    /\ task'[w].step \in Renewing =>
                        (tokens[task'[w].token] # None =>
                            tokens[task'[w].token].revoked # None)
  BY DEF Renewals, Unspent
<1>1. /\ task[w].op = "refresh" /\ task'[w].token = task[w].token
      /\ task'[w].step \in Revoking => task[w].step \in Revoking
      /\ task'[w].step \in Renewing => task[w].step \in Renewing
  BY DEF Calm, Still
<1> QED BY <1>1 DEF TurnsInv, Renewals

(* A calm step that leaves the tables alone keeps what turns ensure. *)
LEMMA CalmTurns ==
    ASSUME TypeInv', Calm, TurnsInv, UNCHANGED <<users, tokens, access, wanted, loggedOut>>
    PROVE  TurnsInv'
BY CalmUses, CalmRows, CalmRenewals DEF TurnsInv, LoggedOutRevoked, SpentOnce,
   LogoutEndsSession, NoLostPatch

(* An answered request keeps still. *)
LEMMA AnswerCalm ==
    ASSUME TypeInv, NEW w \in Workers, Answer(w)
    PROVE  Calm
<1>1. Idle.token = None /\ Idle.op = None
  BY DEF Idle
<1> QED BY <1>1, AnswerQuiet, NoneAssumption DEF Calm, Still, AllOperations

(* So does one that moves on, unless it gets further with a refresh. *)
LEMMA GotoCalm ==
    ASSUME TypeInv, NEW w \in Workers,
           Goto(w, "find_target") \/ Goto(w, "erase_user")
    PROVE  Calm
BY DEF Calm, Still, Goto, TypeInv, TypeOK, Task, Revoking, Renewing

(* A token that is used by nobody is taken up, to be looked at first. *)
LEMMA TakeUpTurns ==
    ASSUME Turns, IInv, TypeInv', TurnsInv, NEW w \in Workers,
           BeginRefresh(w) \/ BeginLogout(w)
    PROVE  TurnsInv'
<1>1. UNCHANGED <<users, tokens, access, wanted, loggedOut>>
  BY DEF BeginRefresh, BeginLogout
<1>2. PICK k \in Issued :
        /\ ~InUse(k)
        /\ task'[w].token = k /\ task'[w].step = "find_token"
        /\ task'[w].op \in {"refresh", "logout"}
        /\ \A x \in Workers \ {w} : task'[x] = task[x]
  <2>1. CASE BeginRefresh(w)
    <3>1. PICK k \in Issued, f \in Tokens \ Drawn :
            /\ ~InUse(k)
            /\ Resume(w, [Idle EXCEPT !.op = "refresh", !.step = "find_token", !.token = k,
                            !.fresh = f])
      BY <2>1 DEF BeginRefresh
    <3> QED BY <3>1 DEF Resume, Idle, IInv, TypeInv, TypeOK
  <2>2. CASE BeginLogout(w)
    <3>1. PICK k \in Issued :
            /\ ~InUse(k)
            /\ Resume(w, [Idle EXCEPT !.op = "logout", !.step = "find_token", !.token = k])
      BY <2>2 DEF BeginLogout
    <3> QED BY <3>1 DEF Resume, Idle, IInv, TypeInv, TypeOK
  <2> QED BY <2>1, <2>2
<1>3. OneUse'
  BY <1>2 DEF TurnsInv, OneUse, InUse
<1>4. Renewals'
  BY <1>1, <1>2 DEF TurnsInv, Renewals, Unspent, Revoking, Renewing
<1>5. OneUpdate'
  BY <1>2 DEF TurnsInv, OneUpdate
<1>6. RowsFresh'
  BY <1>1, <1>2 DEF TurnsInv, RowsFresh, At, Exists
<1> QED BY <1>1, <1>3, <1>4, <1>5, <1>6 DEF TurnsInv, LoggedOutRevoked, SpentOnce,
        LogoutEndsSession, NoLostPatch

(* Logins and administrators' requests use no refresh token, and an account is edited *)
(* by nobody else.                                                                    *)
LEMMA ArriveTurns ==
    ASSUME Turns, IInv, TypeInv', TurnsInv, NEW w \in Workers,
           BeginLogin(w) \/ BeginManage(w)
    PROVE  TurnsInv'
<1>1. UNCHANGED <<users, tokens, access, wanted, loggedOut>>
  BY DEF BeginLogin, BeginManage
<1>2. CASE BeginLogin(w)
  <2>1. PICK u \in Users, p \in Passwords, f \in Tokens \ Drawn :
            Resume(w, [Idle EXCEPT !.op = "login", !.step = "find_user", !.user = u,
                         !.password = p, !.fresh = f])
    BY <1>2 DEF BeginLogin
  <2>2. /\ task'[w].token = None /\ task'[w].op = "login"
        /\ \A x \in Workers \ {w} : task'[x] = task[x]
    BY <2>1 DEF Resume, Idle, IInv, TypeInv, TypeOK
  <2>3. Calm
    BY <2>2 DEF Calm, Still
  <2> QED BY <1>1, <2>3, CalmTurns
<1>3. ASSUME NEW k \in Issued, NEW u \in Users, NEW p \in Patches, NEW op \in Manage,
             op = "update_user" => \A x \in Workers : ~(task[x].op = op /\ task[x].user = u),
             Resume(w, [Idle EXCEPT !.op = op, !.step = "authenticate",
                    !.claims = access[k], !.user = u,
                    !.patch = IF op = "update_user" THEN p ELSE None,
                    !.barred = ~ActiveAdmin(access[k].sub)])
      PROVE  TurnsInv'
  <2>1. /\ task'[w].token = None /\ task'[w].op = op /\ task'[w].user = u
        /\ task'[w].step = "authenticate"
        /\ \A x \in Workers \ {w} : task'[x] = task[x]
    <3> DEFINE q == IF op = "update_user" THEN p ELSE None
               b == ~ActiveAdmin(access[k].sub)
    <3>1. Resume(w, [Idle EXCEPT !.op = op, !.step = "authenticate",
                    !.claims = access[k], !.user = u, !.patch = q, !.barred = b])
      BY <1>3
    <3> HIDE DEF q, b
    <3> QED BY <3>1 DEF Resume, Idle, IInv, TypeInv, TypeOK
  <2>2. OneUse'
    BY <2>1 DEF TurnsInv, OneUse
  <2>3. Renewals'
    BY <1>1, <2>1 DEF TurnsInv, Renewals, Unspent, Manage
  <2>4. OneUpdate'
    BY <1>3, <2>1 DEF TurnsInv, OneUpdate
  <2>5. RowsFresh'
    BY <1>1, <2>1 DEF TurnsInv, RowsFresh, At, Exists
  <2> QED BY <1>1, <2>2, <2>3, <2>4, <2>5 DEF TurnsInv, LoggedOutRevoked, SpentOnce,
          LogoutEndsSession, NoLostPatch
<1>4. CASE Answer(w)
  BY <1>1, <1>4, AnswerCalm, CalmTurns DEF IInv
<1> QED BY <1>2, <1>3, <1>4 DEF BeginManage, Manage

(* A refresh goes on with a token that has not been spent. *)
LEMMA FindTokenTurns ==
    ASSUME IInv, TypeInv', TurnsInv, NEW w \in Workers, FindToken(w)
    PROVE  TurnsInv'
<1> DEFINE t == task[w]
<1>1. UNCHANGED <<users, tokens, access, wanted, loggedOut>>
  BY DEF FindToken
<1>2. CASE Answer(w)
  BY <1>1, <1>2, AnswerCalm, CalmTurns DEF IInv
<1>3. CASE /\ tokens[t.token] # None
           /\ t.op = "refresh" => IsUsable(tokens[t.token])
           /\ Resume(w, [t EXCEPT !.user = tokens[t.token].user, !.step = "revoke"])
  <2>1. t \in Task /\ t.op \in {"refresh", "logout"} /\ t.token \in Tokens
    BY DEF FindToken, At, IInv, TypeInv, AllShaped, Shaped
  <2>2. /\ task'[w].op = t.op /\ task'[w].token = t.token /\ task'[w].step = "revoke"
        /\ \A x \in Workers \ {w} : task'[x] = task[x]
    <3> DEFINE u == tokens[t.token].user
    <3>1. Resume(w, [t EXCEPT !.user = u, !.step = "revoke"])
      BY <1>3
    <3> HIDE DEF u
    <3> QED BY <2>1, <3>1 DEF Resume, Task, IInv, TypeInv, TypeOK
  <2>3. OneUse'
    BY <2>2 DEF TurnsInv, OneUse
  <2>4. t.op = "refresh" => Unspent(t.token)
    <3> SUFFICES ASSUME t.op = "refresh" PROVE Unspent(t.token)
      OBVIOUS
    <3>1. tokens[t.token].revoked = None
      BY <1>3 DEF IsUsable
    <3>2. t.token \notin loggedOut
      BY <1>3, <3>1 DEF TurnsInv, LoggedOutRevoked
    <3>3. \A l \in Tokens : tokens[l] # None => tokens[l].parent # t.token
      BY <1>3, <2>1, <3>1, NoneAssumption DEF TurnsInv, SpentOnce
    <3> QED BY <3>2, <3>3 DEF Unspent
  <2>5. Renewals'
    BY <1>1, <2>2, <2>4 DEF TurnsInv, Renewals, Unspent, Renewing
  <2>6. OneUpdate'
    BY <2>1, <2>2 DEF TurnsInv, OneUpdate
  <2>7. RowsFresh'
    BY <1>1, <2>2 DEF TurnsInv, RowsFresh, At, Exists
  <2> QED BY <1>1, <2>3, <2>5, <2>6, <2>7 DEF TurnsInv, LoggedOutRevoked, SpentOnce,
          LogoutEndsSession, NoLostPatch
<1> QED BY <1>2, <1>3 DEF FindToken

(* The token is given up before it has a successor, or for good. *)
LEMMA RevokeTurns ==
    ASSUME IInv, TypeInv', TurnsInv, NEW w \in Workers, Revoke(w)
    PROVE  TurnsInv'
<1> DEFINE t == task[w]
           k == t.token
<1>1. /\ t \in Task /\ k \in Tokens /\ t.op \in {"refresh", "logout"} /\ t.step = "revoke"
      /\ tokens' = Revoked(k) /\ UNCHANGED <<users, access, wanted>>
  BY DEF Revoke, At, IInv, TypeInv, AllShaped, Shaped
<1>2. \A l \in Tokens :
        /\ tokens'[l] = None <=> tokens[l] = None
        /\ tokens[l] # None =>
            /\ tokens'[l].parent = tokens[l].parent
            /\ tokens[l].revoked # None => tokens'[l].revoked # None
            /\ l = k => tokens'[l].revoked # None
            /\ l # k => tokens'[l] = tokens[l]
  BY <1>1, RevokedTokens DEF IInv
<1>3. \A l \in Tokens : tokens[l] # None => tokens[l].parent \in Tokens \cup {None}
  BY DEF IInv, TypeInv, TypeOK, TokenRow
<1>4. SpentOnce'
  BY <1>2, <1>3 DEF TurnsInv, SpentOnce
<1>5. \/ loggedOut' = loggedOut
      \/ t.op = "logout" /\ loggedOut' = loggedOut \cup {k} /\ Unspent(k)
         /\ tokens[k] # None
  <2>1. CASE t.op = "logout" /\ Revoked(k) # tokens
    <3>1. tokens[k] # None /\ tokens[k].revoked = None
      BY <2>1 DEF Revoked
    <3>2. \A l \in Tokens : tokens[l] # None => tokens[l].parent # k
      BY <1>1, <3>1, NoneAssumption DEF TurnsInv, SpentOnce
    <3>3. k \notin loggedOut
      BY <3>1 DEF TurnsInv, LoggedOutRevoked
    <3> QED BY <2>1, <3>1, <3>2, <3>3 DEF Revoke, Unspent
  <2>2. CASE ~(t.op = "logout" /\ Revoked(k) # tokens)
    BY <2>2 DEF Revoke
  <2> QED BY <2>1, <2>2
<1>6. LogoutEndsSession'
  BY <1>2, <1>5 DEF TurnsInv, LogoutEndsSession, Unspent
<1>7. LoggedOutRevoked'
  <2>1. access[k] # None
    BY <1>1, NoneAssumption DEF IInv, Rest, HeldIssued
  <2>2. loggedOut \subseteq Tokens
    BY DEF IInv, TypeInv, TypeOK
  <2> QED BY <1>1, <1>2, <1>5, <2>1, <2>2 DEF TurnsInv, LoggedOutRevoked
<1>8. /\ \A x \in Workers \ {w} : task'[x] = task[x]
      /\ \/ t.op = "refresh" /\ task'[w] = [t EXCEPT !.step = "find_any"]
         \/ t.op = "logout" /\ task'[w] = Idle
  BY <1>1, AnswerQuiet DEF Revoke, Goto, IInv, TypeInv, TypeOK
<1>9. /\ task'[w].op # "update_user" /\ task'[w].step # "write_user"
      /\ task'[w].op = "refresh" => t.op = "refresh" /\ task'[w].token = k
      /\ task'[w].token \in {k, None}
  BY <1>1, <1>8, NoneAssumption DEF Task, Idle, AllOperations
<1>10. OneUse'
  BY <1>8, <1>9 DEF TurnsInv, OneUse
<1>11. OneUpdate'
  BY <1>8, <1>9 DEF TurnsInv, OneUpdate
<1>12. RowsFresh'
  BY <1>1, <1>8, <1>9 DEF TurnsInv, RowsFresh, At, Exists
<1>13. Renewals'
  <2> SUFFICES ASSUME NEW x \in Workers, task'[x].op = "refresh"
               PROVE  /\ task'[x].step \in Revoking =>
                            /\ task'[x].token \notin loggedOut'
                            /\ \A l \in Tokens : tokens'[l] # None =>
                                tokens'[l].parent # task'[x].token
                      /\ task'[x].step \in Renewing =>
                            (tokens'[task'[x].token] # None =>
                                tokens'[task'[x].token].revoked # None)
    BY DEF Renewals, Unspent
  <2>1. CASE x = w
    <3>1. t.op = "refresh" /\ task'[x].token = k /\ loggedOut' = loggedOut
      BY <1>5, <1>9, <2>1
    <3>2. Unspent(k)
      BY <1>1, <3>1 DEF TurnsInv, Renewals, Revoking
    <3> QED BY <1>1, <1>2, <3>1, <3>2 DEF Unspent
  <2>2. CASE x # w
    <3>1. task'[x] = task[x] /\ task[x].token \in Tokens /\ task[x].token # k
      BY <1>1, <1>8, <2>2, NoneAssumption DEF TurnsInv, OneUse, IInv, TypeInv, AllShaped, Shaped
    <3> QED BY <1>2, <1>5, <3>1 DEF TurnsInv, Renewals, Unspent
  <2> QED BY <2>1, <2>2
<1>14. NoLostPatch'
  BY <1>1 DEF TurnsInv, NoLostPatch
<1> QED BY <1>4, <1>6, <1>7, <1>10, <1>11, <1>12, <1>13, <1>14 DEF TurnsInv

(* A successor comes after its parent was given up, and is the only one. *)
LEMMA InsertTokenTurns ==
    ASSUME IInv, TypeInv', TurnsInv, NEW w \in Workers, InsertToken(w)
    PROVE  TurnsInv'
<1> DEFINE t == task[w]
           r == [user |-> t.user, expires |-> t.expires, revoked |-> None, parent |-> t.token]
<1>1. Calm /\ \A x \in Workers \ {w} : task'[x] = task[x]
  BY AnswerCalm, AnswerQuiet DEF InsertToken, IInv
<1>2. UNCHANGED <<users, wanted, loggedOut>>
  BY DEF InsertToken
<1>3. CASE UNCHANGED <<tokens, access>>
  BY <1>1, <1>2, <1>3, CalmTurns
<1>4. CASE /\ tokens' = [tokens EXCEPT ![t.fresh] = r]
           /\ access' = [access EXCEPT ![t.fresh] = t.claims]
  <2>1. r.parent = t.token
    OBVIOUS
  <2> HIDE DEF r
  <2>2. /\ t.fresh \in Tokens /\ t.fresh # None /\ t.claims # None
        /\ t.token \in Tokens \cup {None} /\ t.step = "insert_token"
        /\ t.op = "refresh" \/ t.token = None
    BY NoneAssumption DEF InsertToken, At, IInv, TypeInv, AllShaped, Shaped, Task
  <2>3. /\ \A l \in Tokens : tokens'[l] = IF l = t.fresh THEN r ELSE tokens[l]
        /\ \A l \in Tokens : access'[l] = IF l = t.fresh THEN t.claims ELSE access[l]
    BY <1>4, <2>2 DEF IInv, TypeInv, TypeOK
  <2>4. tokens[t.fresh] = None /\ access[t.fresh] = None
    BY <2>2 DEF IInv, Rest, FreshNew
  <2>5. /\ t.token # None => access[t.token] # None
        /\ \A l \in Tokens : tokens[l] # None /\ tokens[l].parent # None =>
            tokens[l].parent \in Tokens /\ access[tokens[l].parent] # None
    BY DEF IInv, Rest, HeldIssued, TokensIssued, TypeInv, TypeOK, TokenRow
  <2>6. t.token # None =>
            /\ Unspent(t.token)
            /\ tokens[t.token] # None => tokens[t.token].revoked # None
    BY <2>2 DEF TurnsInv, Renewals, Revoking, Renewing
  <2>7. SpentOnce'
    <3> SUFFICES ASSUME NEW l \in Tokens, tokens'[l] # None, tokens'[l].parent # None
                 PROVE  /\ tokens'[tokens'[l].parent] # None =>
                                tokens'[tokens'[l].parent].revoked # None
                        /\ \A n \in Tokens :
                            tokens'[n] # None /\ tokens'[n].parent = tokens'[l].parent
                                => l = n
      BY DEF SpentOnce
    <3>1. CASE l = t.fresh
      <4>1. tokens'[l].parent = t.token /\ t.token \in Tokens /\ t.token # None
        BY <2>1, <2>2, <2>3, <3>1
      <4>2. tokens'[t.token] = tokens[t.token]
        BY <2>3, <2>4, <2>5, <4>1
      <4>3. \A n \in Tokens \ {t.fresh} : tokens'[n] # None => tokens'[n].parent # t.token
        BY <2>3, <2>6, <4>1 DEF Unspent
      <4> QED BY <2>6, <3>1, <4>1, <4>2, <4>3
    <3>2. CASE l # t.fresh
      <4>1. tokens'[l] = tokens[l]
        BY <2>3, <3>2
      <4>2. tokens[l].parent \in Tokens /\ tokens[l].parent # t.fresh
        BY <2>4, <2>5, <4>1
      <4>3. tokens'[tokens[l].parent] = tokens[tokens[l].parent]
        BY <2>3, <4>2
      <4>4. tokens[l].parent # t.token
        BY <2>6, <4>1 DEF Unspent
      <4> QED BY <2>1, <2>3, <4>1, <4>3, <4>4 DEF TurnsInv, SpentOnce
    <3> QED BY <3>1, <3>2
  <2>8. LogoutEndsSession'
    <3>1. t.token \notin loggedOut
      BY <2>6, NoneAssumption DEF Unspent, IInv, TypeInv, TypeOK
    <3> QED BY <1>2, <2>1, <2>3, <3>1 DEF TurnsInv, LogoutEndsSession
  <2>9. LoggedOutRevoked'
    <3>1. loggedOut \subseteq Tokens \ {t.fresh}
      BY <2>4 DEF TurnsInv, LoggedOutRevoked, IInv, TypeInv, TypeOK
    <3> QED BY <1>2, <2>3, <3>1 DEF TurnsInv, LoggedOutRevoked
  <2>10. Renewals'
    <3> SUFFICES ASSUME NEW x \in Workers, task'[x].op = "refresh"
                 PROVE  /\ task'[x].step \in Revoking =>
                            /\ task'[x].token \notin loggedOut'
                            /\ \A l \in Tokens : tokens'[l] # None =>
                                tokens'[l].parent # task'[x].token
                        /\ task'[x].step \in Renewing =>
                            (tokens'[task'[x].token] # None =>
                                tokens'[task'[x].token].revoked # None)
      BY DEF Renewals, Unspent
    <3>1. x # w
      <4>1. task'[w].op = None
        BY AnswerQuiet DEF InsertToken, IInv, Idle
      <4> QED BY <4>1, NoneAssumption DEF AllOperations
    <3>2. task'[x] = task[x] /\ task[x].token \in Tokens /\ task[x].token # t.token
      BY <1>1, <3>1, NoneAssumption DEF TurnsInv, OneUse, IInv, TypeInv, AllShaped, Shaped
    <3>3. task[x].token # t.fresh
      BY <2>4, <3>2, NoneAssumption DEF IInv, Rest, HeldIssued
    <3> QED BY <1>2, <2>1, <2>3, <3>2, <3>3 DEF TurnsInv, Renewals, Unspent
  <2>11. RowsFresh' /\ OneUse' /\ OneUpdate'
    BY <1>1, <1>2, CalmRows, CalmUses
  <2> QED BY <1>2, <2>7, <2>8, <2>9, <2>10, <2>11 DEF TurnsInv, NoLostPatch
<1> QED BY <1>3, <1>4 DEF InsertToken

(* The steps that sign, and those of an administrator's request that write nothing. *)
LEMMA ReadTurns ==
    ASSUME IInv, TypeInv', TurnsInv, NEW w \in Workers,
           FindUser(w) \/ FindAny(w) \/ Authenticate(w) \/ FindTarget(w) \/ Fail(w)
    PROVE  TurnsInv'
<1> DEFINE t == task[w]
<1>1. UNCHANGED <<users, tokens, access, wanted, loggedOut>>
  BY DEF FindUser, FindAny, Authenticate, FindTarget, Fail
<1>2. t \in Task /\ Shaped(t)
  BY DEF IInv, TypeInv, AllShaped
<1>3. CASE Answer(w)
  BY <1>1, <1>3, AnswerCalm, CalmTurns DEF IInv
<1>4. CASE Goto(w, "find_target") \/ Goto(w, "erase_user")
  BY <1>1, <1>4, GotoCalm, CalmTurns DEF IInv
<1>5. CASE (FindUser(w) \/ FindAny(w)) /\ Resume(w, Sign(t, t.user))
  <2> DEFINE s == Sign(t, t.user)
  <2>1. /\ s.op = t.op /\ s.token = t.token /\ s.step = "insert_token"
    BY <1>2 DEF Sign, Task
  <2>2. t.op \in {"login", "refresh"} /\ (t.op = "refresh" => t.step = "find_any")
    BY <1>2, <1>5 DEF FindUser, FindAny, At, Shaped
  <2> HIDE DEF s
  <2>3. task'[w] = s /\ \A x \in Workers \ {w} : task'[x] = task[x]
    BY <1>5 DEF Resume, IInv, TypeInv, TypeOK, s
  <2>4. Calm
    BY <2>1, <2>2, <2>3 DEF Calm, Still, Revoking, Renewing
  <2> QED BY <1>1, <2>4, CalmTurns
<1>6. CASE /\ FindTarget(w) /\ Exists(t.user) /\ t.op # "delete_user"
           /\ Resume(w, [t EXCEPT !.row = Patched(t.patch, users[t.user]),
                                  !.step = "write_user"])
  <2> DEFINE r == Patched(t.patch, users[t.user])
  <2>1. t.op = "update_user"
    BY <1>2, <1>6 DEF FindTarget, At, Shaped, Manage
  <2>2. Resume(w, [t EXCEPT !.row = r, !.step = "write_user"])
    BY <1>6
  <2> HIDE DEF r
  <2>3. /\ task'[w].op = t.op /\ task'[w].token = t.token /\ task'[w].user = t.user
        /\ task'[w].row = r /\ task'[w].patch = t.patch
        /\ \A x \in Workers \ {w} : task'[x] = task[x]
    BY <1>2, <2>2 DEF Resume, Task, IInv, TypeInv, TypeOK
  <2>4. OneUse' /\ OneUpdate'
    BY <2>3 DEF TurnsInv, OneUse, OneUpdate
  <2>5. Renewals'
    BY <1>1, <2>1, <2>3 DEF TurnsInv, Renewals, Unspent
  <2>6. RowsFresh'
    <3> SUFFICES ASSUME NEW x \in Workers, task'[x].step = "write_user",
                        users[task'[x].user] # None
                 PROVE  task'[x].row = Patched(task'[x].patch, users[task'[x].user])
      BY <1>1 DEF RowsFresh, At, Exists, Patched
    <3>1. CASE x = w
      BY <2>3, <3>1 DEF r
    <3>2. CASE x # w
      BY <2>3, <3>2 DEF TurnsInv, RowsFresh, At, Exists
    <3> QED BY <3>1, <3>2
  <2> QED BY <1>1, <2>4, <2>5, <2>6 DEF TurnsInv, LoggedOutRevoked, SpentOnce,
          LogoutEndsSession, NoLostPatch
<1> QED BY <1>3, <1>4, <1>5, <1>6 DEF FindUser, FindAny, Authenticate, FindTarget, Fail

(* A PATCH is written over what it was made from. *)
LEMMA WriteUserTurns ==
    ASSUME IInv, TypeInv', TurnsInv, NEW w \in Workers, WriteUser(w)
    PROVE  TurnsInv'
<1> DEFINE t == task[w]
<1>1. UNCHANGED <<tokens, access, loggedOut>>
  BY DEF WriteUser
<1>2. CASE Answer(w) /\ UNCHANGED <<users, wanted>>
  BY <1>1, <1>2, AnswerCalm, CalmTurns DEF IInv
<1>3. CASE Exists(t.user)
  <2>1. /\ users' = [users EXCEPT ![t.user] = t.row]
        /\ wanted' = [wanted EXCEPT ![t.user] = Asked(t.patch, wanted[t.user])]
    BY <1>3 DEF WriteUser
  <2>2. \A x \in Workers :
            /\ x = w => task'[x] = Idle
            /\ \/ x = w
               \/ task'[x] = task[x]
               \/ task[x].barred /\ task'[x] = [task[x] EXCEPT !.barred = FALSE]
    BY <1>3 DEF WriteUser
  <2>3. ASSUME NEW x \in Workers
        PROVE  Still(x)
    <3>1. CASE x = w
      <4>1. task'[x] = Idle
        BY <2>2, <3>1
      <4>2. Idle.token = None /\ Idle.op = None
        BY DEF Idle
      <4> QED BY <4>1, <4>2, NoneAssumption DEF Still, AllOperations
    <3>2. CASE task'[x] = task[x]
      BY <3>2 DEF Still
    <3>3. CASE task[x].barred /\ task'[x] = [task[x] EXCEPT !.barred = FALSE]
      <4>1. task[x] \in Task /\ task[x].step = "authenticate"
        BY <3>3 DEF IInv, TypeInv, AllShaped, Shaped
      <4> QED BY <3>3, <4>1 DEF Still, Task, Revoking, Renewing
    <3> QED BY <2>2, <3>1, <3>2, <3>3
  <2>4. Calm
    BY <2>3 DEF Calm
  <2>5. OneUse' /\ OneUpdate' /\ Renewals'
    BY <1>1, <2>4, CalmUses, CalmRenewals
  <2>6. /\ t.op = "update_user" /\ t.user \in Users /\ t.patch \in Patch
        /\ users[t.user] \in UserRow /\ users = wanted
    BY <1>3 DEF WriteUser, At, Exists, IInv, TypeInv, TypeOK, AllShaped, Shaped, Manage,
       TurnsInv, NoLostPatch
  <2>7. t.row = Patched(t.patch, users[t.user])
    BY <1>3 DEF WriteUser, TurnsInv, RowsFresh
  <2>8. NoLostPatch'
    BY <2>1, <2>6, <2>7, PatchedType DEF NoLostPatch
  <2>9. RowsFresh'
    <3> SUFFICES ASSUME NEW x \in Workers, task'[x].step = "write_user",
                        users'[task'[x].user] # None
                 PROVE  task'[x].row = Patched(task'[x].patch, users'[task'[x].user])
      BY DEF RowsFresh, At, Exists, Patched
    <3>1. task'[x].op = "update_user" /\ task'[x].user \in Users
      BY DEF TypeInv, AllShaped, Shaped, Manage
    <3>2. task'[x] = task[x]
      BY <2>3, <3>1 DEF Still
    <3>3. x # w
      <4>1. Idle.step = "idle"
        BY DEF Idle
      <4> QED BY <2>2, <4>1
    <3>4. task[x].user # t.user
      BY <2>6, <3>1, <3>2, <3>3 DEF TurnsInv, OneUpdate
    <3>5. users'[task[x].user] = users[task[x].user]
      BY <2>1, <3>1, <3>2, <3>4 DEF IInv, TypeInv, TypeOK
    <3> QED BY <3>2, <3>5 DEF TurnsInv, RowsFresh, At, Exists
  <2> QED BY <1>1, <2>5, <2>8, <2>9 DEF TurnsInv, LoggedOutRevoked, SpentOnce,
          LogoutEndsSession
<1> QED BY <1>2, <1>3 DEF WriteUser

(* An account is deleted: fewer tokens, and one row less to edit. *)
LEMMA EraseUserTurns ==
    ASSUME IInv, TypeInv', TurnsInv, NEW w \in Workers, EraseUser(w)
    PROVE  TurnsInv'
<1> DEFINE u == task[w].user
<1>1. Calm
  BY AnswerCalm DEF EraseUser, IInv
<1>2. /\ users' = [users EXCEPT ![u] = None] /\ wanted' = [wanted EXCEPT ![u] = None]
      /\ tokens' = TokensWithout(u) /\ UNCHANGED <<access, loggedOut>>
  BY DEF EraseUser
<1>3. \A k \in Tokens : tokens'[k] # None => tokens'[k] = tokens[k]
  BY <1>2 DEF TokensWithout
<1>4. \A l \in Tokens : tokens[l] # None => tokens[l].parent \in Tokens \cup {None}
  BY DEF IInv, TypeInv, TypeOK, TokenRow
<1>5. SpentOnce'
  BY <1>3, <1>4 DEF TurnsInv, SpentOnce
<1>6. LogoutEndsSession'
  BY <1>2, <1>3 DEF TurnsInv, LogoutEndsSession
<1>7. LoggedOutRevoked'
  BY <1>2, <1>3 DEF TurnsInv, LoggedOutRevoked, IInv, TypeInv, TypeOK
<1>8. RowsFresh'
  <2>1. \A v \in Users : users'[v] # None => users'[v] = users[v]
    BY <1>2 DEF IInv, TypeInv, TypeOK
  <2> QED BY <1>1, <2>1, CalmRows
<1>9. Renewals'
  <2> SUFFICES ASSUME NEW x \in Workers, task'[x].op = "refresh"
               PROVE  /\ task'[x].step \in Revoking =>
                            /\ task'[x].token \notin loggedOut'
                            /\ \A l \in Tokens : tokens'[l] # None =>
                                tokens'[l].parent # task'[x].token
                      /\ task'[x].step \in Renewing =>
                            (tokens'[task'[x].token] # None =>
                                tokens'[task'[x].token].revoked # None)
    BY DEF Renewals, Unspent
  <2>1. /\ task[x].op = "refresh" /\ task'[x].token = task[x].token
        /\ task'[x].step \in Revoking => task[x].step \in Revoking
        /\ task'[x].step \in Renewing => task[x].step \in Renewing
    BY <1>1 DEF Calm, Still
  <2>2. task[x].token \in Tokens
    BY <2>1 DEF IInv, TypeInv, AllShaped, Shaped
  <2> QED BY <1>2, <1>3, <2>1, <2>2 DEF TurnsInv, Renewals, Unspent
<1>10. NoLostPatch'
  BY <1>2 DEF TurnsInv, NoLostPatch
<1> QED BY <1>1, <1>5, <1>6, <1>7, <1>8, <1>9, <1>10, CalmUses DEF TurnsInv

(* Where clients take turns, the second invariant holds too. *)
THEOREM TurnsInvariantHolds == Turns => (Spec => []TurnsInv)
<1> SUFFICES ASSUME Turns PROVE Spec => []TurnsInv
  OBVIOUS
<1>1. Init => TurnsInv
  <2> SUFFICES ASSUME Init PROVE TurnsInv
    OBVIOUS
  <2>1. \A w \in Workers : task[w].token = None /\ task[w].op = None /\ task[w].step = "idle"
    BY DEF Init, Idle
  <2> QED BY <2>1, NoneAssumption DEF Init, TurnsInv, OneUse, Renewals, LoggedOutRevoked,
          SpentOnce, LogoutEndsSession, OneUpdate, RowsFresh, NoLostPatch, At, AllOperations
<1>2. IInv /\ TurnsInv /\ [Next]_vars => TurnsInv'
  <2> SUFFICES ASSUME IInv, TurnsInv, [Next]_vars PROVE TurnsInv'
    OBVIOUS
  <2>1. CASE Next
    <3>1. TypeInv'
      BY <2>1, NextType
    <3>2. CASE Tick
      <4>1. Calm
        BY <3>2 DEF Tick, Calm, Still
      <4> QED BY <3>1, <3>2, <4>1, CalmTurns DEF Tick
    <3> QED BY <2>1, <3>1, <3>2, TakeUpTurns, ArriveTurns, FindTokenTurns, RevokeTurns,
            InsertTokenTurns, ReadTurns, WriteUserTurns, EraseUserTurns
            DEF Next, Arrive, Step
  <2>2. CASE UNCHANGED vars
    BY <2>2 DEF vars, TurnsInv, OneUse, Renewals, Unspent, LoggedOutRevoked, SpentOnce,
       LogoutEndsSession, OneUpdate, RowsFresh, NoLostPatch, At, Exists, Patched
  <2> QED BY <2>1, <2>2
<1> QED BY <1>1, <1>2, InvariantHolds, PTL DEF Spec

(* Clients who take turns get one successor for a refresh token, and only after it was *)
(* revoked, whatever fails in between.                                                 *)
THEOREM RefreshTokensSpentOnce == Turns => (Spec => []RefreshSpentOnce)
<1> SUFFICES ASSUME Turns PROVE Spec => []RefreshSpentOnce
  OBVIOUS
<1>1. TurnsInv => RefreshSpentOnce
  BY DEF TurnsInv, SpentOnce, RefreshSpentOnce
<1> QED BY <1>1, TurnsInvariantHolds, PTL

(* Clients who take turns end their session when they log out. *)
THEOREM LogoutsEndSessions == Turns => (Spec => []LogoutEndsSession)
<1> SUFFICES ASSUME Turns PROVE Spec => []LogoutEndsSession
  OBVIOUS
<1>1. TurnsInv => LogoutEndsSession
  BY DEF TurnsInv
<1> QED BY <1>1, TurnsInvariantHolds, PTL

(* Administrators who take turns lose no PATCH. *)
THEOREM PatchesAreKept == Turns => (Spec => []NoLostPatch)
<1> SUFFICES ASSUME Turns PROVE Spec => []NoLostPatch
  OBVIOUS
<1>1. TurnsInv => NoLostPatch
  BY DEF TurnsInv
<1> QED BY <1>1, TurnsInvariantHolds, PTL
=============================================================================
