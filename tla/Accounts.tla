------------------------------- MODULE Accounts -------------------------------
(***************************************************************************)
(* The user accounts of one organisation and their sessions: logging in,   *)
(* rotating and revoking refresh tokens, authenticating a request with a   *)
(* bearer token, and an administrator's edits and deletions of accounts.   *)
(*                                                                         *)
(* Every repository call is one autocommit statement, and tasks interleave *)
(* between statements.  A session is stateless on the access side: an      *)
(* access token is whatever was signed, until it expires.  A refresh token *)
(* stands for its random bytes and for their hash (no collisions).  An     *)
(* e-mail address is globally unique and never edited, so an account is    *)
(* its address.  Time is counted in ticks.                                 *)
(***************************************************************************)
EXTENDS Integers, FiniteSets

CONSTANTS
    Users,         \* accounts
    Registered,    \* table users at the start: [Users -> UserRow \cup {None}]
    Passwords,     \* distinguishable passwords (hashing is injective here)
    Tokens,        \* refresh tokens available (a bound on logins and refreshes)
    Patches,       \* the PATCH bodies administrators send
    Operations,    \* the endpoints that are called, a subset of AllOperations
    Workers,       \* request tasks that run at the same time
    Turns,         \* TRUE: a client uses its token, and administrators edit an
                   \* account, one request at a time
    AccessTTL,     \* lifetime of an access token
    Leeway,        \* jsonwebtoken's clock-skew leeway
    RefreshTTL,    \* lifetime of a refresh token
    MaxTime,       \* a bound on the clock
    None           \* SQL NULL, a missing row, Option::None

AllOperations == {"login", "refresh", "logout", "update_user", "delete_user"}

Roles == {"viewer", "engineer", "admin", "owner"}
Rank(role) ==
    CASE role = "viewer" -> 0
      [] role = "engineer" -> 1
      [] role = "admin" -> 2
      [] role = "owner" -> 3

\* Role::at_least
AtLeast(role, min) == Rank(role) >= Rank(min)

UserRow == [role : Roles, active : BOOLEAN, password : Passwords]
Patch == [role : Roles \cup {None}, active : BOOLEAN \cup {None},
          password : Passwords \cup {None}]

Time == 0 .. MaxTime

\* parent is history: the token a refresh gave up for this one.
TokenRow == [user : Users, expires : Nat, revoked : Time \cup {None},
             parent : Tokens \cup {None}]
Claims == [sub : Users, role : Roles, exp : Nat]

ASSUME OperationsAssumption == Operations \subseteq AllOperations
ASSUME RegisteredAssumption == Registered \in [Users -> UserRow \cup {None}]
ASSUME PatchesAssumption == Patches \subseteq Patch
ASSUME TurnsAssumption == Turns \in BOOLEAN
ASSUME TimesAssumption == {AccessTTL, Leeway, RefreshTTL, MaxTime} \subseteq Nat
ASSUME NoneAssumption ==
    /\ None \notin Users \cup Passwords \cup Tokens
    /\ None \notin AllOperations
    /\ None \notin Time
    /\ None \notin Roles
    /\ None \notin BOOLEAN
    /\ None \notin UserRow
    /\ None \notin TokenRow
    /\ None \notin Claims
    /\ None \notin Patch

VARIABLES
    users,      \* table users, None where there is no row
    tokens,     \* table refresh_tokens by hash, None where there is no row
    access,     \* the access token signed along with each refresh token, or None
    now,        \* the clock
    task,       \* the request each worker serves, with the handler's locals
    wanted,     \* history: each field of an account as last set by a request about it
    loggedOut   \* history: the tokens a logout has revoked

vars == <<users, tokens, access, now, task, wanted, loggedOut>>

Steps == {"idle", "find_user", "find_token", "revoke", "find_any", "insert_token",
          "authenticate", "find_target", "write_user", "erase_user"}

Task == [op : AllOperations \cup {None},
         step : Steps,
         user : Users \cup {None},          \* account that logs in or refreshes, or target
         password : Passwords \cup {None},  \* password presented
         token : Tokens \cup {None},        \* refresh token presented
         fresh : Tokens \cup {None},        \* refresh token drawn for the answer
         claims : Claims \cup {None},       \* access token presented, or signed
         expires : Nat,                     \* expires_at of the token to insert
         row : UserRow \cup {None},         \* target row read, and changed
         patch : Patch \cup {None},         \* PATCH body
         barred : BOOLEAN]                  \* history: the caller has not been an active
                                            \* administrator since the request arrived

Idle == [op |-> None, step |-> "idle", user |-> None, password |-> None, token |-> None,
         fresh |-> None, claims |-> None, expires |-> 0, row |-> None, patch |-> None,
         barred |-> FALSE]

(* Tables, clock, request locals and history variables have their types. *)
TypeOK ==
    /\ users \in [Users -> UserRow \cup {None}]
    /\ tokens \in [Tokens -> TokenRow \cup {None}]
    /\ access \in [Tokens -> Claims \cup {None}]
    /\ now \in Time
    /\ task \in [Workers -> Task]
    /\ wanted \in [Users -> UserRow \cup {None}]
    /\ loggedOut \subseteq Tokens

Init ==
    /\ users = Registered
    /\ tokens = [k \in Tokens |-> None]
    /\ access = [k \in Tokens |-> None]
    /\ now = 0
    /\ task = [w \in Workers |-> Idle]
    /\ wanted = Registered
    /\ loggedOut = {}

-----------------------------------------------------------------------------
At(w, s) == task[w].step = s
Running(w) == ~At(w, "idle")
Resume(w, t) == task' = [task EXCEPT ![w] = t]
Goto(w, s) == task' = [task EXCEPT ![w].step = s]
Answer(w) == Resume(w, Idle)

Exists(u) == users[u] # None
\* Refresh tokens are 32 random bytes: a drawn one was never drawn before.
Drawn == {k \in Tokens : tokens[k] # None \/ access[k] # None
                            \/ \E w \in Workers : task[w].fresh = k}

\* The tokens that clients have been given.
Issued == {k \in Tokens : access[k] # None}

ActiveAdmin(u) == Exists(u) /\ users[u].active /\ AtLeast(users[u].role, "admin")

\* Mutant: a revoked token is good until it expires.
MutantIsUsable(rec) == rec.expires > now

\* RefreshTokenRecord::is_usable
IsUsable(rec) == rec.revoked = None /\ rec.expires > now

\* PasswordHasher::verify
Matches(password, u) == users[u].password = password

\* issue_access, for the row read.
Signed(u) == [sub |-> u, role |-> users[u].role, exp |-> now + AccessTTL]

\* verify_access
Verifies(claims) == now <= claims.exp + Leeway

-----------------------------------------------------------------------------
(* Requests arrive.                                                        *)

Begin(w, op) == op \in Operations /\ ~Running(w)

BeginLogin(w) ==
    \E u \in Users, p \in Passwords, k \in Tokens \ Drawn :
        /\ Begin(w, "login")
        /\ Resume(w, [Idle EXCEPT !.op = "login", !.step = "find_user", !.user = u,
                        !.password = p, !.fresh = k])
        /\ UNCHANGED <<users, tokens, access, now, wanted, loggedOut>>

InUse(k) == \E w \in Workers : task[w].token = k

BeginRefresh(w) ==
    \E k \in Issued, f \in Tokens \ Drawn :
        /\ Begin(w, "refresh")
        /\ Turns => ~InUse(k)
        /\ Resume(w, [Idle EXCEPT !.op = "refresh", !.step = "find_token", !.token = k,
                        !.fresh = f])
        /\ UNCHANGED <<users, tokens, access, now, wanted, loggedOut>>

BeginLogout(w) ==
    \E k \in Issued :
        /\ Begin(w, "logout")
        /\ Turns => ~InUse(k)
        /\ Resume(w, [Idle EXCEPT !.op = "logout", !.step = "find_token", !.token = k])
        /\ UNCHANGED <<users, tokens, access, now, wanted, loggedOut>>

\* An administrator's request, with any access token that was ever signed.  verify_access
\* comes before the first statement.
BeginManage(w) ==
    \E k \in Issued, u \in Users, p \in Patches, op \in {"update_user", "delete_user"} :
        /\ Begin(w, op)
        /\ Turns /\ op = "update_user" =>
            \A x \in Workers : ~(task[x].op = op /\ task[x].user = u)
        /\ IF Verifies(access[k])
           THEN Resume(w, [Idle EXCEPT !.op = op, !.step = "authenticate",
                    !.claims = access[k], !.user = u,
                    !.patch = IF op = "update_user" THEN p ELSE None,
                    !.barred = ~ActiveAdmin(access[k].sub)])
           ELSE Answer(w)
        /\ UNCHANGED <<users, tokens, access, now, wanted, loggedOut>>

Arrive(w) == BeginLogin(w) \/ BeginRefresh(w) \/ BeginLogout(w) \/ BeginManage(w)

-----------------------------------------------------------------------------
(* Sessions.                                                               *)

\* issue_tokens up to its INSERT: sign an access token for the row read and draw a
\* refresh token, both dated now.
Sign(t, u) ==
    [t EXCEPT !.step = "insert_token", !.user = u,
              !.claims = Signed(u), !.expires = now + RefreshTTL]

\* users.find_by_email, then is_active and the password.
FindUser(w) ==
    LET t == task[w] IN
    /\ At(w, "find_user")
    /\ IF Exists(t.user) /\ users[t.user].active /\ Matches(t.password, t.user)
       THEN Resume(w, Sign(t, t.user))
       ELSE Answer(w)
    /\ UNCHANGED <<users, tokens, access, now, wanted, loggedOut>>

\* refresh_tokens.find_by_hash; refresh checks is_usable, logout does not.
FindToken(w) ==
    LET t == task[w]
        rec == tokens[t.token] IN
    /\ At(w, "find_token")
    /\ IF rec # None /\ (t.op = "refresh" => IsUsable(rec))
       THEN Resume(w, [t EXCEPT !.user = rec.user, !.step = "revoke"])
       ELSE Answer(w)
    /\ UNCHANGED <<users, tokens, access, now, wanted, loggedOut>>

\* Mutant: the time of revocation is overwritten.
MutantRevoked(k) ==
    IF tokens[k] # None THEN [tokens EXCEPT ![k].revoked = now] ELSE tokens

\* UPDATE ... SET revoked_at = ? WHERE id = ? AND revoked_at IS NULL
Revoked(k) ==
    IF tokens[k] # None /\ tokens[k].revoked = None
    THEN [tokens EXCEPT ![k].revoked = now] ELSE tokens

\* Mutant: a refresh leaves the old token alone.
MutantRevoke(w) ==
    LET t == task[w] IN
    /\ At(w, "revoke")
    /\ tokens' = IF t.op = "logout" THEN Revoked(t.token) ELSE tokens
    /\ loggedOut' = IF t.op = "logout" /\ Revoked(t.token) # tokens
                    THEN loggedOut \cup {t.token} ELSE loggedOut
    /\ IF t.op = "logout" THEN Answer(w) ELSE Goto(w, "find_any")
    /\ UNCHANGED <<users, access, now, wanted>>

\* refresh_tokens.revoke
Revoke(w) ==
    LET t == task[w] IN
    /\ At(w, "revoke")
    /\ tokens' = Revoked(t.token)
    /\ loggedOut' = IF t.op = "logout" /\ Revoked(t.token) # tokens
                    THEN loggedOut \cup {t.token} ELSE loggedOut
    /\ IF t.op = "logout" THEN Answer(w) ELSE Goto(w, "find_any")
    /\ UNCHANGED <<users, access, now, wanted>>

\* users.find_by_id_any: whether the account is active is not asked.
FindAny(w) ==
    LET t == task[w] IN
    /\ At(w, "find_any")
    /\ IF Exists(t.user) THEN Resume(w, Sign(t, t.user)) ELSE Answer(w)
    /\ UNCHANGED <<users, tokens, access, now, wanted, loggedOut>>

\* refresh_tokens.create; the foreign key requires the account.  Only now does the
\* client get the two tokens.
InsertToken(w) ==
    LET t == task[w] IN
    /\ At(w, "insert_token")
    /\ IF Exists(t.user)
       THEN /\ tokens' = [tokens EXCEPT ![t.fresh] =
                    [user |-> t.user, expires |-> t.expires, revoked |-> None,
                     parent |-> t.token]]
            /\ access' = [access EXCEPT ![t.fresh] = t.claims]
       ELSE UNCHANGED <<tokens, access>>
    /\ Answer(w)
    /\ UNCHANGED <<users, now, wanted, loggedOut>>

-----------------------------------------------------------------------------
(* Managing accounts.                                                      *)

\* Mutant: the role is the token's, and the account is not looked at.
MutantAdmitted(claims) == AtLeast(claims.role, "admin")

\* users.find_by_id and is_active, then require_role(Admin) on the role in the row.
Admitted(claims) == ActiveAdmin(claims.sub)

Authenticate(w) ==
    /\ At(w, "authenticate")
    /\ IF Admitted(task[w].claims) THEN Goto(w, "find_target") ELSE Answer(w)
    /\ UNCHANGED <<users, tokens, access, now, wanted, loggedOut>>

\* Mutant: what the PATCH leaves out is written as NULL.
MutantReplaced(p, row) == [role |-> p.role, active |-> p.active, password |-> p.password]

\* Mutant: an account whose PATCH says nothing about is_active is activated.
MutantPatched(p, row) ==
    [role |-> IF p.role = None THEN row.role ELSE p.role,
     active |-> p.active = None \/ p.active,
     password |-> IF p.password = None THEN row.password ELSE p.password]

\* "None = leave as-is"
Patched(p, row) ==
    [role |-> IF p.role = None THEN row.role ELSE p.role,
     active |-> IF p.active = None THEN row.active ELSE p.active,
     password |-> IF p.password = None THEN row.password ELSE p.password]

\* users.find_by_id, then the changes in memory.
FindTarget(w) ==
    LET t == task[w] IN
    /\ At(w, "find_target")
    /\ \/ ~Exists(t.user) /\ Answer(w)
       \/ /\ Exists(t.user)
          /\ IF t.op = "delete_user"
             THEN Goto(w, "erase_user")
             ELSE Resume(w, [t EXCEPT !.row = Patched(t.patch, users[t.user]),
                                      !.step = "write_user"])
    /\ UNCHANGED <<users, tokens, access, now, wanted, loggedOut>>

\* History: an account with the fields that the requests about it named.
Asked(p, row) ==
    [row EXCEPT !.role = IF p.role = None THEN @ ELSE p.role,
                !.active = IF p.active = None THEN @ ELSE p.active,
                !.password = IF p.password = None THEN @ ELSE p.password]

\* users.update writes every column but the address; no row is no error.
WriteUser(w) ==
    LET t == task[w]
        after == [users EXCEPT ![t.user] = t.row]
        admitted == {u \in Users : after[u] # None /\ after[u].active
                                     /\ AtLeast(after[u].role, "admin")} IN
    /\ At(w, "write_user")
    /\ IF Exists(t.user)
       THEN /\ users' = after
            /\ wanted' = [wanted EXCEPT ![t.user] = Asked(t.patch, @)]
            /\ task' = [x \in Workers |->
                    IF x = w THEN Idle
                    ELSE IF task[x].barred /\ task[x].claims.sub \in admitted
                         THEN [task[x] EXCEPT !.barred = FALSE] ELSE task[x]]
       ELSE Answer(w) /\ UNCHANGED <<users, wanted>>
    /\ UNCHANGED <<tokens, access, now, loggedOut>>

\* Mutant: refresh_tokens has no ON DELETE CASCADE.
MutantTokensWithout(u) == tokens

\* Deleting an account takes its refresh tokens with it.
TokensWithout(u) ==
    [k \in Tokens |-> IF tokens[k] # None /\ tokens[k].user = u THEN None ELSE tokens[k]]

\* users.delete; a row that is gone already is not_found.
EraseUser(w) ==
    LET u == task[w].user IN
    /\ At(w, "erase_user")
    /\ users' = [users EXCEPT ![u] = None]
    /\ tokens' = TokensWithout(u)
    /\ wanted' = [wanted EXCEPT ![u] = None]
    /\ Answer(w)
    /\ UNCHANGED <<access, now, loggedOut>>

-----------------------------------------------------------------------------
\* A statement fails, or the handler future is dropped at an await.
Fail(w) ==
    /\ Running(w)
    /\ Answer(w)
    /\ UNCHANGED <<users, tokens, access, now, wanted, loggedOut>>

Tick ==
    /\ now < MaxTime
    /\ now' = now + 1
    /\ UNCHANGED <<users, tokens, access, task, wanted, loggedOut>>

Step(w) ==
    \/ FindUser(w)
    \/ FindToken(w)
    \/ Revoke(w)
    \/ FindAny(w)
    \/ InsertToken(w)
    \/ Authenticate(w)
    \/ FindTarget(w)
    \/ WriteUser(w)
    \/ EraseUser(w)
    \/ Fail(w)

Next == Tick \/ \E w \in Workers : Arrive(w) \/ Step(w)

Spec == Init /\ [][Next]_vars

-----------------------------------------------------------------------------
(***************************************************************************)
(* "Rotate it (revoke old + issue new)": a refresh token is given up for   *)
(* one successor at most, and it is revoked before the successor exists,   *)
(* whatever fails or is dropped between the two statements.                *)
(***************************************************************************)
RefreshSpentOnce ==
    \A k, l \in Tokens :
        LET parent == IF tokens[k] = None THEN None ELSE tokens[k].parent IN
        parent # None =>
            /\ tokens[parent] # None => tokens[parent].revoked # None
            /\ tokens[l] # None /\ tokens[l].parent = parent => k = l

(***************************************************************************)
(* A logout ends the session: the token it revoked has no usable successor *)
(* then or later.                                                          *)
(***************************************************************************)
LogoutEndsSession ==
    \A k \in Tokens : tokens[k] # None => tokens[k].parent \notin loggedOut

(***************************************************************************)
(* Refresh tokens are of accounts that exist, although an account may be   *)
(* deleted while one of its sessions is being started or renewed.          *)
(***************************************************************************)
TokensHaveUsers ==
    \A k \in Tokens : tokens[k] # None => Exists(tokens[k].user)

(***************************************************************************)
(* "A disabled or vanished account is rejected even with an otherwise-     *)
(* valid token", and so is a demoted one: a request gets to manage         *)
(* accounts only if its caller was an active administrator at some time    *)
(* since the request arrived, whatever role its token was signed with.     *)
(***************************************************************************)
BarredStayOut ==
    \A w \in Workers : task[w].barred => At(w, "authenticate")

(***************************************************************************)
(* "None = leave as-is": every field of an account has the value last      *)
(* given to that field.                                                    *)
(***************************************************************************)
NoLostPatch == users = wanted

(***************************************************************************)
(* A refresh token never becomes usable again: the time of its revocation  *)
(* is written once, and its account, its expiry and its place in the chain *)
(* stay as issued, for as long as the account exists.                      *)
(***************************************************************************)
TokensOnlyEnd ==
    \A k \in Tokens : tokens[k] # None /\ tokens'[k] # None =>
        /\ [tokens[k] EXCEPT !.revoked = None] = [tokens'[k] EXCEPT !.revoked = None]
        /\ tokens[k].revoked # None => tokens'[k].revoked = tokens[k].revoked

RevocationStands == [][TokensOnlyEnd]_vars
=============================================================================
