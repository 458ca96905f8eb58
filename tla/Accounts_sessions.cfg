\* Sessions: logins, refreshes, logouts and deletions of accounts, each client waiting
\* for an answer before it sends its token again.
CONSTANTS
    u1 = u1
    u2 = u2
    p1 = p1
    Users = {u1, u2}
    Passwords = {p1}
    Registered <- MCRegistered
    Patches <- MCPatches
    Tokens = {k1, k2, k3}
    Operations = {"login", "refresh", "logout", "delete_user"}
    Workers = {w1, w2}
    Turns = TRUE
    AccessTTL = 1
    Leeway = 0
    RefreshTTL = 1
    MaxTime = 1
    None = None
SPECIFICATION Spec
SYMMETRY Symmetry
INVARIANTS
    RefreshSpentOnce
    LogoutEndsSession
    TokensHaveUsers
PROPERTIES
    RevocationStands
