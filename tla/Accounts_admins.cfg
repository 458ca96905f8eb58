\* Administrators who disable, demote and delete accounts, their own included, each
\* account patched by one request at a time.
CONSTANTS
    u1 = u1
    u2 = u2
    p1 = p1
    Users = {u1, u2}
    Passwords = {p1}
    Registered <- MCRegistered
    Patches <- MCPatches
    Tokens = {k1, k2}
    Operations = {"login", "update_user", "delete_user"}
    Workers = {w1, w2}
    Turns = TRUE
    AccessTTL = 1
    Leeway = 0
    RefreshTTL = 2
    MaxTime = 2
    None = None
SPECIFICATION Spec
SYMMETRY Symmetry
INVARIANTS
    TypeOK
    BarredStayOut
    NoLostPatch
