\* A client sends the same refresh token in two requests at the same time.
CONSTANTS
    u1 = u1
    u2 = u2
    p1 = p1
    Users = {u1, u2}
    Passwords = {p1}
    Registered <- MCRegistered
    Patches <- MCPatches
    Operations = {"login", "refresh", "logout"}
    Tokens = {k1, k2, k3}
    Workers = {w1, w2}
    Turns = FALSE
    AccessTTL = 1
    Leeway = 0
    RefreshTTL = 1
    MaxTime = 1
    None = None
SPECIFICATION Spec
INVARIANTS
    RefreshSpentOnce
