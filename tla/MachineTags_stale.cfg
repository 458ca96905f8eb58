\* One machine, edited by two requests at the same time.
CONSTANTS
    Orgs = {o1}
    Machines = {m1}
    Codes = {c1, c2}
    Tiers = {live}
    Plans = {live}
    Names = {n1, n2}
    Workers = {w1, w2}
    Operations = {"create", "update", "rotate"}
    Turns = FALSE
    None = None
SPECIFICATION Spec
INVARIANTS
    RevokedStaysRevoked
