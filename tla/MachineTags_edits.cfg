\* Two organisations, each machine edited by one request at a time; deletions,
\* other machines' edits and scans run at the same time.
CONSTANTS
    Orgs = {o1, o2}
    Machines = {m1, m2}
    Codes = {c1, c2, c3}
    Tiers = {live, retired}
    Plans = {live}
    Names = {n1, n2}
    Workers = {w1, w2}
    Operations = {"create", "delete", "update", "set_tier", "rotate", "summary", "full"}
    Turns = TRUE
    None = None
SPECIFICATION Spec
SYMMETRY Symmetry
INVARIANTS
    TypeOK
    TagNamesOneMachine
    RevokedStaysRevoked
    NoLostEdit
    DeletedOnceAndForAll
    RowsStayInTheirOrg
PROPERTIES
    OnlyOwnOrgChangesRows
    ImplementsRegister
