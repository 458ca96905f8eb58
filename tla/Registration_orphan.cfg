\* Two registrations with one address at the same time; nothing fails.
CONSTANTS
    acme = acme
    org = org
    x0 = x0
    x1 = x1
    ab = ab
    cd = cd
    Orgs = {o1, o2}
    Users = {u1, u2}
    Spellings <- MCSpellings
    Mailboxes <- MCMailboxes
    EmailOf <- MCEmailOf
    Names = {"Acme"}
    Words <- MCWords
    SlugOf <- MCSlugOf
    DefaultWord = org
    MaxWindow = 0
    UuidWord <- MCUuidWord
    Operations = {"register"}
    NewRoles = {}
    Retries = 5
    Workers = {w1, w2}
    MayFail = FALSE
    None = None
SPECIFICATION Spec
INVARIANTS
    EveryOrgIsSetUp
