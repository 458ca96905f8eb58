\* Registrations, renames of organisations, and accounts created by administrators, under
\* two addresses and two names, one of them with the slug that the
\* first suffix leads to for the other, with deletions of accounts and failures.
CONSTANTS
    acme = acme
    org = org
    x0 = x0
    x1 = x1
    ab = ab
    cd = cd
    Orgs = {o1, o2}
    Users = {u1, u2}
    Spellings <- MCSpellings
    Mailboxes <- MCMailboxes
    EmailOf <- MCEmailOf
    Names = {"!", "Org x0"}
    Words <- MCWords
    SlugOf <- MCSlugOf
    DefaultWord = org
    MaxWindow = 1
    UuidWord <- MCUuidWord
    Operations = {"register", "create_user", "update_organization"}
    NewRoles = {"viewer"}
    Retries = 1
    Workers = {w1, w2}
    MayFail = TRUE
    None = None
SPECIFICATION Spec
SYMMETRY Symmetry
INVARIANTS
    TypeOK
    NamesAreUnique
    TakenLeavesNothing
    SessionsAreWhole
    PlainSlugFirst
