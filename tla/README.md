# Verification of ElectronIx ID

TLA+ models of the ElectronIx ID backend, the TLC configurations that check
them, and TLAPS proofs: of the version history and the abstract log it
implements, of stored bytes and photos, of what a scan of a machine's tag is
shown, of tag codes and the register of machines they belong to, of sessions,
administration, registration, the paged list and the estimate.

ElectronIx ID keeps a digital passport of industrial machines. Two services
share one MySQL database and one blob store: **api** (`crates/api`) is used by
the organisation that owns the machines, **resolver** (`crates/resolver`) answers
the scan of the QR tag on a machine. Each HTTP request is an asynchronous task;
tasks of both services interleave at every `await`. Only one operation,
`add_version`, is a database transaction. Everything else is a sequence of
autocommit statements and blob store calls, and that is where the interesting
behaviour is.

Paths below are relative to `crates/api/src` unless they start with `crates`,
`migrations` or `tla`.

## Inventory

| Part | State it keeps | Operations | What makes it correct | What is hard |
|---|---|---|---|---|
| Documents and versions (`application/document_service.rs`, `infrastructure/persistence/mysql_document_repo.rs`) | tables `documents`, `document_versions`; column `machines.primary_photo_version_id` | create, rename and delete a slot; add a file or JSON version; restore; download; get | numbers 1, 2, ... without gaps; one current version, the newest; versions immutable and reloadable; the photo pointer names a photo of that machine | concurrent uploads; bytes stored before the row; a COMMIT whose answer is lost; rows read before the lock and used after it |
| Blob store (`application/ports/file_storage.rs`) | bytes by key | put, get, delete | a version's bytes stay; no orphans | failures between store and database |
| Machines and tags (`application/machine_service.rs`, `mysql_machine_repo.rs`) | table `machines` | create, update, set tier, rotate tag, delete | a tag names one machine for ever; a revoked tag stays revoked; an edit changes only what it is about; rows stay in their organisation | every edit reads the row and later writes all of its columns |
| Resolver (`crates/resolver/src/handlers.rs`) | none of its own | summary, photo, full passport | serves the scanned machine; full view for the owner only; a full passport leaves out no slot and shows none older than listed | several reads while the api writes |
| Sessions (`application/auth_service.rs`) | table `refresh_tokens`; signed access tokens | login, refresh, logout, authenticate, register | a refresh token is spent once; logout is final; disabled accounts are refused | check and revocation are two statements; stateless access tokens outlive the account |
| User management (`application/user_service.rs`) | table `users` | create, update, delete, list | a PATCH keeps what it does not mention; only administrators manage | read-modify-write; accounts deleted while they are in use |
| Registration (`auth_service.rs::register`), organisations | tables `organizations`, `subscriptions` | register, rename | an e-mail address and a slug are used once; an organisation has an owner and a subscription | three inserts without a transaction; check-then-insert |
| Plans and estimate (`application/pricing_service.rs`) | table `plans` (seeded) | list, estimate | totals add up to those of the organisation's machines | three reads of different moments |
| Pagination (`web/pagination.rs`, `list` of `mysql_machine_repo.rs`) | none; the client's page number | page by page through a list | a walk shows every machine once, as far as nothing comes or goes | OFFSET counts rows that come and go between pages; the total is of a later moment; client-sent sizes |
| Web plumbing, configuration, security adapters | none | routing, JSON, validation, pool, hashing, signing | | none that a state machine would show |

The parts meet in the database: deleting a machine cascades to its slots and
their versions, an upload to a photo slot writes the machine row, a machine edit
writes the photo column back, deleting a user cascades to refresh tokens, and
the resolver reads what the api writes.

## Modules

| Module | What it is |
|---|---|
| `VersionHistory` | what the version subsystem promises: per slot an append-only log of payloads |
| `Documents` | slots, versions, blobs, photo pointer, row locks; implements `VersionHistory` |
| `DocumentsProofs` | theorems about `Documents`: types, locks, histories |
| `VersionHistoryProofs` | that `Documents` implements `VersionHistory` |
| `ContentsProofs` | theorems about `Documents`: reads, stored bytes, photo pointer |
| `Passport` | extends `Documents` with the resolver's scans: summary, photo, full passport |
| `PassportProofs` | theorems about `Passport` |
| `MachineRegister` | what users who edit a machine one at a time are promised: entries that change a field at a time, at once |
| `MachineTags` | machine rows, their edits, tag codes, scans up to the organisation gate; implements `MachineRegister` under `Turns` |
| `MachineTagsProofs` | theorems about `MachineTags`, that it implements `MachineRegister` among them |
| `Accounts` | accounts, refresh and access tokens, administration |
| `AccountsProofs` | theorems about `Accounts` |
| `Registration` | register, create an account, rename an organisation: organisations, accounts, subscriptions, first sessions |
| `RegistrationProofs` | theorems about `Registration` |
| `Reports` | the paged list of machines and the estimate, while machines come, change and go |
| `ReportsProofs` | theorems about the paged list and the estimate, and about sums over finite sets |
| `MCDocuments`, `MCPassport`, `MCMachineTags`, `MCAccounts`, `MCRegistration`, `MCReports` | instances for TLC |

In all of them but `Reports` a *worker* is a request task. `task[w]` is a record with the
endpoint, the await the handler is at (`step`) and the handler's locals. A
`Begin...` action is the arrival of a request with some input; every further
action is one repository or blob store call together with the code up to the
next `await`; `Answer` sends the response. The role check (`require_role`)
precedes the first statement of every handler and refuses without effect, so
`Documents`, `MachineTags` and `Registration` start with requests it let
through; the check itself is in `Accounts`. UUIDs and random codes are drawn
when the request arrives, which is earlier than in the code and cannot be
observed (in `Registration`, where the INSERT takes place).

**Documents.** `LockSlot` is the `SELECT ... FOR UPDATE` that joins the slot
with its machine; it takes the lock (`holder`) or waits. From there to `COMMIT`
the other rows of the transaction are visible to no other task, so the insert,
the demotion, the bump and the photo update are one action at commit
(`BumpVersion`), and a failure before it is `RollBack`. Autocommit writes of the
same rows wait for the holder; reads do not. `CommitLostAck` is a commit
whose answer does not arrive: the caller runs its error path.
`AddVersionFailed` is that path: an upload goes on to delete its blob, a restore
or a JSON version reports the error. The deletion of a slot or machine is the
cascade of the schema. A machine edit appears only with what it does to the
photo column. Four fault classes (`Faults`) are chosen per run: `abort` (the
handler future is dropped, which is what a crash of the process is for one
request), `storage`, `database`, `lost_ack`. A request may also be at any step
when others start, so a crash leaves exactly the states `abort` leaves.

**Passport.** A worker serves a request of the api (`task`) or a scan (`scan`);
`ScanSpec` interleaves both over the tables and the blob store of `Documents`.
One action per statement of the resolver: `Lookup` (the machine and its photo
pointer), `FindOrg`, `ListByMachine`, `ShowCurrent` (one statement per listed
slot, in any order), `FindPhoto` (by the id alone, in no organisation) and
`FetchPhoto`. The resolver takes no lock and writes nothing. `there` is history:
the slots of the machine at the look-up; those of them that still exist at the
answer are what `FullIsComplete` asks for. The organisation gate of the full view is in
`MachineTags`; a full scan here has passed it.

**MachineTags.** An edit is `FindMachine` (read and change in memory, `Patched`)
and `Write` (all columns, `Written`). `name` stands for every field a PATCH may
set. The history variables `owner`, `revoked`, `wanted`, `confirmed` record what
requests asked for and were told; no guard reads them except through `Fresh` and
`Known`, which say that a drawn code or UUID was never drawn before.

**Accounts.** An access token is what was signed, with the clock in ticks.
`FindToken`, `Revoke`, `FindAny`, `InsertToken` are the four statements of
`refresh`. A token counts as handed out when its row is inserted; an insert
that took effect but whose answer was lost leaves a token that nobody presents,
and such a token satisfies every property here that an unused one does.
`barred`, `parent`, `wanted` and `loggedOut` are history.

**Registration.** One action per statement of `register`: `ExistsByEmail`,
`FindBySlug` (once for the plain slug and once per retry of `unique_slug`),
`InsertOrg`, `InsertUser`, `InsertSub`, `InsertToken`. `create_user` shares the
first and the fourth. A rename is `FindOrg` and `WriteOrg`; it writes back the
slug it read. `EmailOf` is `Email::parse` (trimmed, lower case, `None` for what it
refuses) and `SlugOf` is `slugify` with a slug as the sequence of its words; both
are constant functions, so the proofs hold for any. The suffix of a retry is
`uuid[..6]` of a UUIDv7: the high 24 bits of a 48-bit millisecond clock. It
changes every 2^24 ms, or 4.66 hours (a *window*), and so the five retries of one
request normally ask for one and the same slug: a third organisation of a
name is refused until the window ends. A slug of 154 or more characters with a
suffix exceeds `VARCHAR(160)` and its INSERT fails, which is one of the
failures of `Fail`. `EraseUser` is what `delete_user` of `Accounts` does to these
tables. `base` and `taken` are history.

**Reports.** One reader (readers do not disturb each other) walks the pages
of the list or asks for an estimate, while machines are created, edited and
deleted; `MachineTags` has those requests in full, here they are the statements
they end in. A create draws `created_at` some time before its INSERT, and the
list is ordered by `created_at` and id. `Limit` and `Offset` are
`PageParams::resolve`, with the numbers a client may send, zero and below
included; `Slice` is `ORDER BY ... LIMIT ... OFFSET`, and the total is a second
statement. The client stops when the pages it has cover the last total it was
told. The estimate reads machines, plans and subscription in three statements
and then adds up line by line; `EstimateAddsUp` compares that with a count plan
by plan over the machines that `list_all` returned: that is about the computation,
not about the three reads being of one moment. All prices are in the one currency
the seeded catalogue has, so the error of `Money::add` for two currencies
(`pricing_service.rs:103-104`) cannot occur and is left out. `there`, `deleted` and `created` are history. The list of accounts is
the same code over another table.

**`Turns`.** Neither a machine edit, nor a PATCH of an account, nor a refresh is
protected against a second one of the same object at the same time: the code has
no version column, no `FOR UPDATE` and no check of affected rows there. With
`Turns = TRUE` the users of a machine (account, token) wait for the answer before
they send the next edit of it, while everything else is concurrent: other
objects, deletions, scans, logins. This is an assumption on the clients, not a
fact about the code; the two runs with `Turns = FALSE` show what happens
without it. Three properties say less than their names for that reason:
`NoLostEdit` and `NoLostPatch` exclude two edits of one machine, or two PATCHes of
one account, at the same time, where the later write wins; `LogoutEndsSession`
excludes the logout that comes between check and revocation of a refresh. These
races are in the model, and only `Turns` keeps them from the runs.

## Runs

| Run | Question | Result |
|---|---|---|
| `documents_versions` | two requests at a time on one slot: uploads, JSON versions, restores, renames, downloads, gets, deletions, with `abort`, `storage`, `database` faults | numbering, giving locks back, immutability, reloadability and consistent reads hold |
| `documents_slots` | two slots on one or two machines; slots and machines deleted, machines edited, against uploads and scans of all three kinds | the photo pointer and the photo served are that machine's, a full passport is complete and in order |
| `documents_uploads` | uploads to two slots under fairness, failing statements and lost commit answers | no orphan blob, photo pointer current, every one of these requests answered, refinement of `VersionHistory` |
| `documents_lost_ack` | one upload, answer to COMMIT lost | **violated**: `VersionsReloadable` |
| `tags_edits` | two organisations, two machines, all endpoints, `Turns` | tag, edit, deletion and organisation properties hold, refinement of `MachineRegister` |
| `tags_stale` | one machine, no `Turns` | **violated**: `RevokedStaysRevoked` |
| `accounts_sessions` | logins, refreshes, logouts, deletions, `Turns` | rotation, logout, revocation and foreign-key properties hold |
| `accounts_admins` | two administrators who disable, demote, delete each other, `Turns` | admission and PATCH properties hold |
| `accounts_reuse` | one refresh token presented twice at the same time | **violated**: `RefreshSpentOnce` |
| `registration_races` | registrations, renames and account creations that meet on two addresses and two names with colliding slugs, over two windows, with deletions and failures | uniqueness, early refusal, completeness and `PlainSlugFirst` hold |
| `registration_orphan` | two registrations with one address, nothing fails | **violated**: `EveryOrgIsSetUp` |
| `reports` | machines come, change and go during walks with pages of one, two and three rows, and during estimates | a walk misses no more than were deleted, repeats no more than were inserted; totals add up |

What the four violations say:

* *Lost commit answer.* `document_service.rs:205-211` treats every error of
  `add_version` as "nothing was written" and deletes the blob. If the connection
  breaks after the server committed, the history has a current version, the photo
  pointer may name it, and its bytes are gone. `domain/document.rs:4` promises a
  backup "you never delete" and "can reload".
* *Stale machine row.* `mysql_machine_repo.rs:193` writes every column. A PATCH
  that read before a rotation and writes after it restores the revoked code, and
  the freshly printed tag stops resolving, against `machine_service.rs:162`,
  "revoking the previous one". A photo upload can be undone in the same way;
  this is why `PhotoIsCurrent` is checked without machine edits.
* *Token used twice.* `auth_service.rs:165-173` checks `is_usable` on a row read
  earlier and ignores whether `revoke` found anything to revoke. One token yields
  two sessions; a logout that slips in between check and revocation is answered
  204 and a successor is issued after it.
* *Orphaned organisation.* `auth_service.rs:86` checks the address and `:105`
  inserts the organisation long before `:118` inserts the owner. Of two
  registrations with one address, such as a doubled click, the loser has
  inserted its organisation when the unique key refuses its owner. It stays, holds its slug and has no
  subscription, against `domain/plan.rs:87`, "One subscription per organization".
  With failures the same property breaks in one request; one that fails at
  `subs.create` leaves an owner who can log in, has no subscription, and is
  refused when registering again. What does hold is `SessionsAreWhole`: nobody is
  told of success before everything is there.

Deadlock is checked in every run. Every request may fail or be answered and a
new one may arrive as long as the bounds allow; where UUIDs run out, reads or
logins with the remaining tokens still arrive.

### Bounds

* Two workers: every property is about a pair of requests (a reader and a
  writer, two writers, a holder and a waiter). Locks are exclusive and queue
  order is not modelled, so a third task adds no new kind of meeting in what is
  checked; the proofs of the core do not depend on the number.
* UUIDs (`Docs`, `Versions`, `Machines`, `Tokens`) and `Codes` bound how many
  slots, versions, machines, sessions and rotations one behaviour has. Three
  versions are the least that let a restore of an old version run against an
  upload; two payloads tell a swapped payload apart; two slots on up to two
  machines are needed for the photo pointer; three tokens give a chain of two
  rotations; three codes on two machines let a code be rotated away while
  another machine is created.
* `Registration` has two interchangeable addresses and a string that is none,
  and two names: `"!"`, which has no letters and gets the default slug, and
  `"Org x0"`, whose plain slug is the one that the first window's suffix leads to
  for the other. Two organisations are enough for `unique_slug` to give up. The
  run has `Retries = 1`, since within a window all retries ask for the same slug;
  the proofs hold for any number.
* `Reports` has three machines, so that a walk with pages of one row has a
  middle, and a page of two is followed by one that is not full. `PerPage` has
  numbers below and above what is allowed, and none. `MaxEdits` is two, and edits
  happen only in behaviours with an estimate: the list's order does not depend on
  what they change.
* The clock has `MaxTime` ticks, enough for a token to expire before, between and
  after the statements that use it, and `MaxWindow` windows of UUIDs.
* Symmetry: identifiers are interchangeable model values and no definition
  compares them. Addresses, names and words of slugs are not permuted.
  `accounts_*` permutes tokens and workers only, since accounts
  differ in role. Symmetry is not used in the run that checks liveness, nor in
  the runs with a counterexample.

### Fairness

Only `documents_uploads` needs it: `SF_vars(Step(w))` for every worker. tokio
polls every ready task, and a statement of a live connection ends; a task that
waits for a row lock is granted it in InnoDB's order of arrival, so it is not
passed over for ever though the lock is free only now and then. That is strong,
not weak, fairness: `LockSlot` is disabled whenever somebody else holds the
lock. Nothing is assumed of arrivals (a request need not come) or of faults.

`EveryRequestAnswered` is checked for slot creations, uploads and `get`: creations
and uploads wait for the lock of their machine, and statements fail inside the
transaction that holds it. The run has no renames, deletions and machine edits,
since `NoOrphanBlob` and `PhotoIsCurrent` speak of behaviours without them. What
their waiting rests on is the second half of `LockedNumberIsNext`,
`LocksGivenBack`: a lock is only ever held by a transaction that is at its COMMIT,
which waits for nothing. That is checked in `documents_versions` with all
endpoints and proved for all faults, and a request takes one lock at a time, so
nobody waits in a circle.

## Proofs

Eight modules of proofs. Each theorem holds for any sets of machines, slots,
versions, accounts, tokens, codes, words and workers, of which only `Reports`
needs its machines to be finitely many, and for any subset of the endpoints and
faults; what is assumed beyond the named `ASSUME`s of the models (ranges of
constants, `None` is none of the values it stands in for, slot and version UUIDs
differ) is in the last column. In
each module the argument is: an inductive invariant, one lemma per action or
group of actions that keeps it, then the property as a consequence.

| Module | Theorem | Statement | Where |
|---|---|---|---|
| `DocumentsProofs` | `InvariantHolds` | `Spec => []IInv` | |
| | `TypeCorrect` | `Spec => []TypeOK` | |
| | `LockProtectsNumber` | `Spec => []LockedNumberIsNext` | |
| | `HistoriesWellFormed` | `Spec => []HistoryWellFormed` | |
| | `HistoriesImmutable` | `Spec => HistoryImmutable` | |
| `VersionHistoryProofs` | `PromiseKept` | `Spec => ImplementsVersionHistory` | |
| `ContentsProofs` | `ContentsHold` | `Spec => []Contents` | |
| | `PhotosOfTheirMachine` | `Spec => []PhotoIsOfItsMachine` | |
| | `GetsInOrder` | `Spec => []GetIsMonotone` | |
| | `BlobsHold` | `Spec => [](Contents /\ BlobInv)` | no answer to a COMMIT is lost |
| | `AlwaysReloadable` | `Spec => []VersionsReloadable` | the same |
| | `DownloadsGenuine` | `Spec => []DownloadMatchesChecksum` | the same |
| | `UploadsLeaveNoOrphan` | `Spec => []NoOrphanBlob` | `OrphansAvoided` |
| | `PhotosCurrent` | `Spec => []PhotoIsCurrent` | `PhotosUntouched` |
| `PassportProofs` | `ScansKeepDocuments` | `ScanSpec => Spec` | |
| | `ScansHold` | `ScanSpec => [](Contents /\ ScanInv)` | |
| | `ScanTypeCorrect` | `ScanSpec => []ScanTypeOK` | |
| | `PassportsInOrder` | `ScanSpec => []FullIsMonotone` | |
| | `PassportsComplete` | `ScanSpec => []FullIsComplete` | |
| | `ScanPhotosHold` | `ScanSpec => [](Contents /\ BlobInv /\ ScanPhotoInv)` | no answer to a COMMIT is lost |
| | `PhotosGenuine` | `ScanSpec => []PhotoIsGenuine` | the same |
| | `PhotosWereStored` | `ScanSpec => []PhotoWasStored` | the same |
| `MachineTagsProofs` | `InvariantHolds` | `Spec => []IInv` | |
| | `TypeCorrect` | `Spec => []TypeOK` | |
| | `TagsNameOneMachine` | `Spec => []TagNamesOneMachine` | |
| | `DeletionsAreFinal` | `Spec => []DeletedOnceAndForAll` | |
| | `RowsInTheirOrg` | `Spec => []RowsStayInTheirOrg` | |
| | `OnlyOwnOrg` | `Spec => OnlyOwnOrgChangesRows` | |
| | `TurnsInvariantHolds` | `Spec => []TurnsInv` | `Turns` |
| | `RevocationsStand` | `Spec => []RevokedStaysRevoked` | `Turns` |
| | `EditsAreKept` | `Spec => []NoLostEdit` | `Turns` |
| | `RegisterKept` | `Spec => ImplementsRegister` | `Turns` |
| `AccountsProofs` | `InvariantHolds` | `Spec => []IInv` | |
| | `TypeCorrect` | `Spec => []TypeOK` | |
| | `TokensAreOfUsers` | `Spec => []TokensHaveUsers` | |
| | `OnlyAdminsManage` | `Spec => []BarredStayOut` | |
| | `RevocationsStand` | `Spec => RevocationStands` | |
| | `TurnsInvariantHolds` | `Spec => []TurnsInv` | `Turns` |
| | `RefreshTokensSpentOnce` | `Spec => []RefreshSpentOnce` | `Turns` |
| | `LogoutsEndSessions` | `Spec => []LogoutEndsSession` | `Turns` |
| | `PatchesAreKept` | `Spec => []NoLostPatch` | `Turns` |
| `RegistrationProofs` | `InvariantHolds` | `Spec => []IInv` | |
| | `TypeCorrect` | `Spec => []TypeOK` | |
| | `NamesUnique` | `Spec => []NamesAreUnique` | |
| | `TakenStopsEarly` | `Spec => []TakenLeavesNothing` | |
| | `SessionsComplete` | `Spec => []SessionsAreWhole` | |
| | `PlainSlugsStay` | `Spec => []PlainSlugFirst` | |
| | `OrgsAreSetUp` | `Spec => []EveryOrgIsSetUp` | nothing fails, `[]AddressesApart` |
| `ReportsProofs` | `ReportsHold` | `Spec => []IInv` | |
| | `TypeCorrect` | `Spec => []TypeOK` | |
| | `WalksMissFew` | `Spec => []WalkMissesFew` | |
| | `WalksRepeatFew` | `Spec => []WalkRepeatsFew` | |
| | `EstimatesAddUp` | `Spec => []EstimateAddsUp` | |

**Histories.** `HistoryWellFormed` is not inductive. A commit writes number
`t.no` read at the lock, so one has to know that the slot's counter has not moved
since (`NumberIsNext`); that needs the lock to have been on the machine the
slot really belongs to, although writers wait for the machine in the row *they*
read. Hence `SlotIdentity`: a slot's UUID is drawn by one `create_slot`, the row
is absent until it is inserted, nobody holds a row of it before, and its machine
never changes. And it needs to know what each handler's locals hold at each await
(`AllShaped`: for example that an upload past `find_doc` has a slot row and a
version id). The invariant is

    IInv == TypeInv /\ SlotIdentity /\ NumberIsNext /\ HistoryWellFormed

where `NumberIsNext` is the half of `LockedNumberIsNext` that speaks of
transactions. The other half, that nobody else holds a lock (`LocksGivenBack`), is
then inductive beside `IInv`: a step leaves the locks alone, gives its own back,
or takes a free one (`StepLocks`).

`HistoriesImmutable` follows from the same invariant: the only actions that write
`versions` are a commit, which adds a row and clears flags, and a cascade, which
removes rows of slots that go.

**Refinement.** The log of a slot is the sequence of the payloads of its rows in
the order of their numbers. It is a sequence, and each step appends to it or
leaves it, because the rows are numbered `1..current` without repetition
(`HistoryWellFormed`). A commit is `Append` of one payload; a cascade is the
`Erase` of all slots that go at once; everything else stutters, also a commit
whose answer is lost (which appends) and everything its caller does afterwards.

**Reads, bytes and photos.** `Contents` adds to `IInv` what the identity of
version UUIDs gives (`IdsInv`: a request that adds a version has an id of its
own, and until the commit no row, pointer or handler refers to it), what pointers
that handlers read long ago still are (`PhotoInv`), and what a `get` has read so
far (`GetInv`). `BlobInv` says which bytes are in the store at which await, and
that a request which deletes its blob has an id that nothing refers to. That is
the step a lost answer to COMMIT breaks, and the run `documents_lost_ack` shows
it broken; all other faults are admitted. For a restore the source's bytes
stay although its slot may go, since nothing deletes the bytes of a committed
version.

`UploadsLeaveNoOrphan` is proved under `OrphansAvoided`: no `abort`, no
`storage` fault, no deletion among the endpoints, and no failing statement if
restores are among them. Each exception is code that does leave blobs behind: a
dropped handler or a failed `delete`, cascades, which never touch the store, and
a restore whose transaction fails. An upload whose transaction fails cleans up,
so without restores failing statements are admitted. A restore's locking read
could fail without any fault if the slot were gone; without deletions a slot that
a handler has read stays (`SlotsThere`). Lost answers are admitted. `PhotosCurrent` is proved under `PhotosUntouched`, for
the reason `tags_stale` shows: a machine edit writes the photo column back, a
rename may take the slot out of the photo category, and a deletion leaves a
dangling pointer.

**Scans.** A scan changes nothing, so `ScanSpec => Spec`, and all of the above
holds beside scans. `ScanInv` follows one slot through one scan: as listed, as
shown, as it is now (`SlotSeen`), and that one which was there from the start is
listed (`SlotKept`). A slot that a scan has seen stays one that was created,
so if it lives it is the same one, its counter only grows, and its
current version is at least the one listed. `ScanPhotoInv` does the same for the
photo pointer; it rests on `BlobInv`, as a scan has no lock that would keep a blob
from being cleaned up between its two reads.

**Tags.** `IInv` says that codes are with the machine they were drawn for, in
the table and in rows that handlers have read (`RowsOwned`, `LocalsOwned`), and
that a machine is created once, before anybody can have read it (`CreatedOnce`).
No assumption on clients is needed for that, nor for deletions and
organisations. `TurnsInv` is what `Turns` gives: of each machine one edit at a
time (`OneEdit`), so the row an edit is about to write differs from the table in
its own fields only (`ReadsFresh`), and a code that a rotation is about to write is
in no row and was never revoked (`CodesNew`).

**The register.** `MachineRegister` states in one place what the tag and edit
properties say apart: entries change field by field and at once, a code is
printed for one machine and never used again after a reissue, a withdrawn machine
is never entered again. Its variables are the table, the owners of codes, the
revoked codes and the machines whose deletion was confirmed. A creation or
rotation maps to `Draw` when it arrives, and each edit to `Rename`, `Assign` or
`Reissue` when it *writes*: by `ReadsFresh` the row written is the row that is
there, changed in the request's fields. Without `Turns` this is what fails
(`tags_stale`): the write of a stale row is no step of the register.

**Sessions and administration.** `IInv` has the foreign key (`TokensHaveUsers`),
that a caller marked as barred is not an active administrator now (`BarredRight`)
and that tokens were issued before they were presented, and a fresh one never
(`TokensIssued`, `HeldIssued`, `FreshNew`). `TurnsInv` adds that a token between
check and revocation is unspent and, after it, revoked (`Renewals`), for every
chain of rotations.

**Registration.** The slugs are not unique by the unique key alone, since a
rename writes the column too, and MySQL would refuse the rename: one has to know
that `WriteOrg` writes the slug the row still has. That is a fact about the locals
of a handler at an await (`Agrees`), as are: a suffix is tried only after the
plain slug was found in use; the account that a registration has inserted is of
its organisation as long as it exists; the organisation a handler works for
exists (which needs `AccountsHaveOrgs`, the foreign key of `users`); an address
that was taken at arrival and still is stops the handler at its first await. All of
them survive steps of other handlers because tables only grow (`Grows`: slugs
stay, accounts stay as inserted, a new account is none that anybody has in
hand), with the one exception of `EraseUser`, treated apart: there uniqueness of
addresses says that the address loses its only account.

`OrgsAreSetUp` says what the finding of `registration_orphan` depends on. If
nothing fails and no two requests under way have one address, an organisation is
always either complete or being set up: a registration past its look-up of the
address finds it free at its INSERT (`AddressStaysFree`, by which every other
creation has another address), so it goes on to the subscription (`SettingUp`).
The two hypotheses are those the run violates and nothing more: requests with
different addresses still race for slugs, rename and delete.

**The paged list.** The pages read so far cover the first `page * limit` places
of the list (`Covered`). `WalkInv` bounds the machines that were there all the
time, hold a covered place now and were not shown: a deletion before them moves
at most one machine in, an insertion only moves machines out, and a page shows
all that hold its places. When the client stops, the pages cover as many places as
there are rows, so the bound is about all machines. The total is read a
statement later, which is why it is the bound of that moment that counts.

Repeats are counted, not only found: a machine shown `n` times counts `n - 1`.
`RepeatInv` says that these, and the shown machines that now hold a place the
pages have not reached (`Pending`) and so would be shown again, are no more than
rows were inserted. An insertion pushes at most one machine out of the covered
places, a deletion none, and a page turns pending machines into repeats.

**Sums.** `TypeOK`, `WalkRepeatsFew` and `EstimateAddsUp` speak of totals that
`Reports` computes with a fold. Theorems by induction with an operator parameter
are out of the prover's reach, but a claim about one particular function and all subsets of
a finite set can be proved by the least counterexample: finite sets are well
ordered by strict inclusion (`LeastSubset`), so a claim about subsets that fails has
a least failing subset, and taking an element out of it gives a smaller one. `IsSum`
says of a function on the subsets of a set that it adds up element by element; one
exists and no two differ (`SumsExist`, `SumsAgree`), and the fold is it
(`TotalIsSum`). The other lemmas change one summand, or split a sum by kind
(`SumByKind`), which turns the sum machine by machine that the code computes
(`ByMachine`) into prices times counts, plan by plan.

**Only model-checked.** Liveness (`EveryRequestAnswered`), which the prover does
not do, for slot creations, uploads and reads. Every invariant and action property
of the passing runs, and both refinements, are proved.

## Not modelled

* DTO validation, configuration, CORS, health, routing: stateless. Every
  rejection of a field comes before the first statement and has no effect.
* `(page - 1) * per_page` in `i64`: it overflows only for pages far behind the
  last one that exists. No text of the repository says what such a page is.
* Reads of one statement: `list_versions`, `get_version`, `list_for_machine`,
  `plans`, `subscription`, `me`. They show what is in the tables, and what is in
  the tables is what the invariants are about.
* `LocalFileStorage` is not in the repository; the port is modelled as
  the service uses it. A failed `put` may or may not leave the bytes.
* The connection pool (`infrastructure/db.rs`): a request holds at most one
  connection at a time, so tasks cannot wait for each other's in a circle; a time
  out is a failed statement.
* Collisions of UUIDs, random codes and hashes; tag codes that
  `migrations/0003` derived from ids for machines older than it.
* Integer widths of counters: no bound on versions per slot comes near `i32`.

## Plan

1. *(done)* `Documents` with `VersionHistory`, its runs, the inductive invariant,
   the refinement, the properties of reads, bytes and photos, each proved.
2. *(done)* `MachineTags`, `Accounts`, their runs and the proofs of their
   properties.
3. *(done)* `Registration`, its runs and the proofs of its properties.
4. *(done)* `Passport`: the resolver over `Documents`, checked and proved.
5. *(done)* `Reports`: the paged list and the estimate, checked and proved.
6. *(done)* `MachineRegister`: the machine subsystem as its users may see it,
   and that `MachineTags` implements it where they take turns.
7. Open: if the blob store's implementation is added to the repository, a module
   of it beneath `Put`, `Fetch` and `CleanUp`.
