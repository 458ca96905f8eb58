\* Two requests at a time on one slot and its machine: every interleaving of uploads,
\* restores, renames, deletions and reads, with aborts, failed statements and a failing
\* blob store.
CONSTANTS
    Machines = {m1}
    Docs = {d1}
    Versions = {v1, v2, v3}
    Payloads = {p1, p2}
    Workers = {w1, w2}
    Operations = {"create_slot", "add_file_version", "add_json_version", "restore", "download", "get", "rename", "delete", "delete_machine", "update_machine"}
    Faults = {"abort", "storage", "database"}
    None = None
SPECIFICATION Spec
SYMMETRY Symmetry
INVARIANTS
    TypeOK
    LockedNumberIsNext
    HistoryWellFormed
    VersionsReloadable
    GetIsMonotone
    DownloadMatchesChecksum
PROPERTIES
    HistoryImmutable
