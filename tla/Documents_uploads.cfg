\* Uploads to two slots of one machine; statements fail, and answers to COMMIT get lost.
CONSTANTS
    Machines = {m1}
    Docs = {d1, d2}
    Versions = {v1, v2}
    Payloads = {p1}
    Workers = {w1, w2}
    Operations = {"create_slot", "add_file_version", "get"}
    Faults = {"database", "lost_ack"}
    None = None
SPECIFICATION FairSpec
INVARIANTS
    NoOrphanBlob
    PhotoIsCurrent
PROPERTIES
    EveryRequestAnswered
    ImplementsVersionHistory
