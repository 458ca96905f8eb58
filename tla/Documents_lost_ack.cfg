\* COMMIT takes effect, the answer is lost, and the upload deletes its blob.
CONSTANTS
    Machines = {m1}
    Docs = {d1}
    Versions = {v1, v2}
    Payloads = {p1}
    Workers = {w1}
    Operations = {"create_slot", "add_file_version", "get"}
    Faults = {"lost_ack"}
    None = None
SPECIFICATION Spec
INVARIANTS
    VersionsReloadable
