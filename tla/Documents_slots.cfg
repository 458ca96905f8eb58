\* Two machines with a slot each, or two slots on one: slots and machines are rewritten
\* and deleted while versions are being added and the machines' tags scanned.
CONSTANTS
    Machines = {m1, m2}
    Docs = {d1, d2}
    Versions = {v1, v2}
    Payloads = {p1}
    Workers = {w1, w2}
    Operations = {"create_slot", "add_file_version", "add_json_version", "delete", "delete_machine", "update_machine"}
    Faults = {"database"}
    Views = {"summary", "full", "photo"}
    None = None
SPECIFICATION ScanSpec
SYMMETRY Symmetry
INVARIANTS
    PhotoIsOfItsMachine
    PhotoWasStored
    PhotoIsGenuine
    FullIsMonotone
    FullIsComplete
