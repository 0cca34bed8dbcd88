CONSTANTS
    Requests = {r1, r2, r3}
    Users = {u1}
    None = None
    MaxNotes = 1
    PoolSize = 3
    Faults = FALSE
SPECIFICATION Spec
INVARIANT
    NotesWithinLimit
