CONSTANTS
    Requests = {r1, r2, r3}
    Users = {u1, u2}
    None = None
    MaxNotes = 1
    PoolSize = 2
    Faults = TRUE
    Callers = {c1}
    Ips = {i1}
    Window = 2
    MaxTime = 2
    PlainLimit = 2
    OwnLimit = 1
SPECIFICATION PipelineSpec
SYMMETRY NotesSymmetry
INVARIANTS
    TypeOK
    OwnersAlone
    OnlyOwnersSee
    OverrunBounded
    DeletedOnce
    FewerThanTwice
    AnsweredIsTraced
PROPERTIES
    ShelfSpec
    RefusedOnlyWhenFull
