CONSTANTS
    Requests = {r1, r2, r3, r4}
    Emails = {e1, e2}
    Disabled = {e2}
    None = None
    PoolSize = 3
    MaxCrashes = 1
    Faults = TRUE
    Depth = 4
    KeySets = {{}, {"access_token"}, {"api-key"}, {"tokens_in"}, {"author"}, {"note"}}
    Lengths = {0, 1}
SPECIFICATION LoggingSpec
SYMMETRY RequestSymmetry
INVARIANTS
    TypeOK
    UniqueEmail
    AccountsComplete
    ErrorsLeaveNoTrace
    RotatedTokenDead
    OnlyItsOwnRequestsEndASession
    LineIsRedacted
PROPERTY
    LedgerSpec
