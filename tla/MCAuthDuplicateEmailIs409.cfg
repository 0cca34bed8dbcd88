CONSTANTS
    Requests = {r1, r2, r3}
    Emails = {e1}
    Disabled = {}
    None = None
    PoolSize = 3
    MaxCrashes = 0
    Faults = FALSE
SPECIFICATION Spec
INVARIANT
    DuplicateEmailIs409
