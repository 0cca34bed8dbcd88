CONSTANTS
    Requests = {r1, r2, r3}
    Emails = {e1}
    Disabled = {}
    None = None
    PoolSize = 2
    MaxCrashes = 0
    Faults = TRUE
    Users = {u1}
    MaxNotes = 1
    Tokens = {t1, t2}
    Calls = {c1, c2}
    Refreshes = {f1, f2, f3}
    SignOuts = {}
    Restore = Restore
    MaxLaunches = 2
    MaxInterrupts = 2
SPECIFICATION PartsSpec
CHECK_DEADLOCK FALSE
PROPERTIES
    RoutesEnd
    CallsEnd
    LaunchEnds
    StopIsObeyed
