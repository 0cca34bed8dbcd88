CONSTANTS
    Requests = {r1, r2, r3}
    None = None
    PoolSize = 2
    Faults = TRUE
    MigrationRuns = {m1, m2}
    Queries = {q1}
    ShouldTrigger = {q1}
    Runs = 2
    Workers = 2
    Elsewhere = Elsewhere
    TuneQueries = {p1, p2, n1, n2}
    Positive = {p1, p2}
    Holdout = 40
    MaxIterations = 3
    Questions = 2
    MaxTurns = 2
    Reviewed = {1}
    Comments = {c1}
    Unsaid = Unsaid
    MaxOpen = 2
SPECIFICATION PlatformSpec
CHECK_DEADLOCK FALSE
INVARIANT SubmittedStays
