CONSTANTS
    Tokens = {t1, t2, t3}
    Users = {u1, u2}
    Calls = {c1, c2}
    Refreshes = {f1, f2}
    SignOuts = {o1}
    Restore = Restore
    None = None
    MaxLaunches = 2
    Anonymous = Anonymous
    Nobody = Nobody
    Syncs = {s1, s2, s3}
    Buys = {b1}
    Ops = {n1, n2, n3}
    Before = Before
SPECIFICATION AppSpec
CHECK_DEADLOCK FALSE
INVARIANT
    NeverEntitlesAnonymous
