SPECIFICATION Spec
CONSTANTS
    User = {u1}
    Key = {k1, k2}
    Token = {t1}
    Issue = {i1, i2}
    i1 = i1
    i2 = i2
    Scope <- ScopeSingle
    None = None
    MaxOps = 2
    MaxScope = 1
    MaxFaults = 1
    BatchSize = 1
    MaxDrain = 1
    MaxItems = 2
    MaxConcurrent = 1
    Req = {r1, r2}
    Tick = {s1}
    LockOutlives = TRUE
    ExecuteAtomic = FALSE
INVARIANTS
    RetryChangesNothingTwice
