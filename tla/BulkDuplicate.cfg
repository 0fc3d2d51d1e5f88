SPECIFICATION Spec
CONSTANTS
    User = {u1}
    Key = {k1}
    Token = {t1}
    Issue = {i1, i2}
    i1 = i1
    i2 = i2
    Scope <- ScopeTwice
    None = None
    MaxOps = 1
    MaxScope = 3
    MaxFaults = 0
    BatchSize = 2
    MaxDrain = 3
    MaxItems = 3
    MaxConcurrent = 1
    Req = {r1, r2}
    Tick = {s1}
    LockOutlives = TRUE
    ExecuteAtomic = TRUE
INVARIANTS
    DuplicateGetsExisting
