\* One issue, one checkpoint and two handlers; a kill or a failing query, two days.
SPECIFICATION FairSpec
CONSTANTS
    Issue = {i1}
    CType = {t1}
    Checkpoint = {c1}
    TypeOf <- MCTypeOf
    Proc = {p1, p2}
    IStatus = {"todo", "done"}
    IEdge <- MCIEdge
    DoneIssue = {"done"}
    RStatus = {"planning", "released", "cancelled"}
    NewRelease = "planning"
    REdge <- MCREdge
    Guarded <- MCGuarded
    Active = {"planning"}
    Released = {"released"}
    Closed = {"released", "cancelled"}
    Verdict <- MCVerdict
    Match = {"done"}
    Mode = {"COMBINED", "INVALID"}
    TtqlOn = TRUE
    Window = 1
    Crowded = FALSE
    MaxDay = 1
    MaxOps = 2
    MaxFaults = 1
INVARIANTS TypeOK EventsMatchRow AuditChains
PROPERTY RowsConverge
\* Nothing is left to do once the release is closed and the key is free.
CHECK_DEADLOCK FALSE
