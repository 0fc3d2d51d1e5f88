\* The matrix after requests that follow one another: no faults, one day.
SPECIFICATION FairSpec
CONSTANTS
    Issue = {i1}
    CType = {t1}
    Checkpoint = {c1}
    TypeOf <- MCTypeOf
    Proc = {p1}
    IStatus = {"todo", "done"}
    IEdge <- MCIEdge
    DoneIssue = {"done"}
    RStatus = {"planning", "released", "cancelled"}
    NewRelease = "planning"
    REdge <- MCREdge
    Guarded <- MCGuarded
    Active = {"planning"}
    Released = {"released"}
    Closed = {"released", "cancelled"}
    Verdict <- MCVerdict
    Match = {"done"}
    Mode = {"STRUCTURED"}
    TtqlOn = FALSE
    Window = 1
    Crowded = FALSE
    MaxDay = 0
    MaxOps = 2
    MaxFaults = 0
PROPERTY MatrixConverges
\* Nothing is left to do once the release is closed and the key is free.
CHECK_DEADLOCK FALSE
