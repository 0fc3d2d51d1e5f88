---------------------------- MODULE ReleaseStore ----------------------------
(***************************************************************************)
(* What the requests and cron jobs around one release share: the release,  *)
(* its items, the workflow status of the issues, the release checkpoints   *)
(* with their violation events, and the lock of the scheduler; and the     *)
(* pure evaluation of a checkpoint (checkpoint-engine.service.ts).         *)
(*                                                                         *)
(* A process is one handler at a time: an HTTP request, the recompute      *)
(* after its response included, or a tick of the checkpoint scheduler;     *)
(* proc[p] are its local variables between two awaits.                     *)
(***************************************************************************)
EXTENDS Naturals, Sequences

CONSTANTS
    Issue, Proc,
    CType,                        \* checkpoint types
    Checkpoint, TypeOf,           \* ids of release_checkpoints, type of each
    IStatus, IEdge,               \* workflow of the issues, global edges expanded
    DoneIssue,                    \* its statuses of category DONE
    RStatus, NewRelease, REdge,   \* workflow of the release
    Guarded,                      \* edges with ALL_ITEMS_IN_STATUS_CATEGORY DONE
    Active,                       \* statuses of category PLANNING or IN_PROGRESS
    Released,                     \* of category DONE
    Closed,                       \* of category DONE or CANCELLED
    Verdict,      \* what the structured criteria say of an issue in a status
    Match,        \* statuses whose issues the TTQL condition matches
    Mode,         \* condition modes the checkpoint types use
    TtqlOn,       \* features.checkpointTtql
    Window,       \* CHECKPOINTS_EVAL_WINDOW_DAYS
    Crowded,      \* more releases match the scheduler's query than it takes
    MaxDay,       \* bound: the last day
    MaxOps,       \* bound: requests that read or write something
    MaxFaults     \* bound: kills and failed TTQL queries

ASSUME StoreAssumption ==
    /\ MaxDay \in Nat /\ MaxOps \in Nat /\ MaxFaults \in Nat
    /\ IEdge \subseteq IStatus \X IStatus
    /\ NewRelease \in RStatus /\ REdge \subseteq RStatus \X RStatus
    /\ Verdict \in [IStatus -> {"not-applicable", "passed", "failed"}]
    /\ Mode \subseteq {"STRUCTURED", "TTQL", "COMBINED", "INVALID", "MISSING"}
    /\ TypeOf \in [Checkpoint -> CType]
    /\ Window \in Nat \ {0} /\ Crowded \in BOOLEAN
    /\ "none" \notin Issue

VARIABLES
    status,     \* Release.status
    planned,    \* Release.plannedDate
    audit,      \* audit_log of the release: its transitions, oldest first
    items,      \* release_items
    issue,      \* Issue.workflowStatus
    row,        \* release_checkpoints
    open,       \* number of checkpoint_violation_events with resolvedAt null
    today,
    lock,       \* owner of the Redis key checkpoints:scheduler
    proc,
    ops, faults

rel == <<status, planned, audit, items, issue>>
cps == <<row, open>>
vars == <<rel, cps, today, lock, proc, ops, faults>>

Day == 0..MaxDay
NoIssue == "none"     \* issueId '' of the synthetic TTQL_ERROR violation
NoProc == "free"
Dead == "dead"        \* a process that was killed owns the key

Reason == {"CRITERION", "TTQL_MISMATCH", "TTQL_ERROR"}
Violation == (Issue \cup {NoIssue}) \X Reason

Result == [state : {"PENDING", "OK", "VIOLATED", "ERROR"}, applicable : SUBSET Issue,
           passed : SUBSET Issue, violations : SUBSET Violation]

\* evaluated: lastEvaluatedAt is set.  mode is the snapshot of the type's.
Row == [mode : Mode, deadline : Day, evaluated : BOOLEAN, result : Result]

\* No row has the id: not yet, or no more.  Ids are not used again.
Absent == [mode |-> "absent"]
Gone == [mode |-> "gone"]

RowTable == [Checkpoint -> Row \cup {Absent, Gone}]

In(rows) == {c \in Checkpoint : rows[c] \notin {Absent, Gone}}
Applied == In(row)

NewRow(mode, day) ==
    [mode |-> mode, deadline |-> day, evaluated |-> FALSE,
     result |-> [state |-> "PENDING", applicable |-> {}, passed |-> {}, violations |-> {}]]

-----------------------------------------------------------------------------
(* evaluateCheckpoint.  st maps the ids of the loaded issues to the status  *)
(* they had then, matched are the ids the TTQL query found.                 *)

\* "INVALID" stands for COMBINED with a query that does not compile, "MISSING" for
\* a condition that should have a query and has none.  With the feature off every
\* checkpoint is evaluated as STRUCTURED.
EffectiveMode(mode) == IF TtqlOn THEN mode ELSE "STRUCTURED"

Failed(mode, st) ==
    IF mode = "TTQL" THEN {} ELSE {i \in DOMAIN st : Verdict[st[i]] = "failed"}

Applicable(mode, st) ==
    IF mode = "STRUCTURED" THEN {i \in DOMAIN st : Verdict[st[i]] # "not-applicable"}
    ELSE DOMAIN st

Mismatched(mode, st, matched) ==
    IF mode = "STRUCTURED" THEN {} ELSE DOMAIN st \ (Failed(mode, st) \cup matched)

Violations(mode, st, matched) ==
    (Failed(mode, st) \X {"CRITERION"})
      \cup (Mismatched(mode, st, matched) \X {"TTQL_MISMATCH"})

\* The issues of a violation set; the synthetic violation is of none.
Violating(V) == {i \in Issue : \E r \in Reason : <<i, r>> \in V}

\* OK and VIOLATED are verdicts of the deadline.  Mutant: the warning flag of a
\* checkpoint with violations becomes a state.
StateWithWarning(V, deadline, now) ==
    IF now < deadline THEN IF V = {} THEN "PENDING" ELSE "WARNING"
    ELSE IF V = {} THEN "OK" ELSE "VIOLATED"
StateOf(V, deadline, now) ==
    IF now < deadline THEN "PENDING" ELSE IF V = {} THEN "OK" ELSE "VIOLATED"

\* A TTQL query that does not compile or run.
ErrorResult == [state |-> "ERROR", applicable |-> {}, passed |-> {},
                violations |-> {<<NoIssue, "TTQL_ERROR">>}]

\* The query is not looked at when there are no issues.
Hopeless(mode, st) == mode = "MISSING" \/ (mode = "INVALID" /\ DOMAIN st # {})

Evaluate(mode, st, matched, deadline, now) ==
    LET m == EffectiveMode(mode)
        V == Violations(m, st, matched)
    IN  IF Hopeless(m, st) THEN ErrorResult
        ELSE [state |-> StateOf(V, deadline, now),
              applicable |-> Applicable(m, st),
              passed |-> Applicable(m, st) \ Violating(V),
              violations |-> V]

-----------------------------------------------------------------------------
(* Processes.                                                               *)

Idle == [pc |-> "idle"]

\* loadEvaluationIssuesForRelease: the issues of the release with their status.
Loaded == UNION {[S -> IStatus] : S \in SUBSET Issue}
LoadedNow == [i \in items |-> issue[i]]

\* What a recompute works from: the issues it loaded, its copies of the rows that
\* are left, its idea of the time.
Scan == [st : Loaded, rows : RowTable, now : Day]

\* A transaction that has updated a row holds it until it commits.  Mutant: the
\* row is updated outside the transaction.
NoRowLock(c) == FALSE
RowLocked(c) == \E p \in Proc : proc[p].pc = "reconcile" /\ proc[p].cp = c

Become(p, l) == proc' = [proc EXCEPT ![p] = l]

\* A request is accepted; its further steps continue it.
Accept(p) ==
    /\ proc[p] = Idle
    /\ ops < MaxOps
    /\ ops' = ops + 1
=============================================================================
