------------------------------ MODULE BulkStore ------------------------------
(***************************************************************************)
(* What the bulk-operation services share: the Postgres tables             *)
(* bulk_operations and bulk_operation_items, the Redis lists               *)
(* `bulk-op:{id}:pending`, and the effects executors have on issues.       *)
(*                                                                         *)
(* An operation is the number of its INSERT, so ids are ordered by         *)
(* createdAt.  Its item list is fixed when the row is inserted; a position *)
(* of that list is an entry.  Neither resolveScope nor preview removes     *)
(* duplicate ids, so two entries may name the same issue.  A pending list  *)
(* is RPUSHed once and only LPOPped afterwards, hence it is the set of the *)
(* entries still in it, LPOP taking the lowest ones.                       *)
(***************************************************************************)
EXTENDS Naturals, Sequences, FiniteSets

CONSTANTS
    User, Key, Token,   \* owners, Idempotency-Key values, preview tokens
    Issue,              \* issue ids
    Scope,              \* the item lists a preview may resolve to
    None,               \* "no user", "no token", "no tick"
    MaxOps,             \* bound: rows ever inserted in bulk_operations
    MaxScope,           \* bound: items of one operation
    MaxFaults,          \* bound: crashes, lost replies and failed calls
    BatchSize,          \* BATCH_SIZE
    MaxDrain,           \* MAX_DRAIN
    MaxItems,           \* the maxItems setting
    MaxConcurrent       \* the maxConcurrentPerUser setting

ASSUME StoreAssumption ==
    /\ None \notin User \cup Key \cup Token
    /\ Scope \subseteq Seq(Issue)
    /\ \A ids \in Scope : Len(ids) <= MaxScope
    /\ {MaxOps, MaxScope, MaxFaults, MaxItems} \subseteq Nat
    /\ {BatchSize, MaxDrain, MaxConcurrent} \subseteq Nat \ {0}
    \* MAX_DRAIN is 20 000, MAX_ITEMS_HARD_LIMIT 10 000.
    /\ MaxScope <= MaxDrain

VARIABLES
    op,        \* bulk_operations, by id
    scope,     \* the item list of each operation
    queue,     \* the pending list of each operation
    items,     \* bulk_operation_items: one row per failed or skipped entry
    applied,   \* how often an entry's change was committed to its issue
    late,      \* history: entries whose change was committed after a cancel
    faults     \* crashes and failures so far

storeVars == <<op, scope, queue, items, applied, late, faults>>

Op    == 1..MaxOps
Entry == 1..MaxScope

ActiveStatus   == {"QUEUED", "RUNNING"}
TerminalStatus == {"SUCCEEDED", "PARTIAL", "FAILED", "CANCELLED"}
\* ABSENT: not inserted yet.  DELETED: rolled back, or purged by retention.
Status == ActiveStatus \cup TerminalStatus \cup {"ABSENT", "DELETED"}

\* CANCELLED stands for outcome SKIPPED with errorCode CANCELLED_BY_USER.
Outcome == {"FAILED", "SKIPPED", "CANCELLED"}
Row     == [entry : Entry, outcome : Outcome]

\* token and retryOf record where the item list came from (history).
OpRow == [status : Status, owner : User \cup {None}, key : Key \cup {None},
          token : Token \cup {None}, retryOf : 0..MaxOps,
          cancelRequested : BOOLEAN, total : Nat, processed : Nat,
          succeeded : Nat, failed : Nat, skipped : Nat]

AbsentOp == [status |-> "ABSENT", owner |-> None, key |-> None,
             token |-> None, retryOf |-> 0, cancelRequested |-> FALSE,
             total |-> 0, processed |-> 0, succeeded |-> 0, failed |-> 0,
             skipped |-> 0]

StoreTypeOK ==
    /\ op \in [Op -> OpRow]
    /\ scope \in [Op -> Seq(Issue)]
    /\ queue \in [Op -> SUBSET Entry]
    /\ items \in [Op -> SUBSET Row]
    /\ applied \in [Op -> [Entry -> Nat]]
    /\ late \in [Op -> Nat]
    /\ faults \in 0..MaxFaults

StoreInit ==
    /\ op      = [o \in Op |-> AbsentOp]
    /\ scope   = [o \in Op |-> << >>]
    /\ queue   = [o \in Op |-> {}]
    /\ items   = [o \in Op |-> {}]
    /\ applied = [o \in Op |-> [k \in Entry |-> 0]]
    /\ late    = [o \in Op |-> 0]
    /\ faults  = 0

-----------------------------------------------------------------------------
Active(o)   == op[o].status \in ActiveStatus
Terminal(o) == op[o].status \in TerminalStatus
Exists(o)   == Active(o) \/ Terminal(o)

\* @@unique([createdById, idempotencyKey]): the row a key finds, if any.
WithKey(u, k) == {o \in Op : Exists(o) /\ op[o].owner = u /\ op[o].key = k}

\* The number of operations the quota counts for a user.
ActiveOf(u) == Cardinality({o \in Op : Active(o) /\ op[o].owner = u})

\* The n lowest entries of a pending list: what LPOP key n returns.
Front(S, n) == {k \in S : Cardinality({j \in S : j < k}) < n}

\* What LPOP leaves behind.  Mutants: LRANGE only, and LTRIM one short.
PopNothing(o, batch) == queue' = queue
PopOneShort(o, batch) ==
    queue' = [queue EXCEPT ![o] = @ \ Front(batch, Cardinality(batch) - 1)]
Pop(o, batch) == queue' = [queue EXCEPT ![o] = @ \ batch]

\* The entries of an operation with a row of the given outcome.
RowsOf(o, outcome) == {r \in items[o] : r.outcome = outcome}

\* One more failure happens, within the bound on failures.
Fault == faults < MaxFaults /\ faults' = faults + 1

\* The status finalize computes from the counters of a row.
FinalStatus(row) ==
    CASE row.failed = 0 /\ row.succeeded > 0 -> "SUCCEEDED"
      [] row.failed = 0 /\ row.succeeded = 0 -> "PARTIAL"
      [] row.failed > 0 /\ row.succeeded > 0 -> "PARTIAL"
      [] OTHER                               -> "FAILED"
=============================================================================
