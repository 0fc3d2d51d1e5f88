---------------------------- MODULE BulkLockProofs ----------------------------
(***************************************************************************)
(* What the tick lock gives, for every value of the constants: as long as  *)
(* the TTL of the lock exceeds every live tick (LockOutlives), one tick at *)
(* a time works on one operation, and the row it read is not stale when it *)
(* writes.  Without LockOutlives the properties proved here do not hold.   *)
(***************************************************************************)
EXTENDS BulkCountersProofs

Works(t) == t.pc \notin {"idle", "select", "release"}

\* Only the holder of the lock runs.
Holder == \A s \in Tick : tick[s].pc # "idle" => lock = s

\* The locals a tick uses at each step.
Tidy(t) ==
    /\ ~Works(t) => t.op = 0
    /\ t.pc # "execute" => t.done = {}
    /\ t.pc \notin {"execute", "record"} => t.todo = {}
    /\ t.pc \notin {"drain", "record", "cancel"} => t.drained = 0

\* The operation of a tick has not been finished under it.
Live(t) == Works(t) => Active(t.op) \/ op[t.op].status = "DELETED"

\* What the tick read in the row still holds.
Told(t) ==
    /\ t.pc \in {"start", "pop", "finalize"} => t.verdict = FinalStatus(op[t.op])
    /\ t.pc \in {"drain", "record", "cancel"} => op[t.op].cancelRequested

\* A batch is popped before anything is late, and the rest of it fits.
InTime(t) ==
    /\ t.pc \in {"start", "pop"} => late[t.op] = 0
    /\ t.pc = "execute" => late[t.op] + Cardinality(t.todo) <= BatchSize

GoodTick(t) == Tidy(t) /\ Live(t) /\ Told(t) /\ InTime(t)

Agrees(o) ==
    /\ op[o].status \in {"SUCCEEDED", "PARTIAL", "FAILED"} => op[o].status = FinalStatus(op[o])
    /\ op[o].status = "CANCELLED" => op[o].cancelRequested

LateRow(o) ==
    /\ late[o] <= BatchSize
    /\ late[o] > 0 => op[o].cancelRequested
    /\ op[o].status = "ABSENT" => late[o] = 0

GoodRow(o) == Agrees(o) /\ LateRow(o)

LockInv == /\ Holder
           /\ \A s \in Tick : GoodTick(tick[s])
           /\ \A o \in Op : GoodRow(o)

-----------------------------------------------------------------------------
\* LPOP key n returns at most n entries: each has fewer than n below it, and no
\* two have as many.
LEMMA FrontSize ==
    ASSUME NEW S \in SUBSET Entry, NEW n \in Nat
    PROVE  IsFiniteSet(Front(S, n)) /\ Cardinality(Front(S, n)) <= n
<1> DEFINE Below(k) == {j \in S : j < k}
           F == Front(S, n)
           Ranks == 0..(n - 1)
           f == [k \in F |-> Cardinality(Below(k))]
<1>1. IsFiniteSet(S) /\ S \subseteq Int
  BY EntriesFinite DEF Entry
<1>2. \A k \in S : IsFiniteSet(Below(k)) /\ Cardinality(Below(k)) \in Nat
  BY <1>1, FS_Subset, FS_CardinalityType
<1>3. ASSUME NEW j \in S, NEW k \in S, j < k
      PROVE  Cardinality(Below(j)) < Cardinality(Below(k))
  <2>1. \A i \in Below(j) : i \in Below(k)
    <3>1. ASSUME NEW i \in S, i < j PROVE i < k
      <4>1. i \in Int /\ j \in Int /\ k \in Int
        BY <1>1
      <4> QED
        BY <1>3, <3>1, <4>1
    <3> QED
      BY <3>1
  <2>2. j \in Below(k) /\ j \notin Below(j)
    <3>1. j \in Int
      BY <1>1
    <3> QED
      BY <1>3, <3>1
  <2> HIDE DEF Below
  <2>3. /\ Cardinality(Below(j)) <= Cardinality(Below(k))
        /\ Cardinality(Below(k)) = Cardinality(Below(j)) => Below(k) = Below(j)
    BY <1>2, <2>1, FS_Subset
  <2> QED
    BY <1>2, <2>2, <2>3
<1>4. F \in SUBSET S /\ \A k \in F : Cardinality(Below(k)) \in Ranks
  BY <1>2 DEF Front
<1>5. f \in Injection(F, Ranks)
  <2>1. f \in [F -> Ranks]
    BY <1>4
  <2>2. ASSUME NEW j \in F, NEW k \in F, f[j] = f[k] PROVE j = k
    <3>1. Cardinality(Below(j)) = Cardinality(Below(k)) /\ j \in S /\ k \in S
      BY <1>4, <2>2
    <3> QED
      BY <1>1, <1>2, <1>3, <3>1
  <2> QED
    BY <2>1, <2>2 DEF Injection, IsInjective
<1>6. IsFiniteSet(Ranks) /\ Cardinality(Ranks) = n
  BY FS_Interval
<1> HIDE DEF F, f, Ranks
<1>7. IsFiniteSet(F) /\ Cardinality(F) <= Cardinality(Ranks)
  BY <1>5, <1>6, FS_Injection
<1> QED
  BY <1>6, <1>7 DEF F

\* The verdict on a row depends on its counters.
LEMMA SameVerdict ==
    ASSUME NEW row, NEW next, Counters(next) = Counters(row)
    PROVE  FinalStatus(next) = FinalStatus(row)
BY DEF FinalStatus, Counters

LEMMA VerdictType ==
    ASSUME NEW row \in OpRow
    PROVE  FinalStatus(row) \in {"SUCCEEDED", "PARTIAL", "FAILED"}
BY DEF FinalStatus, OpRow

-----------------------------------------------------------------------------
(* The steps of requests and of the other jobs, seen from a tick.           *)

\* The updates of a row by others than the tick.
Touched(row, next) ==
    \/ next = row
    \/ row.status # "ABSENT" /\ next = [row EXCEPT !.cancelRequested = TRUE]
    \/ row.status = "RUNNING" /\ next = [row EXCEPT !.status = "QUEUED"]
    \/ row.status # "ABSENT" /\ next = [row EXCEPT !.status = "DELETED"]

\* Only a lock whose holder is dead expires.
LockOrDead == lock' = lock \/ (lock' = None /\ At(lock, "idle"))

Aside == /\ UNCHANGED <<late, tick>> /\ LockOrDead
         /\ \A o \in Op : Touched(op[o], op'[o])

LEMMA RequestAside ==
    ASSUME TypeOK, NEW r \in Req, Begins(r) \/ Proceeds(r), UNCHANGED procVars,
           InsertOp(r) => KeyTaken(req[r].user, req[r].key)
    PROVE  Aside
<1>0. op \in [Op -> OpRow] /\ UNCHANGED <<late, tick, lock>>
  BY DEF TypeOK, StoreTypeOK, procVars, storeVars, Begins, Proceeds, BeginCreate, ConsumeToken,
     CheckQuota, InsertOp, Refetch, PushQueue, Rollback, BeginRetry, ReadRows, LookupRetry,
     BeginCancel, SetCancel, KillRequest
<1>1. CASE Exists(req[r].op) /\ (Rollback(r) \/ SetCancel(r))
  <2> DEFINE o == req[r].op
  <2>1. PICK gone, flagged : /\ gone = [op[o] EXCEPT !.status = "DELETED"]
                             /\ flagged = [op[o] EXCEPT !.cancelRequested = TRUE]
    OBVIOUS
  <2>2. op' = [op EXCEPT ![o] = gone] \/ op' = [op EXCEPT ![o] = flagged]
    BY <1>1, <2>1 DEF Rollback, SetCancel
  <2>3. op[o].status # "ABSENT"
    BY <1>1 DEF Exists, Active, Terminal, ActiveStatus, TerminalStatus
  <2>4. ASSUME NEW p \in Op PROVE Touched(op[p], op'[p])
    <3>1. op'[p] = op[p] \/ (p = o /\ op'[p] \in {gone, flagged})
      BY <1>0, <2>2
    <3> QED
      BY <2>1, <2>3, <3>1 DEF Touched
  <2> QED
    BY <1>0, <2>4 DEF Aside, LockOrDead
<1>2. CASE ~(Exists(req[r].op) /\ (Rollback(r) \/ SetCancel(r)))
  <2>1. UNCHANGED op
    <3>1. CASE InsertOp(r)
      BY <3>1 DEF InsertOp
    <3>2. CASE ~InsertOp(r)
      BY <1>2, <3>2 DEF storeVars, Begins, Proceeds, BeginCreate, ConsumeToken, CheckQuota,
         Refetch, PushQueue, Rollback, BeginRetry, ReadRows, LookupRetry, BeginCancel, SetCancel,
         KillRequest
    <3> QED
      BY <3>1, <3>2
  <2> QED
    BY <1>0, <2>1 DEF Aside, LockOrDead, Touched
<1> QED
  BY <1>1, <1>2

LEMMA CronAside ==
    ASSUME LockOutlives, TypeOK, JobActs
    PROVE  Aside
<1>0. op \in [Op -> OpRow]
  BY DEF TypeOK, StoreTypeOK
<1>1. CASE LockExpires
  BY <1>1 DEF LockExpires, storeVars, Aside, LockOrDead, Touched
<1>2. CASE Recover
  <2>1. PICK stale \in SUBSET {o \in Op : op[o].status = "RUNNING"} :
          op' = [p \in Op |-> IF p \in stale
                              THEN [op[p] EXCEPT !.status = "QUEUED"] ELSE op[p]]
    BY <1>2 DEF Recover
  <2>2. ASSUME NEW p \in Op PROVE Touched(op[p], op'[p])
    <3>1. PICK row, next : row = op[p] /\ next = [row EXCEPT !.status = "QUEUED"]
      OBVIOUS
    <3>2. op'[p] = (IF p \in stale THEN next ELSE row) /\ (p \in stale => row.status = "RUNNING")
      BY <2>1, <3>1
    <3> QED
      BY <3>1, <3>2 DEF Touched
  <2>3. UNCHANGED <<late, tick, lock>>
    BY <1>2 DEF Recover, procVars
  <2> QED
    BY <2>2, <2>3 DEF Aside, LockOrDead
<1>3. ASSUME NEW o \in Op, PurgeItems(o) \/ PurgeOp(o) PROVE Aside
  <2>1. PICK gone : gone = [op[o] EXCEPT !.status = "DELETED"]
    OBVIOUS
  <2>2. UNCHANGED op \/ op' = [op EXCEPT ![o] = gone]
    BY <1>3, <2>1 DEF PurgeItems, PurgeOp
  <2>3. op[o].status # "ABSENT" /\ UNCHANGED <<late, tick, lock>>
    BY <1>3 DEF PurgeItems, PurgeOp, Forgotten, Terminal, TerminalStatus, procVars
  <2>4. ASSUME NEW p \in Op PROVE Touched(op[p], op'[p])
    <3>1. op'[p] = op[p] \/ (p = o /\ op'[p] = gone)
      BY <1>0, <2>2
    <3> QED
      BY <2>1, <2>3, <3>1 DEF Touched
  <2> QED
    BY <2>3, <2>4 DEF Aside, LockOrDead
<1> QED
  BY <1>1, <1>2, <1>3 DEF JobActs

LEMMA StepAside ==
    ASSUME LockOutlives, IInv, [Next]_vars
    PROVE  \/ \E s \in Tick : TickActs(s)
           \/ Aside
           \/ \E r \in Req, n \in Op : Inserts(r, n) /\ UNCHANGED procVars
<1>0. TypeOK /\ AtWork
  BY DEF IInv
<1>1. CASE UNCHANGED vars \/ (PreviewActs /\ UNCHANGED procVars)
  <2>1. UNCHANGED <<op, late, tick, lock>>
    BY <1>1 DEF vars, storeVars, intakeVars, procVars, PreviewActs, Preview, ExpirePreview
  <2> QED
    BY <2>1 DEF Aside, LockOrDead, Touched
<1>2. ASSUME NEW r \in Req, Begins(r) \/ Proceeds(r), UNCHANGED procVars,
             ~\E n \in Op : Inserts(r, n)
      PROVE  Aside
  <2>1. InsertOp(r) => KeyTaken(req[r].user, req[r].key)
    BY <1>0, <1>2, InsertsRow
  <2> QED
    BY <1>0, <1>2, <2>1, RequestAside
<1>3. CASE JobActs
  BY <1>0, <1>3, CronAside
<1> QED
  BY <1>1, <1>2, <1>3, StepCases

LEMMA TouchedFacts ==
    ASSUME NEW row \in OpRow, NEW next, Touched(row, next)
    PROVE  /\ next \in OpRow /\ Counters(next) = Counters(row) /\ Columns(next) = Columns(row)
           /\ row.cancelRequested => next.cancelRequested
           /\ next.status = "ABSENT" => row.status = "ABSENT" /\ next = row
           /\ row.status \in ActiveStatus => next.status \in ActiveStatus \cup {"DELETED"}
           /\ row.status = "DELETED" => next.status = "DELETED"
           /\ next.status \in ActiveStatus => row.status \in ActiveStatus
           /\ next.status \in TerminalStatus => next.status = row.status
           /\ row.status \in TerminalStatus =>
                next.status = "DELETED" \/ next = row
                  \/ next = [row EXCEPT !.cancelRequested = TRUE]
<1>1. CASE next = row
  BY <1>1
<1>2. CASE row.status # "ABSENT" /\ next = [row EXCEPT !.cancelRequested = TRUE]
  BY <1>2 DEF OpRow, Counters, Columns, ActiveStatus, TerminalStatus
<1>3. CASE row.status = "RUNNING" /\ next = [row EXCEPT !.status = "QUEUED"]
  BY <1>3 DEF OpRow, Status, Counters, Columns, ActiveStatus, TerminalStatus
<1>4. CASE row.status # "ABSENT" /\ next = [row EXCEPT !.status = "DELETED"]
  BY <1>4 DEF OpRow, Status, Counters, Columns, ActiveStatus, TerminalStatus
<1> QED
  BY <1>1, <1>2, <1>3, <1>4 DEF Touched

\* A tick that has left its operation owes nothing.
LEMMA OffDuty ==
    ASSUME NEW t, t.pc \in {"idle", "select", "release"}, t.op = 0, t.todo = {}, t.done = {},
           t.drained = 0
    PROVE  GoodTick(t)
BY DEF GoodTick, Tidy, Works, Live, Told, InTime

\* What a tick has read stays true while its operation is only touched.
LEMMA GoodTickStays ==
    ASSUME NEW s \in Tick, tick'[s] = tick[s], GoodTick(tick[s]),
           LET o == tick[s].op IN
             Works(tick[s]) =>
               /\ late'[o] = late[o] /\ Counters(op'[o]) = Counters(op[o])
               /\ op[o].cancelRequested => op'[o].cancelRequested
               /\ op[o].status \in ActiveStatus \cup {"DELETED"} =>
                    op'[o].status \in ActiveStatus \cup {"DELETED"}
    PROVE  GoodTick(tick[s])'
<1>1. PICK t : t = tick[s]
  OBVIOUS
<1>2. CASE ~Works(t)
  BY <1>1, <1>2 DEF GoodTick, Tidy, Works, Live, Told, InTime
<1>3. CASE Works(t)
  <2>1. PICK row, next : row = op[t.op] /\ next = op'[t.op]
    OBVIOUS
  <2>2. FinalStatus(next) = FinalStatus(row)
    BY <1>1, <1>3, <2>1, SameVerdict
  <2>3. /\ late'[t.op] = late[t.op]
        /\ row.cancelRequested => next.cancelRequested
        /\ row.status \in ActiveStatus \cup {"DELETED"} =>
             next.status \in ActiveStatus \cup {"DELETED"}
    BY <1>1, <1>3, <2>1
  <2>4. /\ Tidy(t) /\ row.status \in ActiveStatus \cup {"DELETED"}
        /\ t.pc \in {"start", "pop", "finalize"} => t.verdict = FinalStatus(row)
        /\ t.pc \in {"drain", "record", "cancel"} => row.cancelRequested
        /\ InTime(t)
    BY <1>1, <1>3, <2>1 DEF GoodTick, Live, Active, Told
  <2> QED
    BY <1>1, <2>1, <2>2, <2>3, <2>4 DEF GoodTick, Tidy, Works, Live, Active, Told, InTime
<1> QED
  BY <1>2, <1>3

LEMMA GoodRowStays ==
    ASSUME NEW o \in Op, GoodRow(o), late'[o] = late[o], Counters(op'[o]) = Counters(op[o]),
           op[o].cancelRequested => op'[o].cancelRequested,
           op'[o].status \in TerminalStatus => op'[o].status = op[o].status,
           op'[o].status = "ABSENT" => op[o].status = "ABSENT"
    PROVE  GoodRow(o)'
<1>1. PICK row, next : row = op[o] /\ next = op'[o]
  OBVIOUS
<1>2. FinalStatus(next) = FinalStatus(row)
  BY <1>1, SameVerdict
<1> QED
  BY <1>1, <1>2 DEF GoodRow, Agrees, LateRow, TerminalStatus

LEMMA AsideKeepsLock ==
    ASSUME IInv, LockInv, Aside
    PROVE  LockInv'
<1>0. op \in [Op -> OpRow] /\ late \in [Op -> Nat] /\ AtWork
  BY DEF IInv, TypeOK, StoreTypeOK
<1>1. \A o \in Op : /\ Counters(op'[o]) = Counters(op[o])
                    /\ op[o].cancelRequested => op'[o].cancelRequested
                    /\ op'[o].status = "ABSENT" => op[o].status = "ABSENT"
                    /\ op'[o].status \in TerminalStatus => op'[o].status = op[o].status
                    /\ op[o].status \in ActiveStatus \cup {"DELETED"} =>
                         op'[o].status \in ActiveStatus \cup {"DELETED"}
  <2>1. ASSUME NEW o \in Op, NEW row, NEW next, row = op[o], next = op'[o]
        PROVE  row \in OpRow /\ Touched(row, next)
    BY <1>0, <2>1 DEF Aside
  <2> QED
    BY <2>1, TouchedFacts
<1>2. Holder'
  BY DEF LockInv, Holder, Aside, LockOrDead, At
<1>3. \A s \in Tick : Works(tick[s]) => tick[s].op \in Op
  BY <1>0 DEF AtWork, Working, Works
<1>4. ASSUME NEW s \in Tick PROVE GoodTick(tick[s])'
  BY <1>1, <1>3, GoodTickStays DEF LockInv, Aside
<1>5. ASSUME NEW o \in Op PROVE GoodRow(o)'
  BY <1>1, GoodRowStays DEF LockInv, Aside
<1> QED
  BY <1>2, <1>4, <1>5 DEF LockInv

LEMMA InsertKeepsLock ==
    ASSUME IInv, LockInv, NEW r \in Req, NEW n \in Op, Inserts(r, n), UNCHANGED procVars
    PROVE  LockInv'
<1>0. late \in [Op -> Nat] /\ AtWork /\ UNCHANGED <<late, tick, lock>>
  BY DEF IInv, TypeOK, StoreTypeOK, Inserts, procVars
<1>1. \A p \in Op : p # n => op'[p] = op[p]
  BY DEF Inserts
<1>2. Holder'
  BY <1>0 DEF LockInv, Holder
<1>3. ASSUME NEW s \in Tick PROVE GoodTick(tick[s])'
  <2>1. Works(tick[s]) => tick[s].op \in Op /\ tick[s].op # n
    BY <1>0 DEF AtWork, Working, Works, LockInv, GoodTick, Live, Active, ActiveStatus, Inserts
  <2> QED
    BY <1>0, <1>1, <2>1, GoodTickStays DEF LockInv
<1>4. ASSUME NEW o \in Op PROVE GoodRow(o)'
  <2>1. CASE o = n
    BY <1>0, <2>1, Bounds DEF Inserts, LockInv, GoodRow, Agrees, LateRow
  <2>2. CASE o # n
    BY <1>0, <1>1, <2>2 DEF LockInv, GoodRow, Agrees, LateRow
  <2> QED
    BY <2>1, <2>2
<1> QED
  BY <1>2, <1>3, <1>4 DEF LockInv

-----------------------------------------------------------------------------
(* The steps of a tick.                                                     *)

\* A step of a tick concerns its own operation only.
LEMMA TickFrame ==
    ASSUME StoreTypeOK, NEW s \in Tick, TickActs(s), NEW p \in Op, p # tick[s].op
    PROVE  op'[p] = op[p] /\ late'[p] = late[p]
<1> DEFINE o == tick[s].op
<1>0. op \in [Op -> OpRow] /\ late \in [Op -> Nat]
  BY DEF StoreTypeOK
<1>1. \/ UNCHANGED op
      \/ StartOp(s) \/ Finalize(s) \/ CommitBatch(s) \/ CancelOp(s)
  BY DEF TickActs, storeVars, AcquireLock, SelectOp, PopBatch, ExecuteItem, Reread, DrainPop,
     DrainRecord, ReleaseLock, TickThrows, KillTick
<1>2. ASSUME StartOp(s) \/ Finalize(s) \/ CommitBatch(s) \/ CancelOp(s)
      PROVE  op'[p] = op[p]
  <2>1. ASSUME NEW row, op' = [op EXCEPT ![o] = row] PROVE op'[p] = op[p]
    BY <1>0, <2>1
  <2>2. UNCHANGED op \/ \E row : op' = [op EXCEPT ![o] = row]
    BY <1>2 DEF StartOp, Finalize, CommitBatch, CancelOp
  <2> QED
    BY <2>1, <2>2
<1>3. late'[p] = late[p]
  <2>1. UNCHANGED late \/ late' = [late EXCEPT ![o] = @ + 1]
    BY DEF TickActs, storeVars, AcquireLock, SelectOp, StartOp, PopBatch, ExecuteItem, CommitBatch,
       Reread, Finalize, DrainPop, DrainRecord, CancelOp, ReleaseLock, TickThrows, KillTick
  <2> QED
    BY <1>0, <2>1
<1> QED
  BY <1>1, <1>2, <1>3

LEMMA TickHolds ==
    ASSUME ProcTypeOK, Holder, NEW s \in Tick, TickActs(s),
           \A q \in Tick \ {s} : tick'[q] = tick[q]
    PROVE  Holder'
<1>1. CASE AcquireLock(s)
  <2>1. lock = None /\ lock' = s /\ None \notin Tick
    BY <1>1, ProcessorAssumption DEF AcquireLock, LockFree
  <2> QED
    BY <2>1 DEF Holder
<1>2. CASE ReleaseLock(s)
  <2>1. /\ tick'[s].pc = "idle" /\ tick[s].pc = "release"
        /\ lock' = (IF lock = s THEN None ELSE lock) \/ UNCHANGED lock
    BY <1>2, Locals DEF ReleaseLock, At
  <2> QED
    BY <2>1 DEF Holder
<1>3. CASE ~AcquireLock(s) /\ ~ReleaseLock(s)
  <2>1. UNCHANGED lock /\ tick[s].pc # "idle"
    BY <1>3 DEF TickActs, At, storeVars, SelectOp, StartOp, PopBatch, ExecuteItem, CommitBatch,
       Reread, Finalize, DrainPop, DrainRecord, CancelOp, TickThrows, KillTick
  <2> QED
    BY <2>1 DEF Holder
<1> QED
  BY <1>1, <1>2, <1>3

LEMMA LeavesGood ==
    ASSUME ProcTypeOK, NEW s \in Tick, Leave(s) \/ tick' = [tick EXCEPT ![s] = IdleTick]
    PROVE  GoodTick(tick[s])'
<1>1. /\ tick'[s].pc \in {"release", "idle"} /\ tick'[s].op = 0 /\ tick'[s].todo = {}
      /\ tick'[s].done = {} /\ tick'[s].drained = 0
  BY Locals DEF Rests
<1> QED
  BY <1>1 DEF GoodTick, Tidy, Works, Live, Told, InTime

LEMMA SelectGood ==
    ASSUME IInv, LockInv, NEW s \in Tick, SelectOp(s)
    PROVE  GoodTick(tick[s])'
<1>0. ProcTypeOK /\ tick \in [Tick -> TickState] /\ late \in [Op -> Nat]
      /\ UNCHANGED <<op, late>>
  BY DEF IInv, TypeOK, ProcTypeOK, StoreTypeOK, SelectOp, storeVars
<1>1. CASE Leave(s)
  BY <1>0, <1>1, LeavesGood
<1>2. ASSUME NEW p \in Op, Active(p),
             tick' = [tick EXCEPT ![s] =
               [IdleTick EXCEPT !.op = p, !.verdict = FinalStatus(op[p]),
                                !.pc = FirstStep(op[p])]]
      PROVE  GoodTick(tick[s])'
  <2>1. PICK t : t = [IdleTick EXCEPT !.op = p, !.verdict = FinalStatus(op[p]),
                                      !.pc = FirstStep(op[p])]
    OBVIOUS
  <2>2. tick'[s] = t
    BY <1>0, <1>2, <2>1
  <2>3. /\ t.op = p /\ t.todo = {} /\ t.done = {} /\ t.drained = 0
        /\ t.verdict = FinalStatus(op[p]) /\ t.pc = FirstStep(op[p])
    BY <2>1 DEF IdleTick
  <2>4. \/ t.pc = "drain" /\ op[p].cancelRequested
        \/ t.pc \in {"start", "pop"} /\ ~op[p].cancelRequested
    BY <2>3 DEF FirstStep
  <2>5. ~op[p].cancelRequested => late[p] = 0
    BY <1>0 DEF LockInv, GoodRow, LateRow
  <2> QED
    BY <1>0, <1>2, <2>2, <2>3, <2>4, <2>5 DEF GoodTick, Tidy, Works, Live, Active, Told, InTime
<1> QED
  BY <1>1, <1>2 DEF SelectOp

\* Steps that only move on, the operation and its history unchanged.
LEMMA GotoGood ==
    ASSUME ProcTypeOK, NEW s \in Tick, NEW pc, Goto(s, pc), GoodTick(tick[s]), Works(tick[s]),
           UNCHANGED <<op, late>>,
           \/ pc = "finalize" /\ tick[s].pc = "pop"
           \/ pc = "drain" /\ tick[s].pc = "reread" /\ op[tick[s].op].cancelRequested
           \/ pc = "cancel" /\ tick[s].pc = "drain"
    PROVE  GoodTick(tick[s])'
<1>1. PICK t, u : t = tick[s] /\ u = tick'[s]
  OBVIOUS
<1>2. /\ u.op = t.op /\ u.todo = t.todo /\ u.done = t.done /\ u.drained = t.drained
      /\ u.pc = pc /\ u.verdict = t.verdict
  BY <1>1, Locals DEF Continues
<1> QED
  BY <1>1, <1>2 DEF GoodTick, Tidy, Works, Live, Active, Told, InTime

LEMMA StartGood ==
    ASSUME IInv, LockInv, NEW s \in Tick, StartOp(s), NEW o, o = tick[s].op
    PROVE  GoodTick(tick[s])' /\ (o \in Op => GoodRow(o)')
<1>0. /\ StoreTypeOK /\ ProcTypeOK /\ op \in [Op -> OpRow] /\ o \in Op
      /\ tick[s].pc = "start" /\ UNCHANGED late /\ GoodTick(tick[s]) /\ GoodRow(o)
  BY DEF IInv, TypeOK, StoreTypeOK, StartOp, At, AtWork, Working, LockInv
<1>1. CASE Exists(o) /\ op' = [op EXCEPT ![o].status = "RUNNING"] /\ Goto(s, "pop")
  <2>1. PICK row, next : row = op[o] /\ next = [row EXCEPT !.status = "RUNNING"]
    OBVIOUS
  <2>2. op'[o] = next /\ row \in OpRow
    BY <1>0, <1>1, <2>1
  <2>3. /\ next.status = "RUNNING" /\ next.cancelRequested = row.cancelRequested
        /\ Counters(next) = Counters(row)
    BY <2>1, <2>2 DEF OpRow, Counters
  <2>4. FinalStatus(next) = FinalStatus(row)
    BY <2>3, SameVerdict
  <2>5. PICK t, u : t = tick[s] /\ u = tick'[s]
    OBVIOUS
  <2>6. /\ u.op = o /\ u.todo = {} /\ u.done = {} /\ u.drained = 0
        /\ u.pc = "pop" /\ u.verdict = FinalStatus(row) /\ late[o] = 0
    BY <1>0, <1>1, <2>1, <2>5, Locals DEF Continues, GoodTick, Tidy, Told, InTime
  <2>7. GoodTick(tick[s])'
    BY <1>0, <2>2, <2>3, <2>4, <2>5, <2>6
       DEF GoodTick, Tidy, Works, Live, Active, ActiveStatus, Told, InTime
  <2>8. GoodRow(o)'
    BY <1>0, <2>1, <2>2, <2>3 DEF GoodRow, Agrees, LateRow
  <2> QED
    BY <2>7, <2>8
<1>2. CASE Leave(s) /\ UNCHANGED op
  BY <1>0, <1>2, LeavesGood DEF GoodRow, Agrees, LateRow
<1> QED
  BY <1>1, <1>2 DEF StartOp

LEMMA PopGood ==
    ASSUME IInv, LockInv, NEW s \in Tick, PopBatch(s) \/ DrainPop(s), NEW o, o = tick[s].op
    PROVE  GoodTick(tick[s])' /\ (o \in Op => GoodRow(o)')
<1>0. /\ ProcTypeOK /\ tick \in [Tick -> TickState] /\ o \in Op /\ GoodTick(tick[s])
      /\ UNCHANGED <<op, late>> /\ GoodRow(o) /\ queue[o] \in SUBSET Entry
      /\ BatchSize \in Nat
      /\ \/ PopBatch(s) /\ tick[s].pc = "pop"
         \/ DrainPop(s) /\ tick[s].pc = "drain"
  BY Bounds DEF IInv, TypeOK, StoreTypeOK, ProcTypeOK, PopBatch, DrainPop, At, AtWork, Working,
     LockInv
<1>1. GoodRow(o)'
  BY <1>0 DEF GoodRow, Agrees, LateRow
<1>2. CASE Leave(s)
  BY <1>0, <1>1, <1>2, LeavesGood
<1>3. CASE \/ Goto(s, "finalize") /\ tick[s].pc = "pop"
           \/ Goto(s, "cancel") /\ tick[s].pc = "drain"
  <2>1. Works(tick[s])
    BY <1>0 DEF Works
  <2> QED
    BY <1>0, <1>1, <1>3, <2>1, GotoGood
<1>4. ASSUME NEW pc, tick' = [tick EXCEPT ![s].pc = pc, ![s].todo = Front(queue[o], BatchSize)],
             \/ pc = "execute" /\ tick[s].pc = "pop"
             \/ pc = "record" /\ tick[s].pc = "drain"
      PROVE  GoodTick(tick[s])'
  <2>1. PICK t, u : t = tick[s] /\ u = tick'[s]
    OBVIOUS
  <2>2. PICK batch : batch = Front(queue[o], BatchSize)
    OBVIOUS
  <2>3. /\ u.pc = pc /\ u.op = t.op /\ u.todo = batch /\ u.done = t.done
        /\ u.drained = t.drained
    BY <1>0, <1>4, <2>1, <2>2 DEF TickState
  <2>4. Cardinality(batch) <= BatchSize /\ Cardinality(batch) \in Nat
    BY <1>0, <2>2, FrontSize, FS_CardinalityType
  <2>5. /\ t.op = o /\ t.done = {}
        /\ Active(o) \/ op[o].status = "DELETED"
        /\ pc = "execute" => t.drained = 0 /\ late[o] = 0
        /\ pc = "record" => op[o].cancelRequested
    BY <1>0, <1>4, <2>1 DEF GoodTick, Tidy, Works, Live, Told, InTime
  <2> QED
    BY <1>0, <1>4, <2>1, <2>3, <2>4, <2>5 DEF GoodTick, Tidy, Works, Live, Active, Told, InTime
<1>5. \/ Leave(s)
      \/ Goto(s, "finalize") /\ tick[s].pc = "pop"
      \/ Goto(s, "cancel") /\ tick[s].pc = "drain"
      \/ \E pc : /\ tick' = [tick EXCEPT ![s].pc = pc, ![s].todo = Front(queue[o], BatchSize)]
                 /\ \/ pc = "execute" /\ tick[s].pc = "pop"
                    \/ pc = "record" /\ tick[s].pc = "drain"
  BY <1>0 DEF PopBatch, DrainPop
<1> QED
  BY <1>1, <1>2, <1>3, <1>4, <1>5

\* A change after the cancel uses up one entry of the batch.
LEMMA ExecuteGood ==
    ASSUME IInv, LockInv, NEW s \in Tick, NEW outcome, NEW effect,
           ExecuteItem(s, outcome, effect), NEW o, o = tick[s].op
    PROVE  GoodTick(tick[s])' /\ (o \in Op => GoodRow(o)')
<1>0. /\ tick \in [Tick -> TickState] /\ late \in [Op -> Nat] /\ o \in Op
      /\ tick[s].pc = "execute" /\ UNCHANGED op /\ GoodTick(tick[s]) /\ GoodRow(o)
      /\ BatchSize \in Nat
  BY Bounds DEF IInv, TypeOK, StoreTypeOK, ProcTypeOK, ExecuteItem, At, AtWork, Working, LockInv
<1>1. PICK k \in tick[s].todo :
        tick' = [tick EXCEPT
              ![s].todo = @ \ {k},
              ![s].done = @ \cup {[entry |-> k, outcome |-> outcome]}]
  BY DEF ExecuteItem
<1>2. PICK t, u : t = tick[s] /\ u = tick'[s]
  OBVIOUS
<1>3. /\ u.pc = "execute" /\ u.op = o /\ u.todo = t.todo \ {k} /\ u.drained = t.drained
  BY <1>0, <1>1, <1>2 DEF TickState
<1>4. /\ t.op = o /\ t.pc = "execute" /\ t.drained = 0
      /\ Active(o) \/ op[o].status = "DELETED"
      /\ late[o] + Cardinality(t.todo) <= BatchSize
  BY <1>0, <1>2 DEF GoodTick, Tidy, Works, Live, InTime
<1>5. /\ Cardinality(t.todo) \in Nat /\ Cardinality(u.todo) = Cardinality(t.todo) - 1
      /\ Cardinality(u.todo) \in Nat
  <2>1. t.todo \in SUBSET Entry /\ k \in t.todo
    BY <1>0, <1>2 DEF TickState
  <2>2. IsFiniteSet(t.todo)
    BY <2>1, EntriesFinite
  <2>3. IsFiniteSet(t.todo \ {k}) /\ Cardinality(t.todo \ {k}) = Cardinality(t.todo) - 1
    BY <2>1, <2>2, FS_RemoveElement
  <2> QED
    BY <1>3, <2>2, <2>3, FS_CardinalityType
<1>6. /\ late'[o] \in {late[o], late[o] + 1}
      /\ late'[o] # late[o] => op[o].cancelRequested
  BY <1>0 DEF ExecuteItem
<1>7. late'[o] + Cardinality(u.todo) <= BatchSize /\ late'[o] <= BatchSize /\ late'[o] \in Nat
  BY <1>0, <1>4, <1>5, <1>6
<1>8. GoodTick(tick[s])'
  BY <1>0, <1>2, <1>3, <1>4, <1>7 DEF GoodTick, Tidy, Works, Live, Active, Told, InTime
<1>9. GoodRow(o)'
  BY <1>0, <1>4, <1>6, <1>7 DEF GoodRow, Agrees, LateRow, Active, ActiveStatus
<1> QED
  BY <1>8, <1>9

LEMMA CommitGood ==
    ASSUME IInv, LockInv, NEW s \in Tick, CommitBatch(s), NEW o, o = tick[s].op
    PROVE  GoodTick(tick[s])' /\ (o \in Op => GoodRow(o)')
<1>0. /\ ProcTypeOK /\ tick \in [Tick -> TickState] /\ op \in [Op -> OpRow] /\ o \in Op
      /\ tick[s].pc = "execute" /\ tick[s].todo = {} /\ UNCHANGED late
      /\ GoodTick(tick[s]) /\ GoodRow(o)
  BY DEF IInv, TypeOK, StoreTypeOK, ProcTypeOK, CommitBatch, At, AtWork, Working, LockInv
<1>1. CASE /\ Exists(o)
           /\ op' = [op EXCEPT ![o] = CountBatch(@, tick[s].done)]
           /\ tick' = [tick EXCEPT ![s].pc = "reread", ![s].done = {}]
  <2>1. PICK row, next : row = op[o] /\ next = CountBatch(row, tick[s].done)
    OBVIOUS
  <2>2. op'[o] = next /\ row \in OpRow
    BY <1>0, <1>1, <2>1
  <2>3. next.status = row.status /\ next.cancelRequested = row.cancelRequested
    BY <2>1, <2>2 DEF CountBatch, OpRow
  <2>4. PICK t, u : t = tick[s] /\ u = tick'[s]
    OBVIOUS
  <2>5. /\ u.pc = "reread" /\ u.op = o /\ u.todo = {} /\ u.done = {} /\ u.drained = t.drained
    BY <1>0, <1>1, <2>4 DEF TickState
  <2>6. t.drained = 0 /\ row.status \in ActiveStatus
    BY <1>0, <1>1, <2>1, <2>4
       DEF GoodTick, Tidy, Works, Live, Exists, Active, Terminal, TerminalStatus
  <2>7. GoodTick(tick[s])'
    BY <2>2, <2>3, <2>4, <2>5, <2>6 DEF GoodTick, Tidy, Works, Live, Active, Told, InTime
  <2>8. GoodRow(o)'
    BY <1>0, <2>1, <2>2, <2>3, <2>6 DEF GoodRow, Agrees, LateRow, ActiveStatus
  <2> QED
    BY <2>7, <2>8
<1>2. CASE Leave(s) /\ UNCHANGED op
  BY <1>0, <1>2, LeavesGood DEF GoodRow, Agrees, LateRow
<1> QED
  BY <1>1, <1>2 DEF CommitBatch

LEMMA RereadGood ==
    ASSUME IInv, LockInv, NEW s \in Tick, Reread(s), NEW o, o = tick[s].op
    PROVE  GoodTick(tick[s])' /\ (o \in Op => GoodRow(o)')
<1>0. /\ ProcTypeOK /\ tick \in [Tick -> TickState]
      /\ tick[s].pc = "reread" /\ UNCHANGED <<op, late>> /\ GoodTick(tick[s])
  BY DEF IInv, TypeOK, ProcTypeOK, Reread, storeVars, At, LockInv
<1>1. o \in Op => GoodRow(o)'
  BY <1>0 DEF LockInv, GoodRow, Agrees, LateRow
<1>2. CASE Leave(s)
  BY <1>0, <1>1, <1>2, LeavesGood
<1>3. CASE op[o].cancelRequested /\ Goto(s, "drain")
  <2>1. Works(tick[s])
    BY <1>0 DEF Works
  <2> QED
    BY <1>0, <1>1, <1>3, <2>1, GotoGood
<1>4. CASE tick' = [tick EXCEPT ![s] = FinalizeFresh(@, op[o])]
  <2>1. PICK t, u : t = tick[s] /\ u = FinalizeFresh(t, op[o])
    OBVIOUS
  <2>2. tick'[s] = u
    BY <1>0, <1>4, <2>1
  <2>3. /\ u.pc = "finalize" /\ u.op = o /\ u.todo = t.todo /\ u.done = t.done
        /\ u.drained = t.drained /\ u.verdict = FinalStatus(op[o])
    BY <1>0, <2>1 DEF FinalizeFresh, TickState
  <2>4. GoodTick(t) /\ t.pc = "reread" /\ t.op = o
    BY <1>0, <2>1
  <2>5. GoodTick(tick[s])'
    BY <1>0, <2>2, <2>3, <2>4 DEF GoodTick, Tidy, Works, Live, Active, Told, InTime
  <2> QED
    BY <1>1, <2>5
<1> QED
  BY <1>2, <1>3, <1>4 DEF Reread

\* finalize writes the verdict of the row as it is.
LEMMA FinalizeGood ==
    ASSUME IInv, LockInv, NEW s \in Tick, Finalize(s), NEW o, o = tick[s].op
    PROVE  GoodTick(tick[s])' /\ (o \in Op => GoodRow(o)')
<1>0. /\ ProcTypeOK /\ op \in [Op -> OpRow] /\ o \in Op /\ tick[s].pc = "finalize"
      /\ UNCHANGED late /\ Leave(s) /\ GoodTick(tick[s]) /\ GoodRow(o)
  BY DEF IInv, TypeOK, StoreTypeOK, Finalize, At, AtWork, Working, LockInv
<1>1. CASE op' = [op EXCEPT ![o].status = tick[s].verdict]
  <2>1. PICK row, next : row = op[o] /\ next = [row EXCEPT !.status = tick[s].verdict]
    OBVIOUS
  <2>2. op'[o] = next /\ row \in OpRow
    BY <1>0, <1>1, <2>1
  <2>3. /\ next.status = tick[s].verdict /\ next.cancelRequested = row.cancelRequested
        /\ Counters(next) = Counters(row)
    BY <2>1, <2>2 DEF OpRow, Counters
  <2>4. FinalStatus(next) = FinalStatus(row)
    BY <2>3, SameVerdict
  <2>5. /\ tick[s].verdict = FinalStatus(row)
        /\ FinalStatus(row) \in {"SUCCEEDED", "PARTIAL", "FAILED"}
    BY <1>0, <2>1, <2>2, VerdictType DEF GoodTick, Told
  <2>6. GoodRow(o)'
    BY <1>0, <2>1, <2>2, <2>3, <2>4, <2>5 DEF GoodRow, Agrees, LateRow
  <2> QED
    BY <1>0, <2>6, LeavesGood
<1>2. CASE UNCHANGED op
  BY <1>0, <1>2, LeavesGood DEF GoodRow, Agrees, LateRow
<1> QED
  BY <1>1, <1>2 DEF Finalize

LEMMA RecordGood ==
    ASSUME IInv, LockInv, NEW s \in Tick, DrainRecord(s), NEW o, o = tick[s].op
    PROVE  GoodTick(tick[s])' /\ (o \in Op => GoodRow(o)')
<1>0. /\ ProcTypeOK /\ tick \in [Tick -> TickState]
      /\ tick[s].pc = "record" /\ UNCHANGED <<op, late>> /\ GoodTick(tick[s])
  BY DEF IInv, TypeOK, ProcTypeOK, DrainRecord, At, LockInv
<1>1. o \in Op => GoodRow(o)'
  BY <1>0 DEF LockInv, GoodRow, Agrees, LateRow
<1>2. CASE Leave(s)
  BY <1>0, <1>1, <1>2, LeavesGood
<1>3. CASE tick' = [tick EXCEPT ![s].pc = "drain", ![s].todo = {},
                                ![s].drained = @ + Cardinality(tick[s].todo)]
  <2>1. PICK t, u : t = tick[s] /\ u = tick'[s]
    OBVIOUS
  <2>2. u.pc = "drain" /\ u.op = o /\ u.todo = {} /\ u.done = t.done
    BY <1>0, <1>3, <2>1 DEF TickState
  <2>3. GoodTick(t) /\ t.pc = "record" /\ t.op = o
    BY <1>0, <2>1
  <2>4. GoodTick(tick[s])'
    BY <1>0, <2>1, <2>2, <2>3 DEF GoodTick, Tidy, Works, Live, Active, Told, InTime
  <2> QED
    BY <1>1, <2>4
<1> QED
  BY <1>2, <1>3 DEF DrainRecord

LEMMA CancelGood ==
    ASSUME IInv, LockInv, NEW s \in Tick, CancelOp(s), NEW o, o = tick[s].op
    PROVE  GoodTick(tick[s])' /\ (o \in Op => GoodRow(o)')
<1>0. /\ ProcTypeOK /\ op \in [Op -> OpRow] /\ o \in Op /\ tick[s].pc = "cancel"
      /\ UNCHANGED late /\ Leave(s) /\ GoodTick(tick[s]) /\ GoodRow(o)
  BY DEF IInv, TypeOK, StoreTypeOK, CancelOp, At, AtWork, Working, LockInv
<1>1. CASE op' = [op EXCEPT ![o].status = "CANCELLED",
                            ![o].skipped = @ + tick[s].drained,
                            ![o].processed = @ + tick[s].drained]
  <2>1. PICK row, next : /\ row = op[o]
                         /\ next = [row EXCEPT !.status = "CANCELLED",
                                               !.skipped = @ + tick[s].drained,
                                               !.processed = @ + tick[s].drained]
    OBVIOUS
  <2>2. op'[o] = next /\ row \in OpRow
    BY <1>0, <1>1, <2>1
  <2>3. next.status = "CANCELLED" /\ next.cancelRequested = row.cancelRequested
    BY <2>1, <2>2 DEF OpRow
  <2>4. row.cancelRequested
    BY <1>0, <2>1 DEF GoodTick, Told
  <2>5. GoodRow(o)'
    BY <1>0, <2>1, <2>2, <2>3, <2>4 DEF GoodRow, Agrees, LateRow
  <2> QED
    BY <1>0, <2>5, LeavesGood
<1>2. CASE UNCHANGED op
  BY <1>0, <1>2, LeavesGood DEF GoodRow, Agrees, LateRow
<1> QED
  BY <1>1, <1>2 DEF CancelOp

LEMMA OtherGood ==
    ASSUME IInv, LockInv, NEW s \in Tick, NEW o, o = tick[s].op,
           AcquireLock(s) \/ ReleaseLock(s) \/ TickThrows(s) \/ KillTick(s)
    PROVE  GoodTick(tick[s])' /\ (o \in Op => GoodRow(o)')
<1>0. /\ ProcTypeOK /\ UNCHANGED <<op, late>> /\ GoodTick(tick[s])
  BY DEF IInv, TypeOK, LockInv, AcquireLock, ReleaseLock, TickThrows, KillTick
<1>1. o \in Op => GoodRow(o)'
  BY <1>0 DEF LockInv, GoodRow, Agrees, LateRow
<1>2. CASE ReleaseLock(s) \/ TickThrows(s) \/ KillTick(s)
  <2>1. Leave(s) \/ tick' = [tick EXCEPT ![s] = IdleTick]
    BY <1>2 DEF ReleaseLock, TickThrows, KillTick
  <2> QED
    BY <1>0, <1>1, <2>1, LeavesGood
<1>3. CASE AcquireLock(s)
  <2>1. tick[s].pc = "idle" /\ (Goto(s, "select") \/ UNCHANGED tick)
    BY <1>3 DEF AcquireLock, At
  <2>2. PICK t, u : t = tick[s] /\ u = tick'[s]
    OBVIOUS
  <2>3. /\ u.op = t.op /\ u.todo = t.todo /\ u.done = t.done /\ u.drained = t.drained
        /\ u.pc \in {"idle", "select"}
    BY <1>0, <2>1, <2>2, Locals DEF Continues
  <2>4. u.op = 0 /\ u.todo = {} /\ u.done = {} /\ u.drained = 0
    BY <1>0, <2>1, <2>2, <2>3 DEF GoodTick, Tidy, Works
  <2>5. GoodTick(tick[s])'
    BY <2>2, <2>3, <2>4 DEF GoodTick, Tidy, Works, Live, Told, InTime
  <2> QED
    BY <1>1, <2>5
<1> QED
  BY <1>2, <1>3

-----------------------------------------------------------------------------
(* The invariant.                                                           *)

LEMMA InitLockInv == Init => LockInv
BY Bounds DEF Init, StoreInit, ProcInit, IdleTick, AbsentOp, LockInv, Holder, GoodTick, Tidy,
   Works, Live, Told, InTime, GoodRow, Agrees, LateRow

\* No other tick is at work while one takes a step.
LEMMA Alone ==
    ASSUME Holder, NEW s \in Tick, TickActs(s), NEW q \in Tick, q # s
    PROVE  ~Works(tick[q])
<1>1. CASE AcquireLock(s)
  <2>1. lock = None /\ None \notin Tick
    BY <1>1, ProcessorAssumption DEF AcquireLock, LockFree
  <2> QED
    BY <2>1 DEF Holder, Works
<1>2. CASE ~AcquireLock(s)
  <2>1. tick[s].pc # "idle"
    BY <1>2 DEF TickActs, At, SelectOp, StartOp, PopBatch, ExecuteItem, CommitBatch,
       Reread, Finalize, DrainPop, DrainRecord, CancelOp, ReleaseLock, TickThrows, KillTick
  <2> QED
    BY <2>1 DEF Holder, Works
<1> QED
  BY <1>1, <1>2

LEMMA TickKeepsLock ==
    ASSUME IInv, LockInv, NEW s \in Tick, TickActs(s)
    PROVE  LockInv'
<1>0. /\ StoreTypeOK /\ ProcTypeOK /\ AtWork /\ Holder
      /\ \A q \in Tick \ {s} : tick'[q] = tick[q]
  <2>1. StoreTypeOK /\ ProcTypeOK /\ AtWork /\ Holder
    BY DEF IInv, TypeOK, LockInv
  <2> QED
    BY <2>1, TickMoves DEF Moves
<1>1. PICK o : o = tick[s].op
  OBVIOUS
<1>2. UNCHANGED <<op, late>> => \A p \in Op : GoodRow(p)'
  BY DEF LockInv, GoodRow, Agrees, LateRow
<1>3. GoodTick(tick[s])' /\ (o \in Op => GoodRow(o)')
  <2>1. CASE SelectOp(s)
    BY <1>2, <2>1, SelectGood DEF SelectOp, storeVars
  <2>2. CASE StartOp(s)
    BY <1>1, <2>2, StartGood
  <2>3. CASE PopBatch(s) \/ DrainPop(s)
    BY <1>1, <2>3, PopGood
  <2>4. ASSUME NEW outcome, NEW effect, ExecuteItem(s, outcome, effect)
        PROVE  GoodTick(tick[s])' /\ (o \in Op => GoodRow(o)')
    BY <1>1, <2>4, ExecuteGood
  <2>5. CASE CommitBatch(s)
    BY <1>1, <2>5, CommitGood
  <2>6. CASE Reread(s)
    BY <1>1, <2>6, RereadGood
  <2>7. CASE Finalize(s)
    BY <1>1, <2>7, FinalizeGood
  <2>8. CASE DrainRecord(s)
    BY <1>1, <2>8, RecordGood
  <2>9. CASE CancelOp(s)
    BY <1>1, <2>9, CancelGood
  <2>10. CASE AcquireLock(s) \/ ReleaseLock(s) \/ TickThrows(s) \/ KillTick(s)
    BY <1>1, <2>10, OtherGood
  <2> QED
    BY <2>1, <2>2, <2>3, <2>4, <2>5, <2>6, <2>7, <2>8, <2>9, <2>10 DEF TickActs
<1>4. Holder'
  BY <1>0, TickHolds
<1>5. ASSUME NEW p \in Op, p # o PROVE op'[p] = op[p] /\ late'[p] = late[p]
  BY <1>0, <1>1, <1>5, TickFrame
<1>6. ASSUME NEW p \in Op PROVE GoodRow(p)'
  <2>1. CASE p # o
    BY <1>5, <2>1 DEF LockInv, GoodRow, Agrees, LateRow
  <2> QED
    BY <1>3, <2>1
<1>7. ASSUME NEW q \in Tick, q # s PROVE GoodTick(tick[q])'
  <2>1. tick'[q] = tick[q] /\ GoodTick(tick[q]) /\ ~Works(tick[q])
    BY <1>0, <1>7, Alone DEF LockInv
  <2> QED
    BY <2>1, GoodTickStays
<1> QED
  BY <1>3, <1>4, <1>6, <1>7 DEF LockInv

LEMMA NextKeepsLock ==
    ASSUME LockOutlives, IInv, LockInv, [Next]_vars
    PROVE  LockInv'
BY StepAside, TickKeepsLock, AsideKeepsLock, InsertKeepsLock

\* One tick at a time works on one operation, and what it has read still holds.
THEOREM LockInvariant ==
    ASSUME LockOutlives
    PROVE  Spec => []LockInv
<1>1. IInv /\ LockInv /\ [Next]_vars => LockInv'
  BY NextKeepsLock
<1> QED
  BY <1>1, InitLockInv, LedgerInvariant, PTL DEF Spec

\* While the lock outlives live ticks, a finished operation shows a status its
\* counters bear out, and CANCELLED only if its owner asked for it: the row that
\* finalize works on was read earlier and is not stale.
THEOREM StatusTheorem ==
    ASSUME LockOutlives
    PROVE  Spec => []StatusAgreesWithCounters
<1>1. IInv /\ LockInv => StatusAgreesWithCounters
  <2> SUFFICES ASSUME IInv, LockInv, NEW o \in Op
               PROVE  /\ op[o].status = "SUCCEEDED" => op[o].failed = 0
                      /\ op[o].status = "FAILED" => op[o].failed > 0 /\ op[o].succeeded = 0
                      /\ op[o].status = "PARTIAL" => (op[o].failed > 0 <=> op[o].succeeded > 0)
                      /\ op[o].status = "CANCELLED" => op[o].cancelRequested
    BY DEF StatusAgreesWithCounters
  <2>1. Agrees(o)
    BY DEF LockInv, GoodRow
  <2>2. op[o].failed \in Nat /\ op[o].succeeded \in Nat
    BY DEF IInv, TypeOK, StoreTypeOK, OpRow
  <2> QED
    BY <2>1, <2>2 DEF Agrees, FinalStatus
<1> QED
  BY <1>1, LedgerInvariant, LockInvariant, PTL

\* While the lock outlives live ticks, at most one batch of entries changes
\* issues after cancel_requested is set, crashes and recovery included.
THEOREM CancelTheorem ==
    ASSUME LockOutlives
    PROVE  Spec => []CancelBoundsWork
<1>1. LockInv => CancelBoundsWork
  BY DEF LockInv, GoodRow, LateRow, CancelBoundsWork
<1> QED
  BY <1>1, LockInvariant, PTL

-----------------------------------------------------------------------------
(* Finished operations.                                                     *)

Final(row, next) ==
    \/ next.status = "DELETED"
    \/ [next EXCEPT !.cancelRequested = row.cancelRequested] = row

LEMMA TouchedFinal ==
    ASSUME NEW row \in OpRow, row.status \in TerminalStatus, NEW next, Touched(row, next)
    PROVE  Final(row, next)
<1>1. \/ next.status = "DELETED"
      \/ next = row
      \/ next = [row EXCEPT !.cancelRequested = TRUE]
  BY TouchedFacts
<1>2. CASE next = row \/ next = [row EXCEPT !.cancelRequested = TRUE]
  <2>1. [next EXCEPT !.cancelRequested = row.cancelRequested] = row
    BY <1>2 DEF OpRow
  <2> QED
    BY <2>1 DEF Final
<1> QED
  BY <1>1, <1>2 DEF Final

\* A tick does not write the row of a finished operation: its own is not
\* finished, and it writes no other.
LEMMA TickLeavesFinal ==
    ASSUME IInv, LockInv, NEW s \in Tick, TickActs(s), NEW o \in Op, Terminal(o)
    PROVE  op'[o] = op[o]
<1>0. StoreTypeOK
  BY DEF IInv, TypeOK
<1>1. CASE o # tick[s].op
  BY <1>0, <1>1, TickFrame
<1>2. CASE o = tick[s].op
  <2>1. ~Works(tick[s])
    BY <1>2 DEF LockInv, GoodTick, Live, Active, ActiveStatus, Terminal, TerminalStatus
  <2>2. ~(StartOp(s) \/ Finalize(s) \/ CommitBatch(s) \/ CancelOp(s))
    BY <2>1 DEF Works, StartOp, Finalize, CommitBatch, CancelOp, At
  <2> QED
    BY <2>2 DEF TickActs, storeVars, AcquireLock, SelectOp, PopBatch, ExecuteItem, Reread,
       DrainPop, DrainRecord, ReleaseLock, TickThrows, KillTick
<1> QED
  BY <1>1, <1>2

LEMMA NextKeepsFinal ==
    ASSUME LockOutlives, IInv, LockInv, [Next]_vars, NEW o \in Op, Terminal(o)
    PROVE  Final(op[o], op'[o])
<1>0. op[o] \in OpRow /\ op[o].status \in TerminalStatus
  BY DEF IInv, TypeOK, StoreTypeOK, Terminal
<1>1. PICK row, next : row = op[o] /\ next = op'[o]
  OBVIOUS
<1>2. Touched(row, next)
  <2>1. CASE \E s \in Tick : TickActs(s)
    BY <1>1, <2>1, TickLeavesFinal DEF Touched
  <2>2. CASE Aside
    BY <1>1, <2>2 DEF Aside
  <2>3. ASSUME NEW r \in Req, NEW n \in Op, Inserts(r, n)
        PROVE  Touched(row, next)
    BY <1>0, <1>1, <2>3 DEF Inserts, TerminalStatus, Touched
  <2> QED
    BY <2>1, <2>2, <2>3, StepAside
<1> QED
  BY <1>0, <1>1, <1>2, TouchedFinal

\* While the lock outlives live ticks, a finished operation keeps its status and
\* its counters until retention purges it, although the processor writes by id.
THEOREM TerminalTheorem ==
    ASSUME LockOutlives
    PROVE  Spec => TerminalIsFinal
<1>1. IInv /\ LockInv /\ [Next]_vars =>
        [\A o \in Op : Terminal(o) =>
           \/ op'[o].status = "DELETED"
           \/ [op'[o] EXCEPT !.cancelRequested = op[o].cancelRequested] = op[o]]_vars
  BY NextKeepsFinal DEF Final
<1> QED
  BY <1>1, LedgerInvariant, LockInvariant, PTL DEF Spec, TerminalIsFinal

-----------------------------------------------------------------------------
(* Without failures nothing is lost: the entries of an operation are        *)
(* processed, queued, or in the hands of the tick that works on it.         *)

InHands(t) == t.drained + Cardinality(t.todo) + Cardinality(t.done)

\* All entries of o are accounted for, with n of them in the hands of a tick.
AddsUp(o, n) == op[o].processed + Cardinality(queue[o]) + n = op[o].total

AllOrNothing(row, n) == row.processed + n \in {0, row.total}

Closing(t) ==
    /\ t.pc = "finalize" => AllOrNothing(op[t.op], 0)
    /\ t.pc = "cancel" => AllOrNothing(op[t.op], t.drained)

NoRollback == \A r \in Req : req[r].pc # "rollback"

Faultless ==
    faults = 0 =>
      /\ NoRollback
      /\ \A s \in Tick : Closing(tick[s]) /\ (Works(tick[s]) => Active(tick[s].op))
      /\ \A o \in Op :
           /\ Terminal(o) => AllOrNothing(op[o], 0)
           /\ Active(o) /\ ~Fresh(o) =>
                /\ \A s \in Tick : tick[s].op = o => AddsUp(o, InHands(tick[s]))
                /\ (\A s \in Tick : tick[s].op # o) => AddsUp(o, 0)

LEMMA Sizes ==
    ASSUME IInv
    PROVE  /\ \A o \in Op : IsFiniteSet(queue[o]) /\ Cardinality(queue[o]) \in Nat
           /\ \A s \in Tick : /\ IsFiniteSet(tick[s].todo) /\ Cardinality(tick[s].todo) \in Nat
                             /\ IsFiniteSet(tick[s].done) /\ Cardinality(tick[s].done) \in Nat
                             /\ InHands(tick[s]) \in Nat
<1>0. StoreTypeOK /\ ProcTypeOK /\ TickCustody
  BY DEF IInv, TypeOK, Ledger
<1>1. ASSUME NEW o \in Op PROVE IsFiniteSet(queue[o]) /\ Cardinality(queue[o]) \in Nat
  <2>1. queue[o] \in SUBSET Entry
    BY <1>0 DEF StoreTypeOK
  <2> QED
    BY <2>1, EntriesFinite, FS_CardinalityType
<1>2. ASSUME NEW s \in Tick
      PROVE  /\ IsFiniteSet(tick[s].todo) /\ Cardinality(tick[s].todo) \in Nat
             /\ IsFiniteSet(tick[s].done) /\ Cardinality(tick[s].done) \in Nat
             /\ tick[s].drained \in Nat
  <2>1. /\ tick[s].todo \in SUBSET Entry /\ tick[s].drained \in Nat
        /\ \A d \in tick[s].done : d.entry \in Entry
    BY <1>0 DEF ProcTypeOK, TickState
  <2>2. \A d, e \in tick[s].done : d.entry = e.entry => d = e
    BY <1>0 DEF TickCustody, CustodyOf
  <2>3. IsFiniteSet(tick[s].done)
    BY <2>1, <2>2, UniqueFinite
  <2> QED
    BY <2>1, <2>3, EntriesFinite, FS_CardinalityType
<1> QED
  BY <1>1, <1>2 DEF InHands

\* Before RPUSH nothing is counted.
LEMMA FreshUncounted ==
    ASSUME IInv, CountInv, NEW o \in Op, Active(o), Fresh(o)
    PROVE  /\ op[o].processed = 0 /\ queue[o] = {}
           /\ \A s \in Tick : tick[s].op = o => InHands(tick[s]) = 0 /\ tick[s].drained = 0
<1>1. EmptyOf(o)
  BY DEF IInv, Ledger, FreshEmpty
<1>2. PICK C, D : Books(o, C, D)
  BY DEF CountInv, Balanced, Tracked
<1>3. C = {}
  <2> SUFFICES ASSUME NEW c \in C PROVE FALSE
    OBVIOUS
  <2>1. c.entry \in Entry
    BY <1>2 DEF Books, Behind, Result
  <2> QED
    BY <1>1, <1>2, <2>1 DEF Books, Behind, EmptyOf
<1>4. \A s \in Tick : tick[s].op = o => D[s] = {} /\ tick[s].drained = Cardinality(D[s])
  BY <1>1, <1>2 DEF Books, Drained, Of, EmptyOf
<1>5. \A s \in Tick : tick[s].op = o =>
         tick[s].drained = 0 /\ Cardinality(tick[s].todo) = 0 /\ Cardinality(tick[s].done) = 0
  BY <1>1, <1>4, FS_EmptySet DEF EmptyOf
<1>6. op[o].processed = 0
  BY <1>2, <1>3, FS_EmptySet DEF Books, Tally
<1> QED
  BY <1>1, <1>5, <1>6 DEF EmptyOf, InHands

LEMMA NoFault == faults \in Nat /\ faults' = 0 => ~Fault
BY DEF Fault

\* A step of a request or of a cron job other than the tick, without a failure:
\* the only way from fresh to not fresh is the RPUSH.
Clean ==
    /\ UNCHANGED <<tick, scope>> /\ NoRollback' /\ faults = 0
    /\ \A o \in Op :
         /\ Touched(op[o], op'[o])
         /\ Active(o) => op'[o].status # "DELETED"
         /\ \/ queue'[o] = queue[o] /\ (Fresh(o)' <=> Fresh(o))
            \/ Fresh(o) /\ queue'[o] = 1..Len(scope[o])

LEMMA CleanRequest ==
    ASSUME TypeOK, NoRollback, faults' = 0, NEW r \in Req, Begins(r) \/ Proceeds(r),
           UNCHANGED procVars, ~\E n \in Op : Inserts(r, n)
    PROVE  Clean
<1>0. /\ queue \in [Op -> SUBSET Entry] /\ faults \in Nat /\ UNCHANGED tick
      /\ req \in [Req -> ReqState]
  BY Bounds DEF TypeOK, StoreTypeOK, IntakeTypeOK, procVars
<1>1. /\ RowsKept /\ \A q \in Req \ {r} : req'[q] = req[q]
      /\ Starts(r) \/ Advances(r) \/ Dies(r)
  BY RequestCases
<1>2. InsertOp(r) => KeyTaken(req[r].user, req[r].key)
  BY InsertsRow
<1>3. Aside
  BY <1>2, RequestAside
<1>4. ~Fault /\ ~Rollback(r) /\ ~KillRequest(r)
  BY <1>0, NoFault DEF NoRollback, Rollback, KillRequest, AtReq
<1>5. faults = 0
  BY <1>0, <1>4 DEF storeVars, Begins, Proceeds, BeginCreate, ConsumeToken, CheckQuota, InsertOp,
     Refetch, PushQueue, BeginRetry, ReadRows, LookupRetry, BeginCancel, SetCancel
<1>6. ASSUME NEW o \in Op, Active(o) PROVE op'[o].status # "DELETED"
  <2>1. op[o].status \notin {"ABSENT", "DELETED"}
    BY <1>6 DEF Active, ActiveStatus
  <2>2. op'[o] = op[o] \/ (SetCancel(r) /\ Exists(req[r].op))
    BY <1>2, <1>4 DEF storeVars, Begins, Proceeds, BeginCreate, ConsumeToken, CheckQuota, InsertOp,
       Refetch, PushQueue, BeginRetry, ReadRows, LookupRetry, BeginCancel, SetCancel
  <2>3. CASE SetCancel(r) /\ Exists(req[r].op)
    <3>1. op' = [op EXCEPT ![req[r].op].cancelRequested = TRUE]
      BY <2>3 DEF SetCancel
    <3>2. PICK row, next : row = op[o] /\ next = [row EXCEPT !.cancelRequested = TRUE]
      OBVIOUS
    <3>3. op \in [Op -> OpRow] /\ row \in OpRow
      BY <3>2 DEF TypeOK, StoreTypeOK
    <3>4. op'[o] \in {row, next}
      BY <3>1, <3>2, <3>3
    <3>5. next.status = row.status
      BY <3>2, <3>3 DEF OpRow
    <3> QED
      BY <2>1, <3>2, <3>4, <3>5
  <2> QED
    BY <2>1, <2>2, <2>3
<1>7. \A o \in Op : op'[o].status = "ABSENT" <=> op[o].status = "ABSENT"
  BY <1>1 DEF RowsKept
<1>8. CASE PushQueue(r)
  <2>1. /\ req[r].pc = "push" /\ req'[r].pc = "done"
        /\ queue' = [queue EXCEPT ![req[r].op] = 1..Len(scope[req[r].op])]
    <3>1. /\ req[r].pc = "push" /\ Reply(r, 201, req[r].op)
          /\ queue' = [queue EXCEPT ![req[r].op] = 1..Len(scope[req[r].op])]
      BY <1>4, <1>8 DEF PushQueue, AtReq
    <3>2. req'[r].pc = "done"
      <4>1. {"pc", "op", "answer", "ids"} \subseteq DOMAIN req[r]
        BY <1>0 DEF ReqState
      <4> QED
        BY <1>0, <3>1, <4>1 DEF Reply
    <3> QED
      BY <3>1, <3>2
  <2>2. ASSUME NEW o \in Op
        PROVE  \/ queue'[o] = queue[o] /\ (Fresh(o)' <=> Fresh(o))
               \/ Fresh(o) /\ queue'[o] = 1..Len(scope[o])
    <3>1. CASE o = req[r].op
      BY <1>0, <2>1, <3>1 DEF Fresh
    <3>2. CASE o # req[r].op
      BY <1>0, <1>1, <1>7, <2>1, <3>2 DEF Fresh
    <3> QED
      BY <3>1, <3>2
  <2>3. NoRollback'
    BY <1>1, <2>1 DEF NoRollback
  <2> QED
    BY <1>0, <1>1, <1>3, <1>5, <1>6, <2>2, <2>3 DEF Clean, Aside, RowsKept
<1>9. CASE ~PushQueue(r)
  <2>1. req[r].pc # "push" /\ UNCHANGED queue
    BY <1>4, <1>9 DEF AtReq, storeVars, Begins, Proceeds, BeginCreate, ConsumeToken, CheckQuota,
       InsertOp, Refetch, BeginRetry, ReadRows, LookupRetry, BeginCancel, SetCancel
  <2>2. req'[r].pc # "push" /\ req'[r].pc # "rollback"
    BY <1>1, <2>1 DEF Starts, Advances, Dies, IdleReq
  <2>3. \A o \in Op : Fresh(o)' <=> Fresh(o)
    BY <1>1, <1>7, <2>1, <2>2 DEF Fresh
  <2>4. NoRollback'
    BY <1>1, <2>2 DEF NoRollback
  <2> QED
    BY <1>0, <1>1, <1>3, <1>5, <1>6, <2>1, <2>3, <2>4 DEF Clean, Aside, RowsKept
<1> QED
  BY <1>8, <1>9

LEMMA CleanCron ==
    ASSUME LockOutlives, TypeOK, NoRollback, faults' = 0, JobActs, UNCHANGED intakeVars
    PROVE  Clean
<1>0. /\ Aside /\ RowsKept /\ NoRollback' /\ faults = 0 /\ UNCHANGED <<req, queue, tick>>
  <2>1. Aside
    BY CronAside
  <2>2. StoreTypeOK
    BY DEF TypeOK
  <2>3. RowsKept
    BY <2>2, CronRows DEF JobActs
  <2>4. faults = 0 /\ UNCHANGED <<req, queue, tick>>
    BY DEF JobActs, LockExpires, Recover, PurgeItems, PurgeOp, storeVars, intakeVars, procVars
  <2> QED
    BY <2>1, <2>3, <2>4 DEF NoRollback
<1>1. ASSUME NEW o \in Op, Active(o) PROVE op'[o].status # "DELETED"
  <2>0. op \in [Op -> OpRow] /\ op[o].status \in {"QUEUED", "RUNNING"} /\ ~Terminal(o)
    BY <1>1 DEF TypeOK, StoreTypeOK, Active, ActiveStatus, Terminal, TerminalStatus
  <2>1. ASSUME NEW p \in Op, PurgeOp(p) PROVE op'[o] = op[o]
    BY <2>0, <2>1 DEF PurgeOp, Forgotten
  <2>2. CASE Recover
    <3>1. PICK stale \in SUBSET {p \in Op : op[p].status = "RUNNING"} :
            op' = [p \in Op |-> IF p \in stale
                                THEN [op[p] EXCEPT !.status = "QUEUED"] ELSE op[p]]
      BY <2>2 DEF Recover
    <3>2. PICK row, next : row = op[o] /\ next = [row EXCEPT !.status = "QUEUED"]
      OBVIOUS
    <3>3. op'[o] \in {row, next}
      BY <3>1, <3>2
    <3>4. next.status = "QUEUED"
      BY <2>0, <3>2 DEF OpRow
    <3> QED
      BY <2>0, <3>2, <3>3, <3>4
  <2>3. CASE LockExpires \/ \E p \in Op : PurgeItems(p)
    BY <2>0, <2>3 DEF LockExpires, PurgeItems, storeVars
  <2> QED
    BY <2>0, <2>1, <2>2, <2>3 DEF JobActs
<1>2. \A o \in Op : Fresh(o)' <=> Fresh(o)
  BY <1>0 DEF RowsKept, Fresh
<1> QED
  BY <1>0, <1>1, <1>2 DEF Clean, Aside, RowsKept

LEMMA CleanKeeps ==
    ASSUME IInv, CountInv, Faultless, Clean
    PROVE  Faultless'
<1>0. /\ op \in [Op -> OpRow] /\ scope \in [Op -> Seq(Issue)] /\ AtWork /\ UNCHANGED tick
      /\ NoRollback' /\ faults = 0
  BY DEF IInv, TypeOK, StoreTypeOK, Clean
<1>1. \A o \in Op : /\ op'[o].processed = op[o].processed /\ op'[o].total = op[o].total
                    /\ Active(o)' => Active(o)
                    /\ Active(o) => Active(o)'
                    /\ Terminal(o)' => Terminal(o)
  <2>1. ASSUME NEW o \in Op, NEW row, NEW next, row = op[o], next = op'[o]
        PROVE  row \in OpRow /\ Touched(row, next)
    BY <1>0, <2>1 DEF Clean
  <2> QED
    BY <2>1, TouchedFacts DEF Clean, Active, Terminal, Counters, Columns
<1>2. \A s \in Tick : /\ Works(tick[s]) => tick[s].op \in Op /\ Active(tick[s].op)
                      /\ Closing(tick[s])
  BY <1>0 DEF AtWork, Working, Works, Faultless
<1>3. ASSUME NEW s \in Tick PROVE Closing(tick[s])' /\ (Works(tick[s]) => Active(tick[s].op))'
  <2>1. PICK t : t = tick[s] /\ t = tick'[s]
    BY <1>0
  <2>2. CASE Works(t)
    BY <1>1, <1>2, <2>1, <2>2 DEF Closing, AllOrNothing, Works
  <2>3. CASE ~Works(t)
    BY <2>1, <2>3 DEF Closing, Works
  <2> QED
    BY <2>2, <2>3
<1>4. ASSUME NEW o \in Op, Terminal(o)' PROVE AllOrNothing(op[o], 0)'
  BY <1>0, <1>1, <1>4 DEF Faultless, AllOrNothing
<1>5. ASSUME NEW o \in Op, Active(o)', ~Fresh(o)', NEW n \in Nat,
             ~Fresh(o) => AddsUp(o, n), Fresh(o) => n = 0
      PROVE  AddsUp(o, n)'
  <2>1. CASE queue'[o] = queue[o] /\ (Fresh(o)' <=> Fresh(o))
    BY <1>1, <1>5, <2>1 DEF AddsUp
  <2>2. CASE Fresh(o) /\ queue'[o] = 1..Len(scope[o])
    <3>1. op[o].processed = 0 /\ n = 0
      BY <1>1, <1>5, <2>2, FreshUncounted
    <3>2. op[o].total = Len(scope[o])
      BY <1>1, <1>5 DEF CountInv, Totals, Active, ActiveStatus
    <3>3. Len(scope[o]) \in Nat
      BY <1>0
    <3>4. Cardinality(1..Len(scope[o])) = Len(scope[o])
      BY <3>3, FS_Interval
    <3> QED
      BY <1>1, <2>2, <3>1, <3>2, <3>3, <3>4 DEF AddsUp
  <2> QED
    BY <2>1, <2>2 DEF Clean
<1>6. ASSUME NEW o \in Op, Active(o)', ~Fresh(o)'
      PROVE  /\ \A s \in Tick : tick'[s].op = o => AddsUp(o, InHands(tick[s]))'
             /\ (\A s \in Tick : tick'[s].op # o) => AddsUp(o, 0)'
  <2>1. Active(o)
    BY <1>1, <1>6
  <2>2. ASSUME NEW s \in Tick, tick[s].op = o PROVE AddsUp(o, InHands(tick[s]))'
    <3>1. PICK n : n = InHands(tick[s]) /\ n = InHands(tick'[s])
      BY <1>0
    <3>2. n \in Nat
      BY <3>1, Sizes
    <3>3. ~Fresh(o) => AddsUp(o, n)
      BY <1>0, <2>1, <2>2, <3>1 DEF Faultless
    <3>4. Fresh(o) => n = 0
      BY <2>1, <2>2, <3>1, FreshUncounted
    <3>5. AddsUp(o, n)'
      BY <1>5, <1>6, <3>2, <3>3, <3>4
    <3> QED
      BY <3>1, <3>5 DEF AddsUp
  <2>3. ASSUME \A s \in Tick : tick[s].op # o PROVE AddsUp(o, 0)'
    <3>1. ~Fresh(o) => AddsUp(o, 0)
      BY <1>0, <2>1, <2>3 DEF Faultless
    <3> QED
      BY <1>5, <1>6, <3>1
  <2> QED
    BY <1>0, <2>2, <2>3
<1> QED
  BY <1>0, <1>3, <1>4, <1>6 DEF Faultless

LEMMA InsertKeepsFaultless ==
    ASSUME IInv, CountInv, Faultless, NEW r \in Req, NEW n \in Op, Inserts(r, n),
           UNCHANGED procVars
    PROVE  Faultless'
<1>0. /\ AtWork /\ UNCHANGED <<tick, queue, faults>> /\ OnRows
      /\ \A p \in Op : p # n => op'[p] = op[p]
      /\ op[n].status = "ABSENT"
  BY DEF IInv, CountInv, Inserts, procVars
<1>1. Fresh(n)' /\ ~Terminal(n)' /\ \A p \in Op : Fresh(p) /\ p # n => Fresh(p)'
  BY DEF Inserts, Fresh, Terminal, TerminalStatus
<1>2. \A s \in Tick : tick[s].op # n
  BY <1>0 DEF OnRows, Op
<1>3. NoRollback => NoRollback'
  BY DEF NoRollback, Inserts
<1>4. ASSUME NEW s \in Tick, faults = 0
      PROVE  Closing(tick[s])' /\ (Works(tick[s]) => Active(tick[s].op))'
  <2>1. PICK t : t = tick[s] /\ t = tick'[s]
    BY <1>0
  <2>2. CASE Works(t)
    BY <1>0, <1>2, <1>4, <2>1, <2>2
       DEF Faultless, Closing, AllOrNothing, Works, AtWork, Working, Active
  <2>3. CASE ~Works(t)
    BY <2>1, <2>3 DEF Closing, Works
  <2> QED
    BY <2>2, <2>3
<1>5. ASSUME NEW o \in Op, o # n, faults = 0
      PROVE  /\ Terminal(o)' => AllOrNothing(op[o], 0)'
             /\ Active(o)' /\ ~Fresh(o)' =>
                  /\ \A s \in Tick : tick'[s].op = o => AddsUp(o, InHands(tick[s]))'
                  /\ (\A s \in Tick : tick'[s].op # o) => AddsUp(o, 0)'
  BY <1>0, <1>1, <1>5 DEF Faultless, Terminal, Active, AllOrNothing, AddsUp, InHands
<1> QED
  BY <1>0, <1>1, <1>3, <1>4, <1>5 DEF Faultless

\* What a step of the tick that works on o leaves: the row, the list, the tick.
Squared(o, row, list, u) ==
    /\ u.op \in {o, 0}
    /\ Works(u) => u.op = o /\ row.status \in ActiveStatus
    /\ u.pc = "finalize" => AllOrNothing(row, 0)
    /\ u.pc = "cancel" => AllOrNothing(row, u.drained)
    /\ row.status \in TerminalStatus => AllOrNothing(row, 0)
    /\ row.status \in ActiveStatus /\ ~Fresh(o) =>
         row.processed + Cardinality(list) + InHands(u) = row.total

\* What such a step starts from.
LEMMA OnDuty ==
    ASSUME IInv, CountInv, LockInv, Faultless, faults = 0,
           NEW s \in Tick, Works(tick[s]), NEW o, o = tick[s].op
    PROVE  /\ StoreTypeOK /\ ProcTypeOK /\ o \in Op /\ op \in [Op -> OpRow] /\ op[o] \in OpRow
           /\ tick \in [Tick -> TickState] /\ queue \in [Op -> SUBSET Entry]
           /\ Active(o) /\ Exists(o) /\ 0 # o
           /\ GoodTick(tick[s]) /\ Closing(tick[s])
           /\ InHands(tick[s]) \in Nat /\ Cardinality(queue[o]) \in Nat
           /\ \/ Fresh(o) /\ op[o].processed = 0 /\ queue[o] = {} /\ InHands(tick[s]) = 0
              \/ ~Fresh(o) /\ AddsUp(o, InHands(tick[s]))
           /\ op[o].total \in Nat /\ op[o].total <= MaxDrain
<1>1. /\ StoreTypeOK /\ ProcTypeOK /\ o \in Op /\ op \in [Op -> OpRow] /\ op[o] \in OpRow
      /\ tick \in [Tick -> TickState] /\ queue \in [Op -> SUBSET Entry]
      /\ scope \in [Op -> Seq(Issue)] /\ 0 # o
  BY DEF IInv, TypeOK, StoreTypeOK, ProcTypeOK, AtWork, Working, Works, Op
<1>2. Active(o) /\ Closing(tick[s]) /\ GoodTick(tick[s])
  BY DEF Faultless, LockInv
<1>3. \/ Fresh(o) /\ op[o].processed = 0 /\ queue[o] = {} /\ InHands(tick[s]) = 0
      \/ ~Fresh(o) /\ AddsUp(o, InHands(tick[s]))
  BY <1>1, <1>2, FreshUncounted DEF Faultless
<1>4. op[o].total \in Nat /\ op[o].total <= MaxDrain
  <2>1. op[o].total = Len(scope[o]) /\ Len(scope[o]) <= MaxScope /\ Len(scope[o]) \in Nat
    BY <1>1, <1>2 DEF CountInv, Totals, Active, ActiveStatus, IInv, Lengths
  <2>2. MaxScope <= MaxDrain
    BY StoreAssumption DEF StoreAssumption
  <2> QED
    BY <2>1, <2>2, Bounds
<1> QED
  BY <1>1, <1>2, <1>3, <1>4, Sizes DEF Exists

LEMMA LeaveSquared ==
    ASSUME IInv, CountInv, LockInv, Faultless, faults = 0,
           NEW s \in Tick, Works(tick[s]), NEW o, o = tick[s].op,
           Leave(s), InHands(tick[s]) = 0, op'[o] = op[o], queue'[o] = queue[o]
    PROVE  Squared(o, op'[o], queue'[o], tick'[s])
<1>1. /\ ProcTypeOK /\ op[o] \in OpRow /\ Active(o)
      /\ ~Fresh(o) => AddsUp(o, 0)
  BY OnDuty
<1>2. PICK u : u = tick'[s]
  OBVIOUS
<1>3. /\ u.op = 0 /\ u.pc = "release" /\ u.todo = {} /\ u.done = {} /\ u.drained = 0
  BY <1>1, <1>2, Locals DEF Rests
<1>4. InHands(u) = 0
  BY <1>3, FS_EmptySet DEF InHands
<1>5. op[o].status \notin TerminalStatus
  BY <1>1 DEF Active, ActiveStatus, TerminalStatus
<1> QED
  BY <1>1, <1>2, <1>3, <1>4, <1>5 DEF Squared, Works, AddsUp

LEMMA StartSquared ==
    ASSUME IInv, CountInv, LockInv, Faultless, faults = 0,
           NEW s \in Tick, Works(tick[s]), NEW o, o = tick[s].op, StartOp(s)
    PROVE  Squared(o, op'[o], queue'[o], tick'[s])
<1>1. /\ ProcTypeOK /\ o \in Op /\ op \in [Op -> OpRow] /\ op[o] \in OpRow /\ Exists(o)
      /\ ~Fresh(o) => AddsUp(o, InHands(tick[s]))
  BY OnDuty
<1>2. /\ op' = [op EXCEPT ![o].status = "RUNNING"] /\ Goto(s, "pop") /\ UNCHANGED queue
  BY <1>1 DEF StartOp
<1>3. PICK row, next : row = op[o] /\ next = [row EXCEPT !.status = "RUNNING"]
  OBVIOUS
<1>4. /\ op'[o] = next /\ next.status = "RUNNING" /\ next.processed = row.processed
      /\ next.total = row.total
  BY <1>1, <1>2, <1>3 DEF OpRow
<1>5. PICK t, u : t = tick[s] /\ u = tick'[s]
  OBVIOUS
<1>6. u.pc = "pop" /\ u.op = o /\ InHands(u) = InHands(t)
  BY <1>1, <1>2, <1>5, Locals DEF Continues, InHands
<1> QED
  BY <1>1, <1>2, <1>3, <1>4, <1>5, <1>6 DEF Squared, Works, AddsUp, ActiveStatus, TerminalStatus

\* LPOP moves a batch from the list to the tick.
LEMMA BatchMoves ==
    ASSUME NEW S \in SUBSET Entry, NEW n \in Nat
    PROVE  Cardinality(S \ Front(S, n)) + Cardinality(Front(S, n)) = Cardinality(S)
<1>1. IsFiniteSet(S) /\ IsFiniteSet(Front(S, n)) /\ Front(S, n) \in SUBSET S
  BY EntriesFinite, FrontSize DEF Front
<1>2. PICK B : B = Front(S, n)
  OBVIOUS
<1>3. IsFiniteSet(S \ B) /\ (S \ B) \cap B = {} /\ (S \ B) \cup B = S
  BY <1>1, <1>2, FS_Difference
<1>4. Cardinality((S \ B) \cup B) = Cardinality(S \ B) + Cardinality(B)
  BY <1>1, <1>2, <1>3, AddDisjoint
<1>5. (S \ B) \cup B = S
  BY <1>3
<1> QED
  BY <1>2, <1>4, <1>5

\* A step that leaves the row alone and keeps the entries between the list and
\* the tick.
LEMMA HandsSquared ==
    ASSUME IInv, CountInv, LockInv, Faultless, faults = 0,
           NEW s \in Tick, Works(tick[s]), NEW o, o = tick[s].op,
           op'[o] = op[o], NEW u, u = tick'[s], u.op = o, NEW n \in Nat, n = Cardinality(queue'[o]),
           InHands(u) \in Nat, n + InHands(u) = Cardinality(queue[o]) + InHands(tick[s]),
           u.pc = "finalize" => AllOrNothing(op[o], 0),
           u.pc = "cancel" => AllOrNothing(op[o], u.drained)
    PROVE  Squared(o, op'[o], queue'[o], tick'[s])
<1>1. /\ op[o] \in OpRow /\ Active(o) /\ Cardinality(queue[o]) \in Nat
      /\ InHands(tick[s]) \in Nat
      /\ ~Fresh(o) => AddsUp(o, InHands(tick[s]))
  BY OnDuty
<1>2. op[o].processed \in Nat /\ op[o].total \in Nat
  BY <1>1 DEF OpRow
<1>3. ~Fresh(o) => op[o].processed + n + InHands(u) = op[o].total
  BY <1>1, <1>2 DEF AddsUp
<1>4. op[o].status \notin TerminalStatus /\ op[o].status \in ActiveStatus
  BY <1>1 DEF Active, ActiveStatus, TerminalStatus
<1> QED
  BY <1>3, <1>4 DEF Squared

\* An empty list and empty hands: all of the entries are counted, or none.
LEMMA NothingLeft ==
    ASSUME IInv, CountInv, LockInv, Faultless, faults = 0,
           NEW s \in Tick, Works(tick[s]), NEW o, o = tick[s].op, queue[o] = {}
    PROVE  op[o].processed + InHands(tick[s]) \in {0, op[o].total}
<1>1. /\ op[o] \in OpRow /\ InHands(tick[s]) \in Nat
      /\ \/ op[o].processed = 0 /\ InHands(tick[s]) = 0
         \/ AddsUp(o, InHands(tick[s]))
  BY OnDuty
<1>2. Cardinality(queue[o]) = 0
  BY FS_EmptySet
<1>3. op[o].processed \in Nat /\ op[o].total \in Nat
  BY <1>1 DEF OpRow
<1> QED
  BY <1>1, <1>2, <1>3 DEF AddsUp

LEMMA PopSquared ==
    ASSUME IInv, CountInv, LockInv, Faultless, faults = 0, ~Fault,
           NEW s \in Tick, Works(tick[s]), NEW o, o = tick[s].op, PopBatch(s) \/ DrainPop(s)
    PROVE  Squared(o, op'[o], queue'[o], tick'[s])
<1>0. /\ ProcTypeOK /\ o \in Op /\ op[o] \in OpRow /\ queue \in [Op -> SUBSET Entry]
      /\ tick \in [Tick -> TickState] /\ GoodTick(tick[s]) /\ UNCHANGED op
      /\ op[o].total <= MaxDrain /\ InHands(tick[s]) \in Nat /\ Cardinality(queue[o]) \in Nat
      /\ BatchSize \in Nat
      /\ \/ Fresh(o) /\ op[o].processed = 0 /\ queue[o] = {} /\ InHands(tick[s]) = 0
         \/ ~Fresh(o) /\ AddsUp(o, InHands(tick[s]))
  BY OnDuty, Bounds DEF PopBatch, DrainPop
<1>1. PICK t, u : t = tick[s] /\ u = tick'[s]
  OBVIOUS
<1>2. t.todo = {} /\ t.done = {} /\ InHands(t) = t.drained /\ t.drained \in Nat
  <2>1. t.todo = {} /\ t.done = {} /\ t.drained \in Nat
    BY <1>0, <1>1 DEF PopBatch, DrainPop, At, GoodTick, Tidy, TickState
  <2> QED
    BY <2>1, FS_EmptySet DEF InHands
<1>3. ASSUME NEW pc, Goto(s, pc), UNCHANGED queue,
             \/ pc = "finalize" /\ t.pc = "pop" /\ queue[o] = {}
             \/ pc = "cancel" /\ (queue[o] = {} \/ t.drained >= MaxDrain)
      PROVE  Squared(o, op'[o], queue'[o], tick'[s])
  <2>1. /\ u.op = o /\ InHands(u) = InHands(t) /\ u.drained = t.drained
        /\ u.pc = "finalize" => t.pc = "pop"
    BY <1>0, <1>1, <1>3, Locals DEF Continues, InHands
  <2>2. op[o].processed + t.drained \in {0, op[o].total}
    <3>1. CASE queue[o] = {}
      BY <1>1, <1>2, <3>1, NothingLeft
    <3>2. CASE queue[o] # {}
      <4>1. t.drained >= MaxDrain /\ AddsUp(o, t.drained)
        BY <1>0, <1>1, <1>2, <1>3, <3>2
      <4>2. op[o].processed \in Nat /\ op[o].total \in Nat /\ MaxDrain \in Nat
        BY <1>0, Bounds DEF OpRow
      <4> QED
        BY <1>0, <1>2, <4>1, <4>2 DEF AddsUp
    <3> QED
      BY <3>1, <3>2
  <2>3. u.pc = "finalize" => t.drained = 0
    BY <1>0, <1>1, <2>1 DEF GoodTick, Tidy
  <2>4. AllOrNothing(op[o], t.drained)
    BY <2>2 DEF AllOrNothing
  <2> QED
    BY <1>0, <1>1, <1>2, <1>3, <2>1, <2>3, <2>4, HandsSquared
<1>4. ASSUME NEW pc \in {"execute", "record"}, queue[o] # {}, Pop(o, Front(queue[o], BatchSize)),
             tick' = [tick EXCEPT ![s].pc = pc, ![s].todo = Front(queue[o], BatchSize)]
      PROVE  Squared(o, op'[o], queue'[o], tick'[s])
  <2>1. PICK S, B : S = queue[o] /\ B = Front(S, BatchSize)
    OBVIOUS
  <2>2. S \in SUBSET Entry /\ queue'[o] = S \ B
    BY <1>0, <1>4, <2>1 DEF Pop
  <2>3. /\ u.pc = pc /\ u.op = o /\ u.todo = B /\ u.done = {} /\ u.drained = t.drained
    BY <1>0, <1>1, <1>2, <1>4, <2>1 DEF TickState
  <2>4. /\ Cardinality(S \ B) + Cardinality(B) = Cardinality(S)
        /\ Cardinality(S \ B) \in Nat /\ Cardinality(B) \in Nat
    <3>1. S \ B \in SUBSET Entry /\ B \in SUBSET Entry
      BY <2>1, <2>2 DEF Front
    <3> QED
      BY <1>0, <2>1, <2>2, <3>1, BatchMoves, EntriesFinite
  <2>5. InHands(u) = t.drained + Cardinality(B)
    BY <1>2, <2>3, <2>4, FS_EmptySet DEF InHands
  <2>6. Cardinality(queue'[o]) + InHands(u) = Cardinality(queue[o]) + InHands(t)
    BY <1>2, <2>1, <2>2, <2>4, <2>5
  <2>7. InHands(u) \in Nat /\ Cardinality(queue'[o]) \in Nat
    BY <1>2, <2>2, <2>4, <2>5
  <2> QED
    BY <1>0, <1>1, <1>4, <2>3, <2>6, <2>7, HandsSquared
<1>5. \/ \E pc : /\ Goto(s, pc) /\ UNCHANGED queue
                 /\ \/ pc = "finalize" /\ t.pc = "pop" /\ queue[o] = {}
                    \/ pc = "cancel" /\ (queue[o] = {} \/ t.drained >= MaxDrain)
      \/ \E pc \in {"execute", "record"} :
           /\ queue[o] # {} /\ Pop(o, Front(queue[o], BatchSize))
           /\ tick' = [tick EXCEPT ![s].pc = pc, ![s].todo = Front(queue[o], BatchSize)]
  BY <1>1 DEF PopBatch, DrainPop, At
<1> QED
  BY <1>3, <1>4, <1>5

LEMMA ExecuteSquared ==
    ASSUME IInv, CountInv, LockInv, Faultless, faults = 0,
           NEW s \in Tick, Works(tick[s]), NEW o, o = tick[s].op,
           NEW outcome \in {"SUCCEEDED", "FAILED", "SKIPPED"}, NEW effect \in BOOLEAN,
           ExecuteItem(s, outcome, effect)
    PROVE  Squared(o, op'[o], queue'[o], tick'[s])
<1>0. /\ tick \in [Tick -> TickState] /\ UNCHANGED <<op, queue>>
      /\ InHands(tick[s]) \in Nat /\ Cardinality(queue[o]) \in Nat
  BY OnDuty DEF ExecuteItem
<1>1. PICK k \in tick[s].todo :
        tick' = [tick EXCEPT
              ![s].todo = @ \ {k},
              ![s].done = @ \cup {[entry |-> k, outcome |-> outcome]}]
  BY DEF ExecuteItem
<1>2. PICK t, u, d : t = tick[s] /\ u = tick'[s] /\ d = [entry |-> k, outcome |-> outcome]
  OBVIOUS
<1>3. /\ u.pc = t.pc /\ u.op = o /\ u.todo = t.todo \ {k} /\ u.done = t.done \cup {d}
      /\ u.drained = t.drained /\ t.pc = "execute" /\ t.drained \in Nat
  BY <1>0, <1>1, <1>2 DEF TickState, ExecuteItem, At
<1>4. d \notin t.done
  BY <1>1, <1>2 DEF IInv, Ledger, TickCustody, CustodyOf
<1>5. /\ IsFiniteSet(t.todo) /\ Cardinality(t.todo) \in Nat
      /\ IsFiniteSet(t.done) /\ Cardinality(t.done) \in Nat
  BY <1>2, Sizes
<1>6. Cardinality(u.todo) = Cardinality(t.todo) - 1 /\ Cardinality(u.todo) \in Nat
  BY <1>1, <1>2, <1>3, <1>5, FS_RemoveElement, FS_CardinalityType
<1>7. Cardinality(u.done) = Cardinality(t.done) + 1
  BY <1>3, <1>4, <1>5, FS_AddElement
<1>8. InHands(u) = InHands(t) /\ InHands(u) \in Nat
  BY <1>3, <1>5, <1>6, <1>7 DEF InHands
<1> QED
  BY <1>0, <1>2, <1>3, <1>8, HandsSquared

LEMMA CommitSquared ==
    ASSUME IInv, CountInv, LockInv, Faultless, faults = 0,
           NEW s \in Tick, Works(tick[s]), NEW o, o = tick[s].op, CommitBatch(s)
    PROVE  Squared(o, op'[o], queue'[o], tick'[s])
<1>0. /\ o \in Op /\ op \in [Op -> OpRow] /\ op[o] \in OpRow /\ Exists(o) /\ Active(o)
      /\ tick \in [Tick -> TickState] /\ GoodTick(tick[s]) /\ UNCHANGED queue
      /\ InHands(tick[s]) \in Nat /\ Cardinality(queue[o]) \in Nat
      /\ ~Fresh(o) => AddsUp(o, InHands(tick[s]))
  BY OnDuty DEF CommitBatch
<1>1. PICK t, u : t = tick[s] /\ u = tick'[s]
  OBVIOUS
<1>2. PICK row, next : row = op[o] /\ next = CountBatch(row, t.done)
  OBVIOUS
<1>3. /\ op' = [op EXCEPT ![o] = CountBatch(@, tick[s].done)]
      /\ tick' = [tick EXCEPT ![s].pc = "reread", ![s].done = {}]
      /\ t.pc = "execute" /\ t.todo = {} /\ t.drained = 0
  BY <1>0, <1>1 DEF CommitBatch, At, GoodTick, Tidy
<1>4. /\ op'[o] = next /\ next.status = row.status /\ next.total = row.total
      /\ next.processed = row.processed + Cardinality(t.done)
  BY <1>0, <1>1, <1>2, <1>3 DEF CountBatch, OpRow
<1>5. u.pc = "reread" /\ u.op = o /\ u.todo = {} /\ u.done = {} /\ u.drained = 0
  <2>1. /\ tick'[s].pc = "reread" /\ tick'[s].op = tick[s].op /\ tick'[s].todo = tick[s].todo
        /\ tick'[s].done = {} /\ tick'[s].drained = tick[s].drained
    BY <1>0, <1>3 DEF TickState
  <2> QED
    BY <1>1, <1>3, <2>1
<1>6. /\ InHands(u) = 0 /\ InHands(t) = Cardinality(t.done) /\ Cardinality(t.done) \in Nat
  <2>1. Cardinality(t.done) \in Nat
    BY <1>1, Sizes
  <2>2. Cardinality(t.todo) = 0 /\ Cardinality(u.todo) = 0 /\ Cardinality(u.done) = 0
    BY <1>3, <1>5, FS_EmptySet
  <2> QED
    BY <1>3, <1>5, <2>1, <2>2 DEF InHands
<1>7. ~Fresh(o) => next.processed + Cardinality(queue'[o]) + InHands(u) = next.total
  <2>1. row.processed \in Nat /\ row.total \in Nat
    BY <1>0, <1>2 DEF OpRow
  <2> QED
    BY <1>0, <1>1, <1>2, <1>4, <1>6, <2>1 DEF AddsUp
<1>8. next.status \in ActiveStatus /\ next.status \notin TerminalStatus
  BY <1>0, <1>2, <1>4 DEF Active, ActiveStatus, TerminalStatus
<1> QED
  BY <1>1, <1>4, <1>5, <1>7, <1>8 DEF Squared

\* finalize is reached with all entries counted, or with none of them pushed.
LEMMA RereadSquared ==
    ASSUME IInv, CountInv, LockInv, Faultless, faults = 0,
           NEW s \in Tick, Works(tick[s]), NEW o, o = tick[s].op, Reread(s)
    PROVE  Squared(o, op'[o], queue'[o], tick'[s])
<1>0. /\ ProcTypeOK /\ op[o] \in OpRow
      /\ tick \in [Tick -> TickState] /\ GoodTick(tick[s]) /\ UNCHANGED <<op, queue>>
      /\ Cardinality(queue[o]) \in Nat
      /\ \/ op[o].processed = 0
         \/ AddsUp(o, InHands(tick[s]))
  BY OnDuty DEF Reread, storeVars
<1>1. PICK t, u : t = tick[s] /\ u = tick'[s]
  OBVIOUS
<1>2. t.todo = {} /\ t.done = {} /\ t.drained = 0 /\ InHands(t) = 0
  <2>1. t.todo = {} /\ t.done = {} /\ t.drained = 0
    BY <1>0, <1>1 DEF Reread, At, GoodTick, Tidy
  <2> QED
    BY <2>1, FS_EmptySet DEF InHands
<1>3. CASE Goto(s, "drain")
  <2>1. u.pc = "drain" /\ u.op = o /\ InHands(u) = 0
    BY <1>0, <1>1, <1>2, <1>3, Locals DEF Continues, InHands
  <2> QED
    BY <1>0, <1>1, <1>2, <2>1, HandsSquared
<1>4. CASE Leave(s)
  BY <1>0, <1>1, <1>2, <1>4, LeaveSquared
<1>5. CASE AllProcessed(op[o]) /\ tick' = [tick EXCEPT ![s] = FinalizeFresh(@, op[o])]
  <2>1. u = FinalizeFresh(t, op[o])
    BY <1>0, <1>1, <1>5
  <2>2. u.pc = "finalize" /\ u.op = o /\ u.todo = {} /\ u.done = {} /\ u.drained = 0
    BY <1>0, <1>1, <1>2, <2>1 DEF FinalizeFresh, TickState
  <2>3. InHands(u) = 0
    BY <2>2, FS_EmptySet DEF InHands
  <2>4. AllOrNothing(op[o], 0)
    <3>1. op[o].processed \in Nat /\ op[o].total \in Nat /\ op[o].processed >= op[o].total
      BY <1>0, <1>5 DEF OpRow, AllProcessed
    <3> QED
      BY <1>0, <1>1, <1>2, <3>1 DEF AllOrNothing, AddsUp
  <2> QED
    BY <1>0, <1>1, <1>2, <2>2, <2>3, <2>4, HandsSquared
<1> QED
  BY <1>3, <1>4, <1>5 DEF Reread

LEMMA RecordSquared ==
    ASSUME IInv, CountInv, LockInv, Faultless, faults = 0,
           NEW s \in Tick, Works(tick[s]), NEW o, o = tick[s].op, DrainRecord(s)
    PROVE  Squared(o, op'[o], queue'[o], tick'[s])
<1>0. /\ tick \in [Tick -> TickState] /\ UNCHANGED <<op, queue>> /\ Exists(o)
      /\ InHands(tick[s]) \in Nat /\ Cardinality(queue[o]) \in Nat
  BY OnDuty DEF DrainRecord
<1>1. PICK t, u : t = tick[s] /\ u = tick'[s]
  OBVIOUS
<1>2. tick' = [tick EXCEPT ![s].pc = "drain", ![s].todo = {},
                           ![s].drained = @ + Cardinality(tick[s].todo)]
  BY <1>0 DEF DrainRecord
<1>3. /\ u.pc = "drain" /\ u.op = o /\ u.todo = {} /\ u.done = t.done
      /\ u.drained = t.drained + Cardinality(t.todo) /\ t.drained \in Nat
  BY <1>0, <1>1, <1>2 DEF TickState
<1>4. Cardinality(t.todo) \in Nat /\ Cardinality(t.done) \in Nat
  BY <1>1, Sizes
<1>5. InHands(u) = InHands(t)
  BY <1>3, <1>4, FS_EmptySet DEF InHands
<1> QED
  BY <1>0, <1>1, <1>3, <1>5, HandsSquared

LEMMA EndSquared ==
    ASSUME IInv, CountInv, LockInv, Faultless, faults = 0,
           NEW s \in Tick, Works(tick[s]), NEW o, o = tick[s].op, Finalize(s) \/ CancelOp(s)
    PROVE  Squared(o, op'[o], queue'[o], tick'[s])
<1>0. /\ ProcTypeOK /\ o \in Op /\ op \in [Op -> OpRow] /\ op[o] \in OpRow /\ Exists(o)
      /\ tick \in [Tick -> TickState] /\ Closing(tick[s]) /\ Leave(s)
  BY OnDuty DEF Finalize, CancelOp
<1>1. PICK t, u : t = tick[s] /\ u = tick'[s]
  OBVIOUS
<1>2. u.pc = "release" /\ u.op = 0
  BY <1>0, <1>1, Locals
<1>3. PICK row, last, gone :
        /\ row = op[o] /\ last = [row EXCEPT !.status = t.verdict]
        /\ gone = [row EXCEPT !.status = "CANCELLED", !.skipped = @ + t.drained,
                              !.processed = @ + t.drained]
  OBVIOUS
<1>4. CASE Finalize(s)
  <2>1. t.pc = "finalize" /\ op'[o] = last
    BY <1>0, <1>1, <1>3, <1>4 DEF Finalize, At
  <2>2. /\ last.status = t.verdict /\ last.processed = row.processed
        /\ last.total = row.total
    BY <1>0, <1>3 DEF OpRow
  <2>3. AllOrNothing(last, 0)
    BY <1>0, <1>1, <1>3, <2>1, <2>2 DEF Closing, AllOrNothing
  <2>4. last.status \notin ActiveStatus
    BY <1>1, <2>1, <2>2 DEF IInv, AtWork, Working, ActiveStatus, TerminalStatus
  <2> QED
    BY <1>1, <1>2, <2>1, <2>3, <2>4 DEF Squared, Works
<1>5. CASE CancelOp(s)
  <2>1. t.pc = "cancel" /\ op'[o] = gone
    BY <1>0, <1>1, <1>3, <1>5 DEF CancelOp, At
  <2>2. /\ gone.status = "CANCELLED" /\ gone.processed = row.processed + t.drained
        /\ gone.total = row.total
    BY <1>0, <1>3 DEF OpRow
  <2>3. AllOrNothing(gone, 0)
    <3>1. row.processed \in Nat /\ t.drained \in Nat
      BY <1>0, <1>1, <1>3 DEF OpRow, TickState
    <3> QED
      BY <1>0, <1>1, <1>3, <2>1, <2>2, <3>1 DEF Closing, AllOrNothing
  <2> QED
    BY <1>1, <1>2, <2>1, <2>2, <2>3 DEF Squared, Works, ActiveStatus
<1> QED
  BY <1>4, <1>5

-----------------------------------------------------------------------------
\* A step of the tick that works on o, without a failure.
LEMMA WorkSquared ==
    ASSUME IInv, CountInv, LockInv, Faultless, faults = 0, faults' = 0,
           NEW s \in Tick, Works(tick[s]), NEW o, o = tick[s].op, TickActs(s)
    PROVE  Squared(o, op'[o], queue'[o], tick'[s])
<1>1. ~Fault
  BY NoFault
<1>2. ~(AcquireLock(s) \/ SelectOp(s) \/ ReleaseLock(s) \/ TickThrows(s) \/ KillTick(s))
  BY <1>1 DEF Works, AcquireLock, SelectOp, ReleaseLock, TickThrows, KillTick, At
<1> QED
  BY <1>1, <1>2, StartSquared, PopSquared, ExecuteSquared, CommitSquared, RereadSquared,
     RecordSquared, EndSquared DEF TickActs

\* A step of a tick that works on nothing leaves the operations alone; it may
\* take up an active one.
LEMMA FreeStep ==
    ASSUME IInv, LockInv, NEW s \in Tick, ~Works(tick[s]), TickActs(s), faults = 0, faults' = 0
    PROVE  /\ UNCHANGED <<op, queue>> /\ tick[s].op = 0
           /\ \A p \in Op : tick'[s].op = p => Active(p) /\ InHands(tick'[s]) = 0
           /\ tick'[s].pc \notin {"finalize", "cancel"}
           /\ Works(tick'[s]) => tick'[s].op \in Op
<1>0. /\ ProcTypeOK /\ tick \in [Tick -> TickState] /\ GoodTick(tick[s]) /\ 0 \notin Op
  BY DEF IInv, TypeOK, ProcTypeOK, LockInv, Op
<1>1. AcquireLock(s) \/ SelectOp(s) \/ ReleaseLock(s)
  <2>1. ~Fault
    BY NoFault
  <2> QED
    BY <2>1 DEF TickActs, Works, At, StartOp, PopBatch, ExecuteItem, CommitBatch, Reread,
       Finalize, DrainPop, DrainRecord, CancelOp, TickThrows, KillTick
<1>2. UNCHANGED <<op, queue>> /\ tick[s].op = 0
  BY <1>0, <1>1 DEF AcquireLock, SelectOp, ReleaseLock, storeVars, GoodTick, Tidy
<1>3. CASE Leave(s) \/ tick' = [tick EXCEPT ![s] = IdleTick]
  BY <1>0, <1>2, <1>3, Locals DEF Works
<1>4. CASE AcquireLock(s)
  <2>1. tick'[s].op = 0 /\ tick'[s].pc \in {"select", "idle"}
    <3>1. Goto(s, "select") \/ UNCHANGED tick
      BY <1>4 DEF AcquireLock
    <3> QED
      BY <1>0, <1>2, <1>4, <3>1, Locals DEF Continues, AcquireLock, At
  <2> QED
    BY <1>0, <1>2, <2>1 DEF Works
<1>5. ASSUME NEW p \in Op, Active(p),
             tick' = [tick EXCEPT ![s] =
               [IdleTick EXCEPT !.op = p, !.verdict = FinalStatus(op[p]),
                                !.pc = FirstStep(op[p])]]
      PROVE  /\ \A q \in Op : tick'[s].op = q => Active(q) /\ InHands(tick'[s]) = 0
             /\ tick'[s].pc \notin {"finalize", "cancel"} /\ tick'[s].op \in Op
  <2>1. PICK t : t = [IdleTick EXCEPT !.op = p, !.verdict = FinalStatus(op[p]),
                                      !.pc = FirstStep(op[p])]
    OBVIOUS
  <2>2. tick'[s] = t
    BY <1>0, <1>5, <2>1
  <2>3. /\ t.op = p /\ t.todo = {} /\ t.done = {} /\ t.drained = 0
        /\ t.pc \in {"drain", "start", "pop"}
    BY <2>1 DEF IdleTick, FirstStep
  <2>4. InHands(t) = 0
    BY <2>3, FS_EmptySet DEF InHands
  <2> QED
    BY <1>5, <2>2, <2>3, <2>4
<1> QED
  BY <1>1, <1>2, <1>3, <1>4, <1>5 DEF SelectOp, ReleaseLock

\* Only one tick has the operation, so the entries in its hands are all there
\* are outside of the list.
LEMMA TickKeepsFaultless ==
    ASSUME IInv, IInv', CountInv, LockInv, LockInv', Faultless, faults = 0,
           NEW s \in Tick, TickActs(s), UNCHANGED intakeVars, faults' = 0
    PROVE  Faultless'
<1>0. /\ StoreTypeOK /\ ProcTypeOK /\ AtWork /\ op \in [Op -> OpRow] /\ 0 \notin Op
      /\ queue \in [Op -> SUBSET Entry] /\ UNCHANGED req /\ NoRollback
      /\ \A q \in Tick : GoodTick(tick[q])
  BY DEF IInv, TypeOK, StoreTypeOK, LockInv, Faultless, intakeVars, Op
<1>1. /\ \A q \in Tick \ {s} : tick'[q] = tick[q] /\ tick[q].op = 0 /\ ~Works(tick[q])
  BY <1>0, TickMoves, Alone DEF Moves, LockInv, GoodTick, Tidy
<1>2. \A p \in Op : Fresh(p)' <=> Fresh(p)
  BY <1>0, TickRows DEF Fresh, RowsKept
<1>3. NoRollback'
  BY <1>0 DEF NoRollback
<1>4. ASSUME NEW q \in Tick, q # s
      PROVE  Closing(tick[q])' /\ (Works(tick[q]) => Active(tick[q].op))'
  BY <1>1, <1>4 DEF Closing, Works
<1>5. ASSUME NEW p \in Op, op'[p] = op[p], queue'[p] = queue[p], tick[s].op # p,
             tick'[s].op = p => InHands(tick'[s]) = 0
      PROVE  /\ Terminal(p)' => AllOrNothing(op[p], 0)'
             /\ Active(p)' /\ ~Fresh(p)' =>
                  /\ \A q \in Tick : tick'[q].op = p => AddsUp(p, InHands(tick[q]))'
                  /\ (\A q \in Tick : tick'[q].op # p) => AddsUp(p, 0)'
  <2>1. \A q \in Tick : tick[q].op # p
    BY <1>0, <1>1, <1>5
  <2>2. /\ Terminal(p) => AllOrNothing(op[p], 0)
        /\ Active(p) /\ ~Fresh(p) => AddsUp(p, 0)
    BY <2>1 DEF Faultless
  <2>3. ASSUME NEW q \in Tick, tick'[q].op = p PROVE InHands(tick'[q]) = 0
    BY <1>0, <1>1, <1>5, <2>3
  <2> QED
    BY <1>2, <1>5, <2>2, <2>3 DEF Terminal, Active, AllOrNothing, AddsUp, InHands
<1>6. CASE Works(tick[s])
  <2>1. PICK o : o = tick[s].op
    OBVIOUS
  <2>2. o \in Op /\ Squared(o, op'[o], queue'[o], tick'[s])
    BY <1>6, <2>1, OnDuty, WorkSquared
  <2>3. PICK u, row, list : u = tick'[s] /\ row = op'[o] /\ list = queue'[o]
    OBVIOUS
  <2>4. Squared(o, row, list, u)
    BY <2>2, <2>3
  <2>5. Closing(tick[s])' /\ (Works(tick[s]) => Active(tick[s].op))'
    BY <2>3, <2>4 DEF Squared, Closing, Works, Active, AllOrNothing
  <2>6. ~Works(u) => InHands(u) = 0
    <3>1. GoodTick(tick[s])'
      BY DEF LockInv
    <3>2. ~Works(u) => u.todo = {} /\ u.done = {} /\ u.drained = 0
      BY <2>3, <3>1 DEF GoodTick, Tidy, Works
    <3> QED
      BY <3>2, FS_EmptySet DEF InHands
  <2>7. ASSUME NEW p \in Op, p # o PROVE op'[p] = op[p] /\ queue'[p] = queue[p] /\ u.op # p
    <3>1. op'[p] = op[p]
      BY <1>0, <2>1, <2>7, TickFrame
    <3>2. queue'[p] = queue[p]
      <4>1. Moves(s)
        BY <1>0, TickMoves
      <4> QED
        BY <1>0, <2>1, <2>7, <4>1 DEF Moves, Calm, Pops, Commits, Records, Cancels, Handles
    <3> QED
      BY <1>0, <2>4, <2>7, <3>1, <3>2 DEF Squared
  <2>8. /\ Terminal(o)' => AllOrNothing(op[o], 0)'
        /\ Active(o)' /\ ~Fresh(o)' =>
             /\ \A q \in Tick : tick'[q].op = o => AddsUp(o, InHands(tick[q]))'
             /\ (\A q \in Tick : tick'[q].op # o) => AddsUp(o, 0)'
    <3>1. Terminal(o)' => AllOrNothing(op[o], 0)'
      BY <2>3, <2>4 DEF Squared, Terminal, AllOrNothing
    <3>2. Active(o)' /\ ~Fresh(o)' =>
            row.processed + Cardinality(list) + InHands(u) = row.total
      BY <1>2, <2>2, <2>3, <2>4 DEF Squared, Active
    <3>3. ASSUME NEW q \in Tick, tick'[q].op = o, Active(o)', ~Fresh(o)'
          PROVE  AddsUp(o, InHands(tick[q]))'
      <4>1. q = s
        BY <1>0, <1>1, <2>2, <3>3
      <4> QED
        BY <2>3, <3>2, <3>3, <4>1 DEF AddsUp, InHands
    <3>4. ASSUME \A q \in Tick : tick'[q].op # o, Active(o)', ~Fresh(o)'
          PROVE  AddsUp(o, 0)'
      <4>1. ~Works(u)
        BY <2>3, <2>4, <3>4 DEF Squared
      <4> QED
        BY <2>3, <2>6, <3>2, <3>4, <4>1 DEF AddsUp
    <3> QED
      BY <3>1, <3>3, <3>4
  <2> QED
    BY <1>3, <1>4, <1>5, <2>1, <2>3, <2>5, <2>7, <2>8 DEF Faultless
<1>7. CASE ~Works(tick[s])
  <2>1. /\ UNCHANGED <<op, queue>> /\ tick[s].op = 0
        /\ \A p \in Op : tick'[s].op = p => Active(p) /\ InHands(tick'[s]) = 0
        /\ tick'[s].pc \notin {"finalize", "cancel"}
        /\ Works(tick'[s]) => tick'[s].op \in Op
    BY <1>7, FreeStep
  <2>2. Closing(tick[s])' /\ (Works(tick[s]) => Active(tick[s].op))'
    BY <2>1 DEF Closing, Works, Active
  <2> QED
    BY <1>0, <1>3, <1>4, <1>5, <2>1, <2>2 DEF Faultless
<1> QED
  BY <1>6, <1>7

LEMMA InitFaultless == Init => Faultless
BY DEF Init, StoreInit, IntakeInit, ProcInit, IdleTick, IdleReq, AbsentOp, Faultless, NoRollback,
   Closing, Works, Terminal, Active, ActiveStatus, TerminalStatus

LEMMA NextKeepsFaultless ==
    ASSUME LockOutlives, IInv, IInv', CountInv, LockInv, LockInv', Faultless, [Next]_vars
    PROVE  Faultless'
<1> SUFFICES ASSUME faults' = 0 PROVE Faultless'
  BY DEF Faultless
<1>1. CASE UNCHANGED vars
  BY <1>1 DEF vars, storeVars, intakeVars, procVars, Faultless, NoRollback, Closing, Works, Active,
     Terminal, Fresh, AddsUp, AllOrNothing, InHands
<1>2. CASE PreviewActs /\ UNCHANGED procVars
  <2>1. UNCHANGED <<storeVars, req, procVars>>
    BY <1>2 DEF PreviewActs, Preview, ExpirePreview
  <2> QED
    BY <2>1 DEF storeVars, procVars, Faultless, NoRollback, Closing, Works, Active,
       Terminal, Fresh, AddsUp, AllOrNothing, InHands
<1>3. faults = 0 \/ UNCHANGED vars \/ (PreviewActs /\ UNCHANGED procVars)
  <2>1. faults \in Nat
    BY Bounds DEF IInv, TypeOK, StoreTypeOK
  <2>2. ~Fault
    BY <2>1, NoFault
  <2>3. ASSUME NEW r \in Req, Begins(r) \/ Proceeds(r) PROVE UNCHANGED faults
    <3>1. \/ UNCHANGED faults \/ Fault
      BY <2>3 DEF storeVars, Begins, Proceeds, BeginCreate, ConsumeToken, CheckQuota, InsertOp,
         Refetch, PushQueue, Rollback, BeginRetry, ReadRows, LookupRetry, BeginCancel, SetCancel,
         KillRequest
    <3> QED
      BY <2>2, <3>1
  <2>4. ASSUME NEW s \in Tick, TickActs(s) PROVE UNCHANGED faults
    <3>1. \/ UNCHANGED faults \/ Fault
      BY <2>4 DEF storeVars, TickActs, AcquireLock, SelectOp, StartOp, PopBatch, ExecuteItem,
         CommitBatch, Reread, Finalize, DrainPop, DrainRecord, CancelOp, ReleaseLock, TickThrows,
         KillTick
    <3> QED
      BY <2>2, <3>1
  <2>5. JobActs => UNCHANGED faults
    BY DEF storeVars, JobActs, LockExpires, Recover, PurgeItems, PurgeOp
  <2> QED
    BY <2>3, <2>4, <2>5, StepCases
<1>4. CASE faults = 0
  <2>0. TypeOK /\ NoRollback
    BY <1>4 DEF IInv, Faultless
  <2>1. ASSUME NEW r \in Req, Begins(r) \/ Proceeds(r), UNCHANGED procVars
        PROVE  Faultless'
    <3>1. CASE \E n \in Op : Inserts(r, n)
      BY <2>1, <3>1, InsertKeepsFaultless
    <3>2. CASE ~\E n \in Op : Inserts(r, n)
      <4>1. Clean
        BY <2>0, <2>1, <3>2, CleanRequest
      <4> QED
        BY <4>1, CleanKeeps
    <3> QED
      BY <3>1, <3>2
  <2>2. ASSUME NEW s \in Tick, TickActs(s), UNCHANGED intakeVars PROVE Faultless'
    BY <1>4, <2>2, TickKeepsFaultless
  <2>3. CASE JobActs /\ UNCHANGED intakeVars
    <3>1. Clean
      BY <2>0, <2>3, CleanCron
    <3> QED
      BY <3>1, CleanKeeps
  <2> QED
    BY <1>1, <1>2, <2>1, <2>2, <2>3, StepCases
<1> QED
  BY <1>1, <1>2, <1>3, <1>4

\* Every entry of an active operation is counted, queued or in the hands of the
\* tick that works on it, as long as nothing has failed.
THEOREM FaultlessInvariant ==
    ASSUME LockOutlives
    PROVE  Spec => []Faultless
<1>1. /\ IInv /\ IInv' /\ CountInv /\ LockInv /\ LockInv' /\ Faultless /\ [Next]_vars
        => Faultless'
  BY NextKeepsFaultless
<1> QED
  BY <1>1, InitFaultless, LedgerInvariant, CountInvariant, LockInvariant, PTL DEF Spec

\* Without crashes and failures, and while the lock outlives live ticks, a
\* finished operation has handled all of its entries, or none when the tick
\* outran RPUSH: finalize and finalizeCancelled leave nothing behind.
THEOREM NothingLostTheorem ==
    ASSUME LockOutlives
    PROVE  Spec => []NothingLostWithoutFaults
<1>1. IInv /\ Faultless => NothingLostWithoutFaults
  <2> SUFFICES ASSUME IInv, Faultless, faults = 0, NEW o \in Op, Terminal(o)
               PROVE  op[o].processed \in {0, op[o].total}
    BY DEF NothingLostWithoutFaults
  <2>1. op[o].processed \in Nat
    BY DEF IInv, TypeOK, StoreTypeOK, OpRow
  <2>2. AllOrNothing(op[o], 0)
    BY DEF Faultless
  <2> QED
    BY <2>1, <2>2 DEF AllOrNothing
<1> QED
  BY <1>1, LedgerInvariant, FaultlessInvariant, PTL

===============================================================================
