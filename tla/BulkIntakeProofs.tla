--------------------------- MODULE BulkIntakeProofs ---------------------------
(***************************************************************************)
(* Theorems about the requests of BulkOperations: a preview token pays for *)
(* one operation, an idempotency key names one, and a retry repeats no     *)
(* change but those its source operation counts as failed.                 *)
(***************************************************************************)
EXTENDS BulkOperationsProofs

-----------------------------------------------------------------------------
(* The steps of Next, by who takes them.                                    *)

TickActs(s) ==
    \E outcome \in {"SUCCEEDED", "FAILED", "SKIPPED"}, effect \in BOOLEAN :
      \/ AcquireLock(s) \/ SelectOp(s) \/ StartOp(s) \/ PopBatch(s)
      \/ ExecuteItem(s, outcome, effect) \/ CommitBatch(s) \/ Reread(s)
      \/ Finalize(s) \/ DrainPop(s) \/ DrainRecord(s) \/ CancelOp(s)
      \/ ReleaseLock(s) \/ TickThrows(s) \/ KillTick(s)

JobActs == LockExpires \/ Recover \/ \E o \in Op : PurgeItems(o) \/ PurgeOp(o)

PreviewActs ==
    \/ \E u \in User, t \in Token, ids \in Scope : Preview(u, t, ids)
    \/ \E t \in Token : ExpirePreview(t)

LEMMA StepCases ==
    ASSUME [Next]_vars
    PROVE  \/ UNCHANGED vars
           \/ PreviewActs /\ UNCHANGED procVars
           \/ \E r \in Req : (Begins(r) \/ Proceeds(r)) /\ UNCHANGED procVars
           \/ \E s \in Tick : TickActs(s) /\ UNCHANGED intakeVars
           \/ JobActs /\ UNCHANGED intakeVars
<1>1. ASSUME NEW r \in Req,
             \/ \E u \in User, k \in Key, t \in Token : ByRequest(BeginCreate(r, u, k, t))
             \/ \E u \in User, k \in Key, o \in Op : ByRequest(BeginRetry(r, u, k, o))
             \/ \E u \in User, o \in Op : ByRequest(BeginCancel(r, u, o))
             \/ ByRequest(ConsumeToken(r)) \/ ByRequest(CheckQuota(r))
             \/ ByRequest(InsertOp(r)) \/ ByRequest(Refetch(r))
             \/ ByRequest(PushQueue(r)) \/ ByRequest(Rollback(r))
             \/ ByRequest(ReadRows(r)) \/ ByRequest(LookupRetry(r))
             \/ ByRequest(SetCancel(r)) \/ ByRequest(KillRequest(r))
      PROVE  UNCHANGED procVars /\ (Begins(r) \/ Proceeds(r))
  BY <1>1 DEF ByRequest, Begins, Proceeds
<1>2. ASSUME NEW s \in Tick, NEW outcome \in {"SUCCEEDED", "FAILED", "SKIPPED"},
             NEW effect \in BOOLEAN,
             \/ ByCron(AcquireLock(s)) \/ ByCron(SelectOp(s)) \/ ByCron(StartOp(s))
             \/ ByCron(PopBatch(s)) \/ ByCron(ExecuteItem(s, outcome, effect))
             \/ ByCron(CommitBatch(s)) \/ ByCron(Reread(s)) \/ ByCron(Finalize(s))
             \/ ByCron(DrainPop(s)) \/ ByCron(DrainRecord(s)) \/ ByCron(CancelOp(s))
             \/ ByCron(ReleaseLock(s)) \/ ByCron(TickThrows(s)) \/ ByCron(KillTick(s))
      PROVE  TickActs(s) /\ UNCHANGED intakeVars
  BY <1>2 DEF ByCron, TickActs
<1>3. CASE \/ ByCron(LockExpires) \/ ByCron(Recover)
           \/ \E o \in Op : ByCron(PurgeItems(o)) \/ ByCron(PurgeOp(o))
  BY <1>3 DEF ByCron, JobActs
<1>4. CASE \/ \E u \in User, t \in Token, ids \in Scope : ByRequest(Preview(u, t, ids))
           \/ \E t \in Token : ByRequest(ExpirePreview(t))
  BY <1>4 DEF ByRequest, PreviewActs
<1> QED
  BY <1>1, <1>2, <1>3, <1>4 DEF Next

-----------------------------------------------------------------------------
(* What a row of bulk_operations keeps for life.                            *)

\* The columns no update touches.  A row that exists is not taken back.
Columns(row) == <<row.owner, row.key, row.token, row.retryOf, row.total>>

RowsKept ==
    /\ UNCHANGED scope
    /\ \A o \in Op : /\ Columns(op'[o]) = Columns(op[o])
                     /\ Exists(o)' => Exists(o)
                     /\ op'[o].status = "ABSENT" <=> op[o].status = "ABSENT"

LEMMA StillRows == UNCHANGED <<op, scope>> => RowsKept
BY DEF RowsKept, Exists, Active, Terminal

\* An update by id of an operation that exists.
LEMMA UpdateRow ==
    ASSUME op \in [Op -> OpRow], UNCHANGED scope, NEW o, Exists(o), NEW row,
           op' = [op EXCEPT ![o] = row], o \in Op => Columns(row) = Columns(op[o]),
           o \in Op => row.status # "ABSENT"
    PROVE  RowsKept
<1>1. \A p \in Op : p # o => op'[p] = op[p]
  OBVIOUS
<1>2. o \in Op => op'[o] = row
  OBVIOUS
<1>3. op[o].status # "ABSENT"
  BY DEF Exists, Active, Terminal, ActiveStatus, TerminalStatus
<1> SUFFICES ASSUME NEW p \in Op
             PROVE  /\ Columns(op'[p]) = Columns(op[p])
                    /\ Exists(p)' => Exists(p)
                    /\ op'[p].status = "ABSENT" <=> op[p].status = "ABSENT"
  BY DEF RowsKept
<1>4. CASE p = o
  BY <1>2, <1>3, <1>4
<1>5. CASE p # o
  BY <1>1, <1>5 DEF Exists, Active, Terminal
<1> QED
  BY <1>4, <1>5

\* The two forms of it in the code.
LEMMA SetStatus ==
    ASSUME op \in [Op -> OpRow], UNCHANGED scope, NEW o, Exists(o), NEW status,
           status # "ABSENT", op' = [op EXCEPT ![o].status = status]
    PROVE  RowsKept
<1>1. PICK row : row = [op[o] EXCEPT !.status = status]
  OBVIOUS
<1>2. op' = [op EXCEPT ![o] = row]
  BY <1>1
<1>3. o \in Op => Columns(row) = Columns(op[o]) /\ row.status # "ABSENT"
  BY <1>1 DEF Columns, OpRow
<1> QED
  BY <1>2, <1>3, UpdateRow

LEMMA RequestRows ==
    ASSUME StoreTypeOK, NEW r \in Req, Begins(r) \/ Proceeds(r), ~InsertOp(r)
    PROVE  RowsKept
<1>0. op \in [Op -> OpRow]
  BY DEF StoreTypeOK
<1>1. CASE Rollback(r)
  <2>1. UNCHANGED scope
    BY <1>1 DEF Rollback
  <2>2. CASE Exists(req[r].op)
    <3>1. op' = [op EXCEPT ![req[r].op].status = "DELETED"]
      BY <1>1, <2>2 DEF Rollback
    <3> QED
      BY <1>0, <2>1, <2>2, <3>1, SetStatus
  <2>3. CASE ~Exists(req[r].op)
    <3>1. UNCHANGED op
      BY <1>1, <2>3 DEF Rollback
    <3> QED
      BY <2>1, <3>1, StillRows
  <2> QED
    BY <2>2, <2>3
<1>2. CASE SetCancel(r)
  <2>1. UNCHANGED scope
    BY <1>2 DEF SetCancel
  <2>2. CASE Exists(req[r].op)
    <3>1. op' = [op EXCEPT ![req[r].op].cancelRequested = TRUE]
      BY <1>2, <2>2 DEF SetCancel
    <3>2. PICK row : row = [op[req[r].op] EXCEPT !.cancelRequested = TRUE]
      OBVIOUS
    <3>3. op' = [op EXCEPT ![req[r].op] = row]
      BY <3>1, <3>2
    <3>4. req[r].op \in Op => Columns(row) = Columns(op[req[r].op])
                              /\ row.status = op[req[r].op].status
      BY <1>0, <3>2 DEF Columns, OpRow
    <3>5. op[req[r].op].status # "ABSENT"
      BY <2>2 DEF Exists, Active, Terminal, ActiveStatus, TerminalStatus
    <3> QED
      BY <1>0, <2>1, <2>2, <3>3, <3>4, <3>5, UpdateRow
  <2>3. CASE ~Exists(req[r].op)
    <3>1. UNCHANGED op
      BY <1>2, <2>3 DEF SetCancel
    <3> QED
      BY <2>1, <3>1, StillRows
  <2> QED
    BY <2>2, <2>3
<1>3. CASE ~Rollback(r) /\ ~SetCancel(r)
  <2>1. UNCHANGED <<op, scope>>
    BY <1>3 DEF storeVars, Begins, Proceeds, BeginCreate, ConsumeToken, CheckQuota,
       Refetch, PushQueue, BeginRetry, ReadRows, LookupRetry, BeginCancel, KillRequest
  <2> QED
    BY <2>1, StillRows
<1> QED
  BY <1>1, <1>2, <1>3

LEMMA TickRows ==
    ASSUME StoreTypeOK, AtWork, NEW s \in Tick,
           TickActs(s)
    PROVE  RowsKept
<1> DEFINE o == tick[s].op
<1>0. op \in [Op -> OpRow]
  BY DEF StoreTypeOK
<1>1. UNCHANGED scope
  BY DEF TickActs, storeVars, AcquireLock, SelectOp, StartOp, PopBatch, ExecuteItem, CommitBatch,
     Reread, Finalize, DrainPop, DrainRecord, CancelOp, ReleaseLock, TickThrows, KillTick
<1>2. CASE UNCHANGED op
  BY <1>1, <1>2, StillRows
<1>3. CASE StartOp(s) /\ Exists(o)
  <2>1. op' = [op EXCEPT ![o].status = "RUNNING"]
    BY <1>3 DEF StartOp
  <2> QED
    BY <1>0, <1>1, <1>3, <2>1, SetStatus
<1>4. CASE Finalize(s) /\ Exists(o)
  <2>1. op' = [op EXCEPT ![o].status = tick[s].verdict]
    BY <1>4 DEF Finalize
  <2>2. tick[s].verdict # "ABSENT"
    BY <1>4 DEF Finalize, At, AtWork, Working, TerminalStatus
  <2> QED
    BY <1>0, <1>1, <1>4, <2>1, <2>2, SetStatus
<1>5. CASE CommitBatch(s) /\ Exists(o)
  <2>1. PICK row : row = CountBatch(op[o], tick[s].done)
    OBVIOUS
  <2>2. op' = [op EXCEPT ![o] = row]
    BY <1>5, <2>1 DEF CommitBatch
  <2>3. o \in Op => Columns(row) = Columns(op[o]) /\ row.status = op[o].status
    BY <1>0, <2>1 DEF CountBatch, Columns, OpRow
  <2>4. op[o].status # "ABSENT"
    BY <1>5 DEF Exists, Active, Terminal, ActiveStatus, TerminalStatus
  <2> QED
    BY <1>0, <1>1, <1>5, <2>2, <2>3, <2>4, UpdateRow
<1>6. CASE CancelOp(s) /\ Exists(o)
  <2>1. PICK row : row = [op[o] EXCEPT !.status = "CANCELLED",
                             !.skipped = @ + tick[s].drained,
                             !.processed = @ + tick[s].drained]
    OBVIOUS
  <2>2. op' = [op EXCEPT ![o] = row]
    BY <1>6, <2>1 DEF CancelOp
  <2>3. o \in Op => Columns(row) = Columns(op[o]) /\ row.status = "CANCELLED"
    BY <1>0, <2>1 DEF Columns, OpRow
  <2> QED
    BY <1>0, <1>1, <1>6, <2>2, <2>3, UpdateRow
<1>7. \/ UNCHANGED op
      \/ Exists(o) /\ (StartOp(s) \/ Finalize(s) \/ CommitBatch(s) \/ CancelOp(s))
  BY DEF TickActs, storeVars, AcquireLock, SelectOp, StartOp, PopBatch, ExecuteItem, CommitBatch,
     Reread, Finalize, DrainPop, DrainRecord, CancelOp, ReleaseLock, TickThrows, KillTick
<1> QED
  BY <1>2, <1>3, <1>4, <1>5, <1>6, <1>7

LEMMA CronRows ==
    ASSUME StoreTypeOK, LockExpires \/ Recover \/ \E o \in Op : PurgeItems(o) \/ PurgeOp(o)
    PROVE  RowsKept
<1>0. op \in [Op -> OpRow] /\ UNCHANGED scope
  BY DEF StoreTypeOK, storeVars, LockExpires, Recover, PurgeItems, PurgeOp
<1>1. CASE LockExpires \/ \E o \in Op : PurgeItems(o)
  BY <1>0, <1>1, StillRows DEF storeVars, LockExpires, PurgeItems
<1>2. CASE Recover
  <2>1. PICK stale \in SUBSET {o \in Op : op[o].status = "RUNNING"} :
          op' = [p \in Op |-> IF p \in stale
                              THEN [op[p] EXCEPT !.status = "QUEUED"] ELSE op[p]]
    BY <1>2 DEF Recover
  <2>2. ASSUME NEW p \in Op
        PROVE  /\ Columns(op'[p]) = Columns(op[p])
               /\ Exists(p)' => Exists(p)
               /\ op'[p].status = "ABSENT" <=> op[p].status = "ABSENT"
    <3>1. CASE p \in stale
      <4>1. op'[p] = [op[p] EXCEPT !.status = "QUEUED"] /\ op[p].status = "RUNNING"
        BY <2>1, <3>1
      <4>2. Columns(op'[p]) = Columns(op[p]) /\ op'[p].status = "QUEUED"
        BY <1>0, <4>1 DEF Columns, OpRow
      <4> QED
        BY <4>1, <4>2 DEF Exists, Active, ActiveStatus
    <3>2. CASE p \notin stale
      <4>1. op'[p] = op[p]
        BY <2>1, <3>2
      <4> QED
        BY <4>1 DEF Exists, Active, Terminal
    <3> QED
      BY <3>1, <3>2
  <2> QED
    BY <1>0, <2>2 DEF RowsKept
<1>3. CASE \E o \in Op : PurgeOp(o)
  <2>1. PICK o \in Op : PurgeOp(o)
    BY <1>3
  <2>2. Exists(o) /\ op' = [op EXCEPT ![o].status = "DELETED"]
    BY <2>1 DEF PurgeOp, Forgotten, Exists
  <2> QED
    BY <1>0, <2>2, SetStatus
<1> QED
  BY <1>1, <1>2, <1>3

\* Every step keeps the rows, but for an INSERT.
LEMMA StepRows ==
    ASSUME IInv, [Next]_vars
    PROVE  RowsKept \/ \E r \in Req : InsertOp(r) /\ UNCHANGED procVars
<1>0. StoreTypeOK /\ AtWork
  BY DEF IInv, TypeOK
<1>1. CASE UNCHANGED vars \/ PreviewActs
  <2>1. UNCHANGED <<op, scope>>
    BY <1>1 DEF vars, storeVars, PreviewActs, Preview, ExpirePreview
  <2> QED
    BY <2>1, StillRows
<1>2. ASSUME NEW r \in Req, UNCHANGED procVars, Begins(r) \/ Proceeds(r)
      PROVE  RowsKept \/ (InsertOp(r) /\ UNCHANGED procVars)
  BY <1>0, <1>2, RequestRows
<1>3. ASSUME NEW s \in Tick, TickActs(s) PROVE RowsKept
  BY <1>0, <1>3, TickRows
<1>4. CASE JobActs
  BY <1>0, <1>4, CronRows DEF JobActs
<1> QED
  BY <1>1, <1>2, <1>3, <1>4, StepCases

-----------------------------------------------------------------------------
(* What a step of one request makes of its local state.                     *)

\* Who asks for what: fixed when the request begins.
Identity(q) == <<q.user, q.key, q.token, q.retryOf>>

\* A create has a token and no source, a retry a source and no token, and an
\* answer comes at the end.
Whole(q) == /\ q.token = None \/ q.retryOf = 0
            /\ q.pc \in {"rows", "lookup"} => q.retryOf \in Op
            /\ q.pc # "done" => q.answer = 0
            /\ q.pc = "cancel" => q.key = None

Starts(r) ==
    /\ req[r].pc = "idle"
    /\ req'[r].pc \in {"consume", "rows", "cancel", "done"}
    /\ Whole(req'[r])
    /\ req'[r].answer \in {200, 201} /\ req'[r].key # None
         => req'[r].op \in WithKey(req'[r].user, req'[r].key)

LEMMA BeginsStart ==
    ASSUME IntakeTypeOK, NEW r \in Req, Begins(r)
    PROVE  Starts(r) /\ \A q \in Req \ {r} : req'[q] = req[q]
<1>0. req \in [Req -> ReqState] /\ None \notin Key \cup Token
  BY StoreAssumption DEF IntakeTypeOK
<1> USE <1>0 DEF IdleReq, Starts, Whole, AtReq
<1>1. ASSUME NEW u \in User, NEW k \in Key, NEW t \in Token, BeginCreate(r, u, k, t)
      PROVE  Starts(r) /\ \A q \in Req \ {r} : req'[q] = req[q]
  <2> DEFINE begun == [IdleReq EXCEPT !.user = u, !.key = k, !.token = t]
  <2>1. CASE req' = [req EXCEPT ![r] = [begun EXCEPT !.pc = "consume"]]
    <3>1. /\ \A q \in Req \ {r} : req'[q] = req[q]
          /\ req'[r].pc = "consume" /\ req'[r].answer = 0 /\ req'[r].retryOf = 0
      BY <2>1
    <3>2. req[r].pc = "idle"
      BY <1>1 DEF BeginCreate
    <3> QED
      BY <3>1, <3>2
  <2>2. ASSUME NEW o \in WithKey(u, k),
               req' = [req EXCEPT ![r] =
                         [begun EXCEPT !.pc = "done", !.answer = 200, !.op = o]]
        PROVE  Starts(r) /\ \A q \in Req \ {r} : req'[q] = req[q]
    <3>1. /\ \A q \in Req \ {r} : req'[q] = req[q]
          /\ req'[r].pc = "done" /\ req'[r].op = o /\ req'[r].retryOf = 0
          /\ req'[r].user = u /\ req'[r].key = k
      BY <2>2
    <3>2. req'[r].op \in WithKey(req'[r].user, req'[r].key)
      BY <3>1
    <3> QED
      BY <1>1, <3>1, <3>2 DEF BeginCreate
  <2> QED
    BY <1>1, <2>1, <2>2 DEF BeginCreate
<1>2. ASSUME NEW u \in User, NEW k \in Key, NEW o \in Op, BeginRetry(r, u, k, o)
      PROVE  Starts(r) /\ \A q \in Req \ {r} : req'[q] = req[q]
  BY <1>2 DEF BeginRetry
<1>3. ASSUME NEW u \in User, NEW o \in Op, BeginCancel(r, u, o)
      PROVE  Starts(r) /\ \A q \in Req \ {r} : req'[q] = req[q]
  BY <1>3 DEF BeginCancel
<1> QED
  BY <1>1, <1>2, <1>3 DEF Begins

\* Where a request that has begun goes on, and with which answer it ends.
Advances(r) ==
    /\ Identity(req'[r]) = Identity(req[r])
    /\ req'[r].pc # "done" => req'[r].answer = req[r].answer
    /\ \/ req'[r].pc = "done" /\ req'[r].answer \notin {200, 201}
       \/ /\ req'[r].pc = "done" /\ req'[r].answer = 200
          /\ \/ req'[r].op \in WithKey(req[r].user, req[r].key)
             \/ req[r].pc = "cancel"
       \/ /\ req[r].pc = "push" /\ req'[r].pc \in {"done", "rollback"}
          /\ req'[r].op = req[r].op
       \/ /\ req[r].pc = "consume" /\ req'[r].pc = "quota"
          /\ preview[req[r].token].state = "stored"
          /\ DeleteToken(req[r].token)
       \/ req[r].pc = "quota" /\ req'[r].pc = "insert" /\ req'[r].ids = req[r].ids
       \/ req[r].pc = "insert" /\ req'[r].pc = "refetch"
       \/ /\ req[r].pc = "rows" /\ req'[r].pc = "lookup"
          /\ ReadRows(r)
       \/ req[r].pc = "lookup" /\ req'[r].pc = "quota" /\ req'[r].ids = req[r].ids

\* The process of the request dies.
Dies(r) == req'[r] = [IdleReq EXCEPT !.pc = "done"]

LEMMA ProceedsAdvance ==
    ASSUME IntakeTypeOK, NEW r \in Req, Proceeds(r),
           ~(InsertOp(r) /\ ~KeyTaken(req[r].user, req[r].key))
    PROVE  /\ \A q \in Req \ {r} : req'[q] = req[q]
           /\ Advances(r) \/ Dies(r)
<1>0. req \in [Req -> ReqState]
      /\ {"pc", "op", "answer", "ids", "user", "key", "token", "retryOf"} \subseteq DOMAIN req[r]
  BY DEF IntakeTypeOK, ReqState
<1> DEFINE Goal == /\ \A q \in Req \ {r} : req'[q] = req[q]
                   /\ Advances(r) \/ Dies(r)
<1>b. ASSUME NEW answer, NEW o, Reply(r, answer, o)
      PROVE  /\ \A q \in Req \ {r} : req'[q] = req[q]
             /\ req'[r].pc = "done" /\ req'[r].answer = answer /\ req'[r].op = o
             /\ Identity(req'[r]) = Identity(req[r])
  BY <1>b, <1>0 DEF Reply, Identity
<1>c. ASSUME NEW answer, NEW o, Reply(r, answer, o), answer \notin {200, 201}
      PROVE  Goal
  BY <1>b, <1>c DEF Advances
<1>d. ASSUME NEW pc, GotoReq(r, pc)
      PROVE  /\ Identity(req'[r]) = Identity(req[r]) /\ req'[r].pc = pc
             /\ req'[r].answer = req[r].answer
             /\ req'[r].op = req[r].op /\ req'[r].ids = req[r].ids
             /\ \A q \in Req \ {r} : req'[q] = req[q]
  BY <1>d, <1>0 DEF GotoReq, Identity
<1>1. CASE ConsumeToken(r)
  <2>1. \/ \E answer \in {400, 404, 409} : Reply(r, answer, 0)
        \/ /\ req[r].pc = "consume" /\ preview[req[r].token].state = "stored"
           /\ DeleteToken(req[r].token)
           /\ req' = [req EXCEPT ![r].pc = "quota", ![r].ids = preview[req[r].token].ids]
    BY <1>1 DEF ConsumeToken, AtReq
  <2>2. CASE \E answer \in {400, 404, 409} : Reply(r, answer, 0)
    BY <1>c, <2>2
  <2>3. CASE /\ req[r].pc = "consume" /\ preview[req[r].token].state = "stored"
             /\ DeleteToken(req[r].token)
             /\ req' = [req EXCEPT ![r].pc = "quota", ![r].ids = preview[req[r].token].ids]
    <3>1. /\ \A q \in Req \ {r} : req'[q] = req[q]
          /\ Identity(req'[r]) = Identity(req[r]) /\ req'[r].pc = "quota"
          /\ req'[r].answer = req[r].answer
      BY <1>0, <2>3 DEF Identity
    <3> QED
      BY <2>3, <3>1 DEF Advances
  <2> QED
    BY <2>1, <2>2, <2>3
<1>2. CASE CheckQuota(r)
  <2>1. CASE \E answer \in {429, 503} : Reply(r, answer, 0)
    BY <1>c, <2>1
  <2>2. CASE GotoReq(r, "insert")
    BY <1>2, <1>d, <2>2 DEF Advances, CheckQuota, AtReq
  <2> QED
    BY <1>2, <2>1, <2>2 DEF CheckQuota
<1>3. CASE InsertOp(r)
  <2>1. GotoReq(r, "refetch") /\ req[r].pc = "insert"
    BY <1>3 DEF InsertOp, AtReq
  <2> QED
    BY <1>d, <2>1 DEF Advances
<1>4. CASE Refetch(r)
  <2>1. \/ Reply(r, 500, 0)
        \/ \E o \in WithKey(req[r].user, req[r].key) : Reply(r, 200, o)
    BY <1>4 DEF Refetch
  <2>2. CASE Reply(r, 500, 0)
    BY <1>c, <2>2
  <2>3. ASSUME NEW o \in WithKey(req[r].user, req[r].key), Reply(r, 200, o)
        PROVE  Goal
    BY <1>b, <2>3 DEF Advances
  <2> QED
    BY <2>1, <2>2, <2>3
<1>5. CASE PushQueue(r)
  <2>1. /\ req[r].pc = "push"
        /\ \/ Reply(r, 201, req[r].op) \/ Reply(r, 500, req[r].op) \/ GotoReq(r, "rollback")
    BY <1>5 DEF PushQueue, AtReq
  <2>2. CASE Reply(r, 500, req[r].op)
    BY <1>c, <2>2
  <2>3. CASE Reply(r, 201, req[r].op)
    BY <1>b, <2>1, <2>3 DEF Advances
  <2>4. CASE GotoReq(r, "rollback")
    BY <1>d, <2>1, <2>4 DEF Advances
  <2> QED
    BY <2>1, <2>2, <2>3, <2>4
<1>6. CASE Rollback(r)
  <2>1. \E answer \in {500, 503} : Reply(r, answer, req[r].op)
    BY <1>6 DEF Rollback
  <2> QED
    BY <1>c, <2>1
<1>7. CASE ReadRows(r)
  <2>1. CASE Reply(r, 410, 0)
    BY <1>c, <2>1
  <2>2. CASE ~Reply(r, 410, 0)
    <3>1. PICK ids : req' = [req EXCEPT ![r].pc = "lookup", ![r].ids = ids]
      BY <1>7, <2>2 DEF ReadRows
    <3>2. /\ \A q \in Req \ {r} : req'[q] = req[q]
          /\ Identity(req'[r]) = Identity(req[r]) /\ req'[r].pc = "lookup"
          /\ req'[r].answer = req[r].answer
      BY <1>0, <3>1 DEF Identity
    <3>3. req[r].pc = "rows"
      BY <1>7 DEF ReadRows, AtReq
    <3> QED
      BY <1>7, <3>2, <3>3 DEF Advances
  <2> QED
    BY <2>1, <2>2
<1>8. CASE LookupRetry(r)
  <2>1. /\ req[r].pc = "lookup"
        /\ \/ GotoReq(r, "quota")
           \/ \E o \in WithKey(req[r].user, req[r].key) : Reply(r, 200, o)
    BY <1>8 DEF LookupRetry, AtReq
  <2>2. CASE GotoReq(r, "quota")
    BY <1>d, <2>1, <2>2 DEF Advances
  <2>3. ASSUME NEW o \in WithKey(req[r].user, req[r].key), Reply(r, 200, o)
        PROVE  Goal
    BY <1>b, <2>3 DEF Advances
  <2> QED
    BY <2>1, <2>2, <2>3
<1>9. CASE SetCancel(r)
  <2>1. req[r].pc = "cancel" /\ \E answer \in {200, 500} : Reply(r, answer, req[r].op)
    BY <1>9 DEF SetCancel, AtReq
  <2> QED
    BY <1>b, <2>1 DEF Advances
<1>10. CASE KillRequest(r)
  BY <1>0, <1>10 DEF KillRequest, Dies
<1> QED
  BY <1>1, <1>2, <1>3, <1>4, <1>5, <1>6, <1>7, <1>8, <1>9, <1>10 DEF Proceeds

\* The INSERT of a request whose key is free.
Inserts(r, n) ==
    /\ op[n].status = "ABSENT" /\ WithKey(req[r].user, req[r].key) = {}
    /\ \A p \in Op \ {n} : op'[p] = op[p] /\ scope'[p] = scope[p]
    /\ /\ op'[n].status = "QUEUED" /\ ~op'[n].cancelRequested
       /\ op'[n].owner = req[r].user /\ op'[n].key = req[r].key
       /\ op'[n].token = req[r].token /\ op'[n].retryOf = req[r].retryOf
       /\ op'[n].total = Len(req[r].ids) /\ op'[n].processed = 0
       /\ op'[n].succeeded = 0 /\ op'[n].failed = 0 /\ op'[n].skipped = 0
    /\ scope'[n] = req[r].ids
    /\ UNCHANGED <<queue, items, applied, late, faults, preview>>
    /\ req[r].pc = "insert" /\ req'[r].pc = "push" /\ req'[r].op = n
    /\ Identity(req'[r]) = Identity(req[r]) /\ req'[r].answer = req[r].answer
    /\ \A q \in Req \ {r} : req'[q] = req[q]

LEMMA InsertsRow ==
    ASSUME TypeOK, NEW r \in Req, InsertOp(r), ~KeyTaken(req[r].user, req[r].key)
    PROVE  \E n \in Op : Inserts(r, n)
<1>0. /\ op \in [Op -> OpRow] /\ scope \in [Op -> Seq(Issue)]
      /\ req \in [Req -> ReqState]
      /\ {"pc", "op", "answer", "ids", "user", "key", "token", "retryOf"} \subseteq DOMAIN req[r]
  BY DEF TypeOK, StoreTypeOK, IntakeTypeOK, ReqState
<1>1. PICK n \in Op :
        /\ op[n].status = "ABSENT"
        /\ op' = [op EXCEPT ![n] =
             [AbsentOp EXCEPT !.status = "QUEUED", !.owner = req[r].user,
                !.key = req[r].key, !.token = req[r].token, !.retryOf = req[r].retryOf,
                !.total = Len(req[r].ids)]]
        /\ scope' = [scope EXCEPT ![n] = req[r].ids]
        /\ req' = [req EXCEPT ![r].pc = "push", ![r].op = n, ![r].ids = << >>]
  BY DEF InsertOp, IsNextId
<1>2. /\ op'[n].status = "QUEUED" /\ ~op'[n].cancelRequested
      /\ op'[n].owner = req[r].user /\ op'[n].key = req[r].key
      /\ op'[n].token = req[r].token /\ op'[n].retryOf = req[r].retryOf
      /\ op'[n].total = Len(req[r].ids) /\ op'[n].processed = 0
      /\ op'[n].succeeded = 0 /\ op'[n].failed = 0 /\ op'[n].skipped = 0
  BY <1>0, <1>1 DEF AbsentOp
<1>3. /\ \A p \in Op \ {n} : op'[p] = op[p] /\ scope'[p] = scope[p]
      /\ scope'[n] = req[r].ids
  BY <1>0, <1>1
<1>4. /\ req'[r].pc = "push" /\ req'[r].op = n /\ req'[r].answer = req[r].answer
      /\ Identity(req'[r]) = Identity(req[r])
      /\ \A q \in Req \ {r} : req'[q] = req[q]
  BY <1>0, <1>1 DEF Identity
<1>5. /\ req[r].pc = "insert" /\ WithKey(req[r].user, req[r].key) = {}
      /\ UNCHANGED <<queue, items, applied, late, faults, preview>>
  BY DEF InsertOp, AtReq, KeyTaken
<1> QED
  BY <1>1, <1>2, <1>3, <1>4, <1>5 DEF Inserts

\* One request steps, in one of five ways.
LEMMA RequestCases ==
    ASSUME TypeOK, NEW r \in Req, Begins(r) \/ Proceeds(r)
    PROVE  /\ \A q \in Req \ {r} : req'[q] = req[q]
           /\ \/ RowsKept /\ Starts(r)
              \/ RowsKept /\ Advances(r)
              \/ RowsKept /\ Dies(r)
              \/ \E n \in Op : Inserts(r, n)
<1>0. StoreTypeOK /\ IntakeTypeOK
  BY DEF TypeOK
<1>1. CASE InsertOp(r) /\ ~KeyTaken(req[r].user, req[r].key)
  BY <1>1, InsertsRow DEF Inserts
<1>2. CASE ~(InsertOp(r) /\ ~KeyTaken(req[r].user, req[r].key))
  <2>1. RowsKept
    <3>1. CASE InsertOp(r)
      <4>1. UNCHANGED <<op, scope>>
        BY <1>2, <3>1 DEF InsertOp
      <4> QED
        BY <4>1, StillRows
    <3>2. CASE ~InsertOp(r)
      BY <1>0, <3>2, RequestRows
    <3> QED
      BY <3>1, <3>2
  <2>2. CASE Begins(r)
    BY <1>0, <2>1, <2>2, BeginsStart
  <2>3. CASE Proceeds(r)
    BY <1>0, <1>2, <2>1, <2>3, ProceedsAdvance
  <2> QED
    BY <2>2, <2>3
<1> QED
  BY <1>1, <1>2

-----------------------------------------------------------------------------
(* Tokens and keys.                                                         *)

\* A create that has consumed its token and not inserted its row yet.
Paying(q) == q.pc \in {"quota", "insert"} /\ q.token # None

\* A token is stored, or with one request, or spent on one operation.
TokenCustody ==
    /\ \A r \in Req : Paying(req[r]) =>
         /\ preview[req[r].token].state = "gone"
         /\ \A o \in Op : op[o].token # req[r].token
         /\ \A q \in Req \ {r} : Paying(req[q]) => req[q].token # req[r].token
    /\ \A o \in Op : op[o].token # None => preview[op[o].token].state = "gone"
    /\ TokenSpentOnce

\* No two existing operations share owner and key (the unique index), and a
\* request is answered with an operation of its own user and key.
UniqueKey ==
    \A o, p \in Op : /\ Exists(o) /\ Exists(p)
                     /\ op[o].owner = op[p].owner /\ op[o].key = op[p].key
                     => o = p

Named(q) ==
    (q.pc = "push" \/ q.answer \in {200, 201}) /\ q.key # None =>
      /\ q.op \in Op /\ op[q.op].status # "ABSENT"
      /\ op[q.op].owner = q.user /\ op[q.op].key = q.key

KeyCustody ==
    /\ UniqueKey
    /\ \A r \in Req : Named(req[r]) /\ Whole(req[r])

LEMMA InitCustody == Init => TokenCustody /\ KeyCustody
BY DEF Init, StoreInit, IntakeInit, AbsentOp, IdleReq, TokenCustody, Paying,
       TokenSpentOnce, KeyCustody, UniqueKey, Exists, Active, Terminal, ActiveStatus,
       TerminalStatus, Named, Whole

\* Tokens that are gone stay gone.
GoneStays == \A t \in Token : preview[t].state = "gone" => preview'[t].state = "gone"

LEMMA DeletingIsGone ==
    ASSUME IntakeTypeOK, NEW t, DeleteToken(t)
    PROVE  GoneStays /\ (t \in Token => preview'[t].state = "gone")
BY DEF IntakeTypeOK, PreviewState, DeleteToken, GoneStays

LEMMA StepTokens ==
    ASSUME IntakeTypeOK, [Next]_vars
    PROVE  GoneStays
<1>1. CASE UNCHANGED preview
  BY <1>1 DEF GoneStays
<1>2. CASE PreviewActs
  <2>1. ASSUME NEW u \in User, NEW t \in Token, NEW ids \in Scope, Preview(u, t, ids)
        PROVE  GoneStays
    BY <2>1 DEF Preview, GoneStays, IntakeTypeOK
  <2>2. ASSUME NEW t \in Token, ExpirePreview(t) PROVE GoneStays
    BY <2>2 DEF ExpirePreview, GoneStays, IntakeTypeOK, PreviewState
  <2> QED
    BY <1>2, <2>1, <2>2 DEF PreviewActs
<1>3. ASSUME NEW r \in Req, Begins(r) \/ Proceeds(r), preview' # preview
      PROVE  GoneStays
  <2>1. \E t : DeleteToken(t)
    BY <1>3 DEF Begins, Proceeds, BeginCreate, BeginRetry, BeginCancel, ConsumeToken,
       CheckQuota, InsertOp, Refetch, PushQueue, Rollback, ReadRows, LookupRetry, SetCancel,
       KillRequest
  <2> QED
    BY <2>1, DeletingIsGone
<1> QED
  BY <1>1, <1>2, <1>3, StepCases DEF vars, intakeVars

\* Rows that are kept and tokens that stay gone disturb nothing, as long as no
\* request comes to pay.
LEMMA KeepsTokens ==
    ASSUME IntakeTypeOK, StoreTypeOK, TokenCustody, RowsKept, GoneStays,
           \A q \in Req : Paying(req'[q]) =>
              Paying(req[q]) /\ req'[q].token = req[q].token
    PROVE  TokenCustody'
<1>1. \A o \in Op : op'[o].token = op[o].token
  BY DEF RowsKept, Columns
<1>2. /\ \A q \in Req : Paying(req[q]) => req[q].token \in Token
      /\ \A o \in Op : op[o].token # None => op[o].token \in Token
  BY DEF IntakeTypeOK, ReqState, StoreTypeOK, OpRow, Paying
<1>3. (TokenSpentOnce)'
  BY <1>1 DEF TokenCustody, TokenSpentOnce
<1>4. \A o \in Op : op'[o].token # None => preview'[op'[o].token].state = "gone"
  BY <1>1, <1>2 DEF TokenCustody, GoneStays
<1>5. ASSUME NEW r \in Req, Paying(req'[r])
      PROVE  /\ preview'[req'[r].token].state = "gone"
             /\ \A o \in Op : op'[o].token # req'[r].token
             /\ \A q \in Req \ {r} : Paying(req'[q]) => req'[q].token # req'[r].token
  BY <1>1, <1>2, <1>5 DEF TokenCustody, GoneStays
<1> QED
  BY <1>3, <1>4, <1>5 DEF TokenCustody

LEMMA KeepsKeys ==
    ASSUME RowsKept, KeyCustody, NEW r \in Req,
           \A q \in Req \ {r} : req'[q] = req[q],
           Named(req[r])', Whole(req[r])'
    PROVE  KeyCustody'
<1>1. \A o \in Op : /\ op'[o].owner = op[o].owner /\ op'[o].key = op[o].key
                    /\ op'[o].status = "ABSENT" <=> op[o].status = "ABSENT"
                    /\ Exists(o)' => Exists(o)
  BY DEF RowsKept, Columns
<1>2. UniqueKey'
  BY <1>1 DEF KeyCustody, UniqueKey
<1>3. \A q \in Req \ {r} : Named(req[q])' /\ Whole(req[q])'
  BY <1>1 DEF KeyCustody, Named, Whole
<1> QED
  BY <1>2, <1>3 DEF KeyCustody

\* A request that begins, goes on or dies.
LEMMA StepsTokens ==
    ASSUME TypeOK, TokenCustody, KeyCustody, RowsKept, GoneStays, NEW r \in Req,
           \A q \in Req \ {r} : req'[q] = req[q],
           Starts(r) \/ Advances(r) \/ Dies(r)
    PROVE  TokenCustody'
<1>0. StoreTypeOK /\ IntakeTypeOK /\ Whole(req[r])
  BY DEF TypeOK, KeyCustody
<1>1. CASE Paying(req'[r]) => Paying(req[r]) /\ req'[r].token = req[r].token
  BY <1>0, <1>1, KeepsTokens
<1>2. CASE ~(Paying(req'[r]) => Paying(req[r]) /\ req'[r].token = req[r].token)
  <2>1. Advances(r) /\ req'[r].pc \in {"quota", "insert"}
    BY <1>2 DEF Starts, Paying, IdleReq, Dies
  <2>2. req'[r].token = req[r].token /\ req[r].token # None
    BY <1>2, <2>1 DEF Advances, Identity, Paying
  <2>3. req[r].pc = "consume" /\ preview[req[r].token].state = "stored"
        /\ DeleteToken(req[r].token)
    <3>1. req[r].pc # "lookup"
      BY <1>0, <2>2, StoreAssumption DEF Whole, Op
    <3>2. req[r].pc # "quota"
      BY <1>2, <2>2 DEF Paying
    <3> QED
      BY <2>1, <3>1, <3>2 DEF Advances
  <2>4. req[r].token \in Token
    BY <1>0, <2>2 DEF IntakeTypeOK, ReqState
  <2>5. preview'[req[r].token].state = "gone"
    BY <1>0, <2>3, <2>4, DeletingIsGone
  <2>6. \A o \in Op : op'[o].token = op[o].token
    BY DEF RowsKept, Columns
  <2>7. /\ \A o \in Op : op[o].token # req[r].token
        /\ \A q \in Req : Paying(req[q]) => req[q].token # req[r].token
    BY <2>2, <2>3 DEF TokenCustody
  <2>8. \A q \in Req : Paying(req[q]) => req[q].token \in Token
    BY <1>0 DEF IntakeTypeOK, ReqState, Paying
  <2>9. \A o \in Op : op[o].token # None => op[o].token \in Token
    BY <1>0 DEF StoreTypeOK, OpRow
  <2>10. TokenSpentOnce'
    BY <2>6 DEF TokenCustody, TokenSpentOnce
  <2>11. \A o \in Op : op'[o].token # None => preview'[op'[o].token].state = "gone"
    BY <2>6, <2>9 DEF TokenCustody, GoneStays
  <2>12. ASSUME NEW q \in Req, Paying(req'[q])
         PROVE  /\ preview'[req'[q].token].state = "gone"
                /\ \A o \in Op : op'[o].token # req'[q].token
                /\ \A p \in Req \ {q} : Paying(req'[p]) => req'[p].token # req'[q].token
    <3>1. CASE q = r
      BY <2>2, <2>5, <2>6, <2>7, <3>1
    <3>2. CASE q # r
      <4>1. req'[q] = req[q] /\ Paying(req[q]) /\ req[q].token \in Token
        BY <2>8, <2>12, <3>2
      <4>2. /\ preview'[req[q].token].state = "gone"
            /\ \A o \in Op : op'[o].token # req[q].token
        BY <2>6, <4>1 DEF TokenCustody, GoneStays
      <4>3. \A p \in Req \ {q} : Paying(req'[p]) => req'[p].token # req[q].token
        BY <2>2, <2>7, <4>1 DEF TokenCustody
      <4> QED
        BY <4>1, <4>2, <4>3
    <3> QED
      BY <3>1, <3>2
  <2> QED
    BY <2>10, <2>11, <2>12 DEF TokenCustody
<1> QED
  BY <1>1, <1>2

LEMMA StepsKeys ==
    ASSUME TypeOK, OnePusher, KeyCustody, RowsKept, NEW r \in Req,
           \A q \in Req \ {r} : req'[q] = req[q],
           Starts(r) \/ Advances(r) \/ Dies(r)
    PROVE  KeyCustody'
<1>0. \A o \in Op : /\ op'[o].owner = op[o].owner /\ op'[o].key = op[o].key
                    /\ op[o].status # "ABSENT" => op'[o].status # "ABSENT"
  BY DEF RowsKept, Columns
<1>k. Whole(req[r]) /\ Named(req[r])
  BY DEF KeyCustody
<1>f. \A u, k : \A o \in WithKey(u, k) :
        o \in Op /\ op[o].status # "ABSENT" /\ op[o].owner = u /\ op[o].key = k
  BY DEF WithKey, Exists, Active, Terminal, ActiveStatus, TerminalStatus
<1>n. ASSUME (req'[r].pc = "push" \/ req'[r].answer \in {200, 201}) /\ req'[r].key # None
        => /\ req'[r].op \in Op /\ op[req'[r].op].status # "ABSENT"
           /\ op[req'[r].op].owner = req'[r].user /\ op[req'[r].op].key = req'[r].key
      PROVE  Named(req[r])'
  <2>1. ASSUME NEW o \in Op, op[o].status # "ABSENT"
        PROVE  /\ op'[o].status # "ABSENT"
               /\ op'[o].owner = op[o].owner /\ op'[o].key = op[o].key
    BY <1>0, <2>1
  <2>2. ASSUME (req'[r].pc = "push" \/ req'[r].answer \in {200, 201}) /\ req'[r].key # None
        PROVE  /\ req'[r].op \in Op /\ op'[req'[r].op].status # "ABSENT"
               /\ op'[req'[r].op].owner = req'[r].user
               /\ op'[req'[r].op].key = req'[r].key
    BY <1>n, <2>1, <2>2
  <2> QED
    BY <2>2 DEF Named
<1>1. CASE Starts(r)
  <2>1. Whole(req[r])'
    BY <1>1 DEF Starts, Whole
  <2>2. ASSUME req'[r].pc = "push" \/ req'[r].answer \in {200, 201}, req'[r].key # None
        PROVE  /\ req'[r].op \in Op /\ op[req'[r].op].status # "ABSENT"
               /\ op[req'[r].op].owner = req'[r].user /\ op[req'[r].op].key = req'[r].key
    <3>1. req'[r].op \in WithKey(req'[r].user, req'[r].key)
      BY <1>1, <2>2 DEF Starts
    <3> QED
      BY <1>f, <3>1
  <2>3. Named(req[r])'
    BY <1>n, <2>2
  <2> QED
    BY <2>1, <2>3, KeepsKeys
<1>2. CASE Advances(r)
  <2>0. /\ req'[r].user = req[r].user /\ req'[r].key = req[r].key
        /\ req'[r].token = req[r].token /\ req'[r].retryOf = req[r].retryOf
    BY <1>2 DEF Advances, Identity
  <2>1. Whole(req[r])'
    BY <1>k, <1>2, <2>0 DEF Advances, Whole
  <2>2. req'[r].pc # "push"
    BY <1>2 DEF Advances
  <2>3. ASSUME req'[r].answer \in {200, 201}, req[r].key # None
        PROVE  /\ req'[r].op \in Op /\ op[req'[r].op].status # "ABSENT"
               /\ op[req'[r].op].owner = req[r].user /\ op[req'[r].op].key = req[r].key
    BY <1>k, <1>2, <1>f, <2>3 DEF Advances, Whole, Named
  <2>4. Named(req[r])'
    BY <1>n, <2>0, <2>2, <2>3
  <2> QED
    BY <2>1, <2>4, KeepsKeys
<1>3. CASE Dies(r)
  <2>1. Whole(req[r])' /\ Named(req[r])'
    BY <1>3 DEF Whole, Named, IdleReq, Dies
  <2> QED
    BY <2>1, KeepsKeys
<1> QED
  BY <1>1, <1>2, <1>3

\* The token moves from the request to its row, and the key was free.
LEMMA InsertTokens ==
    ASSUME TypeOK, TokenCustody, NEW r \in Req, NEW n \in Op, Inserts(r, n)
    PROVE  TokenCustody'
<1>1. /\ op'[n].token = req[r].token
      /\ \A p \in Op \ {n} : op'[p].token = op[p].token
      /\ \A q \in Req : req'[q].token = req[q].token
      /\ \A q \in Req : Paying(req'[q]) => q # r /\ Paying(req[q])
      /\ req[r].token # None => Paying(req[r])
      /\ UNCHANGED preview
  BY DEF Inserts, Identity, Paying
<1>2. TokenSpentOnce'
  BY <1>1 DEF TokenCustody, TokenSpentOnce
<1>3. \A o \in Op : op'[o].token # None => preview'[op'[o].token].state = "gone"
  BY <1>1 DEF TokenCustody
<1>4. ASSUME NEW q \in Req, Paying(req'[q])
      PROVE  /\ preview'[req'[q].token].state = "gone"
             /\ \A o \in Op : op'[o].token # req'[q].token
             /\ \A p \in Req \ {q} : Paying(req'[p]) => req'[p].token # req'[q].token
  <2>1. q # r /\ Paying(req[q]) /\ req[q].token # None /\ req'[q].token = req[q].token
    BY <1>1, <1>4 DEF Paying
  <2>2. req[r].token # req[q].token
    BY <1>1, <2>1 DEF TokenCustody
  <2> QED
    BY <1>1, <2>1, <2>2 DEF TokenCustody
<1> QED
  BY <1>2, <1>3, <1>4 DEF TokenCustody

LEMMA InsertKeys ==
    ASSUME TypeOK, KeyCustody, NEW r \in Req, NEW n \in Op, Inserts(r, n)
    PROVE  KeyCustody'
<1>1. /\ op[n].status = "ABSENT" /\ op'[n].status = "QUEUED"
      /\ \A p \in Op \ {n} : op'[p] = op[p]
      /\ op'[n].owner = req[r].user /\ op'[n].key = req[r].key
      /\ \A p \in Op : Exists(p) => ~(op[p].owner = req[r].user /\ op[p].key = req[r].key)
  BY DEF Inserts, WithKey
<1>2. UniqueKey'
  <2>1. \A p \in Op \ {n} : Exists(p)' => Exists(p)
    BY <1>1 DEF Exists, Active, Terminal
  <2> QED
    BY <1>1, <2>1 DEF KeyCustody, UniqueKey
<1>3. ASSUME NEW q \in Req PROVE Named(req[q])' /\ Whole(req[q])'
  <2>1. CASE q = r
    <3>1. /\ req'[r].pc = "push" /\ req'[r].op = n /\ req'[r].answer = req[r].answer
          /\ req[r].pc = "insert"
          /\ Identity(req'[r]) = Identity(req[r])
      BY DEF Inserts
    <3>2. Whole(req[r])
      BY DEF KeyCustody
    <3> QED
      BY <1>1, <2>1, <3>1, <3>2 DEF Named, Whole, Identity
  <2>2. CASE q # r
    <3>1. req'[q] = req[q] /\ Named(req[q]) /\ Whole(req[q])
      BY <2>2 DEF Inserts, KeyCustody
    <3> QED
      BY <1>1, <3>1 DEF Named, Whole
  <2> QED
    BY <2>1, <2>2
<1> QED
  BY <1>2, <1>3 DEF KeyCustody

LEMMA NextKeepsCustody ==
    ASSUME IInv, TokenCustody, KeyCustody, [Next]_vars
    PROVE  TokenCustody' /\ KeyCustody'
<1>0. TypeOK /\ StoreTypeOK /\ IntakeTypeOK /\ AtWork /\ OnePusher /\ GoneStays
  BY StepTokens DEF IInv, TypeOK, Ledger
<1>1. CASE RowsKept /\ UNCHANGED req
  <2>1. TokenCustody'
    BY <1>0, <1>1, KeepsTokens
  <2>2. UniqueKey' /\ \A q \in Req : Named(req[q])' /\ Whole(req[q])'
    BY <1>1 DEF RowsKept, Columns, KeyCustody, UniqueKey, Named, Whole
  <2> QED
    BY <2>1, <2>2 DEF KeyCustody
<1>2. ASSUME NEW r \in Req, Begins(r) \/ Proceeds(r)
      PROVE  TokenCustody' /\ KeyCustody'
  <2>1. CASE \E n \in Op : Inserts(r, n)
    BY <1>0, <2>1, InsertTokens, InsertKeys
  <2>2. CASE ~\E n \in Op : Inserts(r, n)
    <3>1. /\ RowsKept /\ \A q \in Req \ {r} : req'[q] = req[q]
          /\ Starts(r) \/ Advances(r) \/ Dies(r)
      BY <1>0, <1>2, <2>2, RequestCases
    <3> QED
      BY <1>0, <3>1, StepsTokens, StepsKeys
  <2> QED
    BY <2>1, <2>2
<1>3. CASE ~\E r \in Req : Begins(r) \/ Proceeds(r)
  <2>1. UNCHANGED req
    BY <1>3, StepCases DEF vars, intakeVars, PreviewActs, Preview, ExpirePreview
  <2>2. RowsKept
    BY <1>3, StepRows DEF Proceeds
  <2> QED
    BY <1>1, <2>1, <2>2
<1> QED
  BY <1>2, <1>3

\* Every create, retry, cancel, tick and failure keeps the preview tokens and
\* the idempotency keys in one custody each.
THEOREM CustodyInvariant == Spec => [](TokenCustody /\ KeyCustody)
<1>1. Init => TokenCustody /\ KeyCustody
  BY InitCustody
<1>2. IInv /\ TokenCustody /\ KeyCustody /\ [Next]_vars => (TokenCustody /\ KeyCustody)'
  BY NextKeepsCustody
<1> QED
  BY <1>1, <1>2, LedgerInvariant, PTL DEF Spec

\* A preview token pays for one operation (GETDEL in create), however many
\* requests submit it and whatever fails in between.
THEOREM TokenSpentOnceTheorem == Spec => []TokenSpentOnce
<1>1. TokenCustody => TokenSpentOnce
  BY DEF TokenCustody
<1> QED
  BY <1>1, CustodyInvariant, PTL

\* Requests of one user with one idempotency key are answered with one
\* operation while it exists: the unique index and the refetch after P2002.
THEOREM SameKeySameOpTheorem == Spec => []SameKeySameOp
<1>1. TypeOK /\ KeyCustody => SameKeySameOp
  <2> SUFFICES ASSUME TypeOK, KeyCustody, NEW r1 \in Req, NEW r2 \in Req,
                      {req[r1].answer, req[r2].answer} \subseteq {200, 201},
                      req[r1].key # None,
                      req[r1].user = req[r2].user, req[r1].key = req[r2].key,
                      \A r \in {r1, r2} : op[req[r].op].status # "DELETED"
               PROVE  req[r1].op = req[r2].op
    BY DEF SameKeySameOp
  <2>1. \A r \in {r1, r2} : /\ req[r].op \in Op /\ op[req[r].op].status # "ABSENT"
                           /\ op[req[r].op].owner = req[r].user
                           /\ op[req[r].op].key = req[r].key
    BY DEF KeyCustody, Named
  <2>2. \A r \in {r1, r2} : Exists(req[r].op)
    BY <2>1 DEF TypeOK, StoreTypeOK, OpRow, Status, Exists, Active, Terminal
  <2> QED
    BY <2>1, <2>2 DEF KeyCustody, UniqueKey
<1>2. IInv => TypeOK
  BY DEF IInv
<1> QED
  BY <1>1, <1>2, CustodyInvariant, LedgerInvariant, PTL

-----------------------------------------------------------------------------
(* What a step of one tick makes of entries, rows and counters.             *)

\* The tick goes on with what it holds, or drops it and looks for an operation.
Continues(s) == /\ tick'[s].op = tick[s].op /\ tick'[s].drained = tick[s].drained
                /\ tick'[s].todo = tick[s].todo /\ tick'[s].done = tick[s].done
Rests(s) == /\ tick'[s].todo = {} /\ tick'[s].done = {} /\ tick'[s].drained = 0
            /\ tick'[s].op = 0 \/ (tick'[s].op \in Op /\ Active(tick'[s].op))

Counters(row) == <<row.processed, row.succeeded, row.failed, row.skipped>>

\* No entry, row or counter moves.
Calm(s) == /\ UNCHANGED <<queue, items, applied>>
           /\ \A p \in Op : Counters(op'[p]) = Counters(op[p])
           /\ Continues(s) \/ Rests(s)

\* LPOP, with or without a reply.
Pops(s) ==
    LET o == tick[s].op IN
    /\ o \in Op /\ UNCHANGED <<op, items, applied>>
    /\ \E batch \in SUBSET queue[o] :
         /\ queue' = [queue EXCEPT ![o] = @ \ batch]
         /\ \/ Continues(s) \/ Rests(s)
            \/ /\ tick'[s].op = o /\ tick'[s].todo = batch
               /\ tick'[s].done = tick[s].done /\ tick'[s].drained = tick[s].drained

\* The loop body of executeItem for entry k.
Handles(s, k, outcome, effect) ==
    LET o == tick[s].op IN
    /\ o \in Op /\ UNCHANGED <<op, queue, items>>
    /\ outcome = "SUCCEEDED" => effect
    /\ outcome = "SKIPPED" => ~effect
    /\ k \in tick[s].todo /\ outcome \in {"SUCCEEDED", "FAILED", "SKIPPED"}
    /\ applied' = IF effect THEN [applied EXCEPT ![o][k] = @ + 1] ELSE applied
    /\ tick'[s].op = o /\ tick'[s].drained = tick[s].drained
    /\ tick'[s].todo = tick[s].todo \ {k}
    /\ tick'[s].done = tick[s].done \cup {[entry |-> k, outcome |-> outcome]}

\* The transaction that commits a batch.
Commits(s) ==
    LET o == tick[s].op IN
    /\ o \in Op /\ Exists(o) /\ UNCHANGED <<queue, applied>>
    /\ tick[s].pc = "execute" /\ tick[s].todo = {}
    /\ items' = [items EXCEPT ![o] = @ \cup RowsToInsert(tick[s].done)]
    /\ op' = [op EXCEPT ![o] = CountBatch(@, tick[s].done)]
    /\ tick'[s].op = o /\ tick'[s].drained = tick[s].drained
    /\ tick'[s].todo = {} /\ tick'[s].done = {}

\* createMany of a drained chunk.
Records(s) ==
    LET o == tick[s].op IN
    /\ o \in Op /\ UNCHANGED <<op, queue, applied>>
    /\ items' = [items EXCEPT ![o] =
         @ \cup {[entry |-> k, outcome |-> "CANCELLED"] : k \in tick[s].todo}]
    /\ tick'[s].op = o /\ tick'[s].todo = {} /\ tick'[s].done = tick[s].done
    /\ tick'[s].drained = tick[s].drained + Cardinality(tick[s].todo)

\* The last update of finalizeCancelled.
Cancels(s) ==
    LET o == tick[s].op IN
    /\ o \in Op /\ Exists(o) /\ UNCHANGED <<queue, items, applied>>
    /\ op' = [op EXCEPT ![o].status = "CANCELLED",
                        ![o].skipped = @ + tick[s].drained,
                        ![o].processed = @ + tick[s].drained]
    /\ tick'[s].todo = {} /\ tick'[s].done = {} /\ tick'[s].drained = 0
    /\ tick'[s].op = 0

Moves(s) ==
    /\ \A q \in Tick \ {s} : tick'[q] = tick[q]
    /\ \/ Calm(s) \/ Pops(s) \/ Commits(s) \/ Records(s) \/ Cancels(s)
       \/ \E k \in Entry, outcome \in {"SUCCEEDED", "FAILED", "SKIPPED"}, effect \in BOOLEAN :
            Handles(s, k, outcome, effect)

LEMMA CalmStatus ==
    ASSUME StoreTypeOK, NEW o, NEW status, op' = [op EXCEPT ![o].status = status]
    PROVE  \A p \in Op : Counters(op'[p]) = Counters(op[p])
<1>1. op \in [Op -> OpRow]
  BY DEF StoreTypeOK
<1>2. PICK row : row = [op[o] EXCEPT !.status = status]
  OBVIOUS
<1>3. op' = [op EXCEPT ![o] = row]
  BY <1>2
<1>4. o \in Op => Counters(row) = Counters(op[o])
  BY <1>1, <1>2 DEF Counters, OpRow
<1>5. ASSUME NEW p \in Op PROVE Counters(op'[p]) = Counters(op[p])
  <2>1. CASE p = o
    BY <1>1, <1>3, <1>4, <2>1
  <2>2. CASE p # o
    BY <1>1, <1>3, <2>2
  <2> QED
    BY <2>1, <2>2
<1> QED
  BY <1>5

LEMMA Locals ==
    ASSUME ProcTypeOK, NEW s \in Tick
    PROVE  /\ \A pc : Goto(s, pc) => /\ Continues(s) /\ tick'[s].pc = pc
                                    /\ tick'[s].verdict = tick[s].verdict
                                    /\ \A q \in Tick \ {s} : tick'[q] = tick[q]
           /\ Leave(s) => /\ Rests(s) /\ tick'[s].op = 0 /\ tick'[s].pc = "release"
                          /\ \A q \in Tick \ {s} : tick'[q] = tick[q]
           /\ tick' = [tick EXCEPT ![s] = IdleTick] =>
                          /\ Rests(s) /\ tick'[s].op = 0 /\ tick'[s].pc = "idle"
                          /\ \A q \in Tick \ {s} : tick'[q] = tick[q]
           /\ UNCHANGED tick => /\ Continues(s)
                                /\ \A q \in Tick \ {s} : tick'[q] = tick[q]
<1>1. /\ tick \in [Tick -> TickState]
      /\ {"pc", "op", "todo", "done", "verdict", "drained"} \subseteq DOMAIN tick[s]
  BY DEF ProcTypeOK, TickState
<1>2. ASSUME NEW pc, Goto(s, pc)
      PROVE  /\ Continues(s) /\ tick'[s].pc = pc /\ tick'[s].verdict = tick[s].verdict
             /\ \A q \in Tick \ {s} : tick'[q] = tick[q]
  BY <1>1, <1>2 DEF Goto, Continues
<1>3. Leave(s) => /\ Rests(s) /\ tick'[s].op = 0 /\ tick'[s].pc = "release"
                  /\ \A q \in Tick \ {s} : tick'[q] = tick[q]
  BY <1>1 DEF Leave, Rests, IdleTick
<1>4. tick' = [tick EXCEPT ![s] = IdleTick] =>
         /\ Rests(s) /\ tick'[s].op = 0 /\ tick'[s].pc = "idle"
         /\ \A q \in Tick \ {s} : tick'[q] = tick[q]
  BY <1>1 DEF Rests, IdleTick
<1> QED
  BY <1>2, <1>3, <1>4 DEF Continues

LEMMA TickMoves ==
    ASSUME StoreTypeOK, ProcTypeOK, AtWork, NEW s \in Tick, TickActs(s)
    PROVE  Moves(s)
<1> DEFINE o == tick[s].op
<1>0. /\ tick \in [Tick -> TickState]
      /\ {"pc", "op", "todo", "done", "verdict", "drained"} \subseteq DOMAIN tick[s]
      /\ tick[s].pc \notin {"idle", "select", "release"} => o \in Op
  BY DEF ProcTypeOK, TickState, AtWork, Working
<1>s. UNCHANGED op => \A p \in Op : Counters(op'[p]) = Counters(op[p])
  OBVIOUS
<1>1. CASE AcquireLock(s)
  <2>1. /\ Goto(s, "select") \/ UNCHANGED tick
        /\ UNCHANGED <<op, queue, items, applied>>
    BY <1>1 DEF AcquireLock
  <2> QED
    BY <1>s, <2>1, Locals DEF Moves, Calm
<1>2. CASE SelectOp(s)
  <2>1. UNCHANGED <<op, queue, items, applied>>
    BY <1>2 DEF SelectOp, storeVars
  <2>2. CASE Leave(s)
    BY <1>s, <2>1, <2>2, Locals DEF Moves, Calm
  <2>3. ASSUME NEW p \in Op, Active(p),
               tick' = [tick EXCEPT ![s] =
                 [IdleTick EXCEPT !.op = p, !.verdict = FinalStatus(op[p]),
                                  !.pc = FirstStep(op[p])]]
        PROVE  Moves(s)
    <3>1. PICK t : t = [IdleTick EXCEPT !.op = p, !.verdict = FinalStatus(op[p]),
                                        !.pc = FirstStep(op[p])]
      OBVIOUS
    <3>2. tick'[s] = t /\ \A q \in Tick \ {s} : tick'[q] = tick[q]
      BY <1>0, <2>3, <3>1
    <3>3. t.op = p /\ t.todo = {} /\ t.done = {} /\ t.drained = 0
      BY <3>1 DEF IdleTick
    <3>4. Active(p)' = Active(p)
      BY <2>1 DEF Active
    <3>5. Rests(s)
      BY <2>3, <3>2, <3>3 DEF Rests
    <3> QED
      BY <1>s, <2>1, <3>2, <3>5 DEF Moves, Calm
  <2> QED
    BY <1>2, <2>2, <2>3 DEF SelectOp
<1>3. CASE StartOp(s)
  <2>1. /\ UNCHANGED <<queue, items, applied>>
        /\ \/ op' = [op EXCEPT ![o].status = "RUNNING"] /\ Goto(s, "pop")
           \/ UNCHANGED op /\ Leave(s)
    BY <1>3 DEF StartOp
  <2> QED
    BY <1>s, <2>1, Locals, CalmStatus DEF Moves, Calm
<1>4. CASE PopBatch(s) \/ DrainPop(s)
  <2>1. o \in Op /\ UNCHANGED <<op, items, applied>>
    BY <1>0, <1>4 DEF PopBatch, DrainPop, At
  <2>2. PICK batch \in SUBSET queue[o] : batch = Front(queue[o], BatchSize)
    BY DEF Front
  <2>3. CASE UNCHANGED queue /\ ((\E pc : Goto(s, pc)) \/ Leave(s))
    BY <1>s, <2>1, <2>3, Locals DEF Moves, Calm
  <2>4. CASE /\ Pop(o, batch)
             /\ ((\E pc : Goto(s, pc)) \/ Leave(s))
    BY <2>1, <2>4, Locals DEF Moves, Pops, Pop
  <2>5. ASSUME NEW pc, Pop(o, batch),
               tick' = [tick EXCEPT ![s].pc = pc, ![s].todo = batch]
        PROVE  Moves(s)
    <3>1. /\ \A q \in Tick \ {s} : tick'[q] = tick[q]
          /\ tick'[s].op = o /\ tick'[s].todo = batch
          /\ tick'[s].done = tick[s].done /\ tick'[s].drained = tick[s].drained
      BY <1>0, <2>5
    <3> QED
      BY <2>1, <2>5, <3>1 DEF Moves, Pops, Pop
  <2> QED
    BY <1>4, <2>2, <2>3, <2>4, <2>5 DEF PopBatch, DrainPop
<1>5. ASSUME NEW outcome \in {"SUCCEEDED", "FAILED", "SKIPPED"}, NEW effect \in BOOLEAN,
             ExecuteItem(s, outcome, effect)
      PROVE  Moves(s)
  <2>1. /\ o \in Op /\ UNCHANGED <<op, queue, items>>
        /\ outcome = "SUCCEEDED" => effect
        /\ outcome = "SKIPPED" => ~effect
    BY <1>0, <1>5 DEF ExecuteItem, At
  <2>2. PICK k \in tick[s].todo :
          /\ tick' = [tick EXCEPT
               ![s].todo = @ \ {k},
               ![s].done = @ \cup {[entry |-> k, outcome |-> outcome]}]
          /\ applied' = IF effect THEN [applied EXCEPT ![o][k] = @ + 1] ELSE applied
    BY <1>5 DEF ExecuteItem
  <2>3. k \in Entry
    BY <1>0 DEF TickState
  <2>4. /\ \A q \in Tick \ {s} : tick'[q] = tick[q]
        /\ tick'[s].op = o /\ tick'[s].drained = tick[s].drained
        /\ tick'[s].todo = tick[s].todo \ {k}
        /\ tick'[s].done = tick[s].done \cup {[entry |-> k, outcome |-> outcome]}
    BY <1>0, <2>2
  <2>5. Handles(s, k, outcome, effect)
    BY <2>1, <2>2, <2>4 DEF Handles
  <2> QED
    BY <2>3, <2>4, <2>5 DEF Moves
<1>6. CASE CommitBatch(s)
  <2>1. o \in Op /\ UNCHANGED <<queue, applied>> /\ tick[s].pc = "execute"
        /\ tick[s].todo = {}
    BY <1>0, <1>6 DEF CommitBatch, At
  <2>2. CASE UNCHANGED <<items, op>> /\ Leave(s)
    BY <1>s, <2>1, <2>2, Locals DEF Moves, Calm
  <2>3. CASE /\ Exists(o)
             /\ items' = [items EXCEPT ![o] = @ \cup RowsToInsert(tick[s].done)]
             /\ op' = [op EXCEPT ![o] = CountBatch(@, tick[s].done)]
             /\ tick' = [tick EXCEPT ![s].pc = "reread", ![s].done = {}]
    <3>1. /\ \A q \in Tick \ {s} : tick'[q] = tick[q]
          /\ tick'[s].op = o /\ tick'[s].drained = tick[s].drained
          /\ tick'[s].todo = {} /\ tick'[s].done = {}
      BY <1>0, <2>1, <2>3
    <3>2. Commits(s)
      BY <2>1, <2>3, <3>1 DEF Commits
    <3> QED
      BY <3>1, <3>2 DEF Moves
  <2> QED
    BY <1>6, <2>2, <2>3 DEF CommitBatch
<1>7. CASE Reread(s)
  <2>1. UNCHANGED <<op, queue, items, applied>>
    BY <1>7 DEF Reread, storeVars
  <2>2. CASE Goto(s, "drain") \/ Leave(s)
    BY <1>s, <2>1, <2>2, Locals DEF Moves, Calm
  <2>3. CASE tick' = [tick EXCEPT ![s] = FinalizeFresh(@, op[o])]
    <3>1. PICK t : t = FinalizeFresh(tick[s], op[o])
      OBVIOUS
    <3>2. tick'[s] = t /\ \A q \in Tick \ {s} : tick'[q] = tick[q]
      BY <1>0, <2>3, <3>1
    <3>3. /\ t.op = o /\ t.todo = tick[s].todo /\ t.done = tick[s].done
          /\ t.drained = tick[s].drained
      BY <1>0, <3>1 DEF FinalizeFresh
    <3> QED
      BY <1>s, <2>1, <3>2, <3>3 DEF Moves, Calm, Continues
  <2> QED
    BY <1>7, <2>2, <2>3 DEF Reread
<1>8. CASE Finalize(s)
  <2>1. /\ UNCHANGED <<queue, items, applied>> /\ Leave(s)
        /\ op' = [op EXCEPT ![o].status = tick[s].verdict] \/ UNCHANGED op
    BY <1>8 DEF Finalize
  <2> QED
    BY <1>s, <2>1, Locals, CalmStatus DEF Moves, Calm
<1>9. CASE DrainRecord(s)
  <2>1. o \in Op /\ UNCHANGED <<op, queue, applied>>
    BY <1>0, <1>9 DEF DrainRecord, At
  <2>2. CASE UNCHANGED items /\ Leave(s)
    BY <1>s, <2>1, <2>2, Locals DEF Moves, Calm
  <2>3. CASE /\ items' = [items EXCEPT ![o] =
                  @ \cup {[entry |-> k, outcome |-> "CANCELLED"] : k \in tick[s].todo}]
             /\ tick' = [tick EXCEPT ![s].pc = "drain", ![s].todo = {},
                                  ![s].drained = @ + Cardinality(tick[s].todo)]
    <3>1. /\ \A q \in Tick \ {s} : tick'[q] = tick[q]
          /\ tick'[s].op = o /\ tick'[s].done = tick[s].done /\ tick'[s].todo = {}
          /\ tick'[s].drained = tick[s].drained + Cardinality(tick[s].todo)
      BY <1>0, <2>3
    <3>2. Records(s)
      BY <2>1, <2>3, <3>1 DEF Records
    <3> QED
      BY <3>1, <3>2 DEF Moves
  <2> QED
    BY <1>9, <2>2, <2>3 DEF DrainRecord
<1>10. CASE CancelOp(s)
  <2>1. UNCHANGED <<queue, items, applied>> /\ Leave(s) /\ o \in Op
    BY <1>0, <1>10 DEF CancelOp, At
  <2>2. CASE UNCHANGED op
    BY <1>s, <2>1, <2>2, Locals DEF Moves, Calm
  <2>3. CASE /\ Exists(o)
             /\ op' = [op EXCEPT ![o].status = "CANCELLED",
                             ![o].skipped = @ + tick[s].drained,
                             ![o].processed = @ + tick[s].drained]
    BY <2>1, <2>3, Locals DEF Moves, Cancels, Rests
  <2> QED
    BY <1>10, <2>2, <2>3 DEF CancelOp
<1>11. CASE ReleaseLock(s) \/ TickThrows(s) \/ KillTick(s)
  <2>1. /\ Leave(s) \/ tick' = [tick EXCEPT ![s] = IdleTick]
        /\ UNCHANGED <<op, queue, items, applied>>
    BY <1>11 DEF ReleaseLock, TickThrows, KillTick
  <2> QED
    BY <1>s, <2>1, Locals DEF Moves, Calm
<1> QED
  BY <1>1, <1>2, <1>3, <1>4, <1>5, <1>6, <1>7, <1>8, <1>9, <1>10, <1>11 DEF TickActs

\* A step of a request or of a cron job other than the tick, but the INSERT.
Outside ==
    /\ RowsKept /\ UNCHANGED <<applied, tick>>
    /\ \A r \in Req : req'[r].pc = "push" => req[r].pc = "push" /\ req'[r].op = req[r].op
    /\ \A o \in Op :
         /\ Counters(op'[o]) = Counters(op[o])
         /\ Active(o)' => Active(o)
         /\ Terminal(o)' => op'[o].status = op[o].status
         /\ items'[o] \subseteq items[o]
         /\ \/ items'[o] = items[o]
            \/ op'[o].status = "DELETED"
            \/ /\ Terminal(o) /\ op'[o] = op[o]
               /\ \A s \in Tick : tick[s].op # o
         /\ \/ queue'[o] = queue[o]
            \/ /\ queue'[o] = 1..Len(scope[o])
               /\ \E r \in Req : req[r].pc = "push" /\ req[r].op = o

LEMMA StillOutside ==
    ASSUME UNCHANGED <<op, scope, items, applied, queue, tick>>,
           \A r \in Req : req'[r].pc = "push" => req[r].pc = "push" /\ req'[r].op = req[r].op
    PROVE  Outside
BY StillRows DEF Outside, Active, Terminal

LEMMA RequestOutside ==
    ASSUME TypeOK, NEW r \in Req, Begins(r) \/ Proceeds(r), UNCHANGED procVars, RowsKept,
           Starts(r) \/ Advances(r) \/ Dies(r), InsertOp(r) => KeyTaken(req[r].user, req[r].key),
           \A q \in Req \ {r} : req'[q] = req[q]
    PROVE  Outside
<1>0. /\ op \in [Op -> OpRow] /\ items \in [Op -> SUBSET Row]
      /\ queue \in [Op -> SUBSET Entry] /\ req \in [Req -> ReqState]
      /\ UNCHANGED <<scope, tick>>
  BY DEF TypeOK, StoreTypeOK, IntakeTypeOK, RowsKept, procVars
<1>1. \A q \in Req : req'[q].pc = "push" => req[q].pc = "push" /\ req'[q].op = req[q].op
  BY DEF Starts, Advances, Dies, IdleReq
<1>2. CASE Rollback(r) /\ Exists(req[r].op)
  <2>1. /\ op' = [op EXCEPT ![req[r].op].status = "DELETED"]
        /\ items' = [items EXCEPT ![req[r].op] = {}]
        /\ UNCHANGED <<queue, applied>>
    BY <1>2 DEF Rollback
  <2>2. \A p \in Op : /\ Counters(op'[p]) = Counters(op[p])
                      /\ p # req[r].op => op'[p] = op[p] /\ items'[p] = items[p]
                      /\ p = req[r].op => op'[p].status = "DELETED" /\ items'[p] = {}
    <3>1. \A p \in Op : Counters(op'[p]) = Counters(op[p])
      BY <1>0, <2>1, CalmStatus DEF TypeOK
    <3>2. ASSUME NEW p \in Op
          PROVE  /\ p # req[r].op => op'[p] = op[p] /\ items'[p] = items[p]
                 /\ p = req[r].op => op'[p].status = "DELETED" /\ items'[p] = {}
      BY <1>0, <2>1 DEF OpRow
    <3> QED
      BY <3>1, <3>2
  <2> QED
    BY <1>0, <1>1, <2>1, <2>2
       DEF Outside, Active, Terminal, ActiveStatus, TerminalStatus
<1>3. CASE SetCancel(r) /\ Exists(req[r].op)
  <2>1. /\ op' = [op EXCEPT ![req[r].op].cancelRequested = TRUE]
        /\ UNCHANGED <<queue, items, applied>>
    BY <1>3 DEF SetCancel
  <2>2. ASSUME NEW p \in Op
        PROVE  Counters(op'[p]) = Counters(op[p]) /\ op'[p].status = op[p].status
    <3>1. PICK row : row = [op[p] EXCEPT !.cancelRequested = TRUE]
      OBVIOUS
    <3>2. op'[p] \in {op[p], row}
      BY <1>0, <2>1, <3>1
    <3>3. Counters(row) = Counters(op[p]) /\ row.status = op[p].status
      BY <1>0, <3>1 DEF OpRow, Counters
    <3> QED
      BY <3>2, <3>3
  <2> QED
    BY <1>0, <1>1, <2>1, <2>2 DEF Outside, Active, Terminal
<1>4. CASE PushQueue(r)
  <2>1. /\ UNCHANGED <<op, items, applied>> /\ req[r].pc = "push"
        /\ \/ queue' = [queue EXCEPT ![req[r].op] = 1..Len(scope[req[r].op])]
           \/ UNCHANGED queue
    BY <1>4 DEF PushQueue, AtReq
  <2>2. \A p \in Op : \/ queue'[p] = queue[p]
                      \/ queue'[p] = 1..Len(scope[p]) /\ req[r].op = p
    BY <1>0, <2>1
  <2> QED
    BY <1>0, <1>1, <2>1, <2>2 DEF Outside, Active, Terminal
<1>5. CASE /\ ~PushQueue(r)
           /\ Rollback(r) \/ SetCancel(r) => ~Exists(req[r].op)
  <2>1. CASE InsertOp(r)
    BY <1>0, <1>1, <2>1, StillOutside DEF InsertOp
  <2>2. CASE ~InsertOp(r)
    <3>1. UNCHANGED <<op, items, applied, queue>>
      BY <1>5, <2>2 DEF storeVars, Begins, Proceeds, BeginCreate, ConsumeToken, CheckQuota,
         Refetch, Rollback, BeginRetry, ReadRows, LookupRetry, BeginCancel, SetCancel,
         KillRequest
    <3> QED
      BY <1>0, <1>1, <3>1, StillOutside
  <2> QED
    BY <2>1, <2>2
<1> QED
  BY <1>2, <1>3, <1>4, <1>5

LEMMA CronOutside ==
    ASSUME StoreTypeOK, JobActs, UNCHANGED intakeVars
    PROVE  Outside
<1>0. /\ op \in [Op -> OpRow] /\ items \in [Op -> SUBSET Row] /\ UNCHANGED <<req, tick>>
      /\ RowsKept
  BY CronRows DEF StoreTypeOK, intakeVars, procVars, JobActs, LockExpires, Recover, PurgeItems,
     PurgeOp
<1>1. CASE LockExpires
  BY <1>0, <1>1, StillOutside DEF LockExpires, storeVars, RowsKept
<1>2. CASE Recover
  <2>1. PICK stale \in SUBSET {o \in Op : op[o].status = "RUNNING"} :
          op' = [p \in Op |-> IF p \in stale
                              THEN [op[p] EXCEPT !.status = "QUEUED"] ELSE op[p]]
    BY <1>2 DEF Recover
  <2>2. UNCHANGED <<queue, items, applied>>
    BY <1>2 DEF Recover
  <2>3. ASSUME NEW p \in Op
        PROVE  /\ Counters(op'[p]) = Counters(op[p])
               /\ op'[p].status = op[p].status \/ (op[p].status = "RUNNING" /\ op'[p].status = "QUEUED")
    <3>1. PICK row : row = [op[p] EXCEPT !.status = "QUEUED"]
      OBVIOUS
    <3>2. op'[p] = IF p \in stale THEN row ELSE op[p]
      BY <2>1, <3>1
    <3>3. Counters(row) = Counters(op[p]) /\ row.status = "QUEUED"
      BY <1>0, <3>1 DEF OpRow, Counters
    <3>4. p \in stale => op[p].status = "RUNNING"
      BY <2>1
    <3> QED
      BY <3>2, <3>3, <3>4
  <2> QED
    BY <1>0, <2>2, <2>3 DEF Outside, Active, Terminal, ActiveStatus, TerminalStatus
<1>3. ASSUME NEW o \in Op, PurgeItems(o) PROVE Outside
  <2>1. /\ UNCHANGED <<op, queue, applied>> /\ items' = [items EXCEPT ![o] = {}]
        /\ Terminal(o) /\ \A s \in Tick : tick[s].op # o
    BY <1>3 DEF PurgeItems, Forgotten
  <2>2. \A p \in Op : items'[p] = IF p = o THEN {} ELSE items[p]
    BY <1>0, <2>1
  <2> QED
    BY <1>0, <2>1, <2>2 DEF Outside, Active, Terminal
<1>4. ASSUME NEW o \in Op, PurgeOp(o) PROVE Outside
  <2>1. /\ UNCHANGED <<queue, applied>> /\ items' = [items EXCEPT ![o] = {}]
        /\ op' = [op EXCEPT ![o].status = "DELETED"]
    BY <1>4 DEF PurgeOp
  <2>2. \A p \in Op : /\ items'[p] = IF p = o THEN {} ELSE items[p]
                      /\ p # o => op'[p] = op[p]
                      /\ p = o => op'[p].status = "DELETED"
    BY <1>0, <2>1 DEF OpRow
  <2>3. \A p \in Op : Counters(op'[p]) = Counters(op[p])
    BY <2>1, CalmStatus
  <2> QED
    BY <1>0, <2>1, <2>2, <2>3 DEF Outside, Active, Terminal, ActiveStatus, TerminalStatus
<1> QED
  BY <1>1, <1>2, <1>3, <1>4 DEF JobActs

\* The three kinds of step that the proofs about entries tell apart.
LEMMA StepMoves ==
    ASSUME IInv, [Next]_vars
    PROVE  \/ \E s \in Tick : TickActs(s) /\ Moves(s) /\ RowsKept /\ UNCHANGED <<preview, req>>
           \/ Outside
           \/ \E r \in Req, n \in Op : Inserts(r, n) /\ UNCHANGED procVars
<1>0. TypeOK /\ StoreTypeOK /\ ProcTypeOK /\ IntakeTypeOK /\ AtWork
  BY DEF IInv, TypeOK
<1>1. CASE UNCHANGED vars \/ (PreviewActs /\ UNCHANGED procVars)
  <2>1. UNCHANGED <<op, scope, items, applied, queue, tick, req>>
    BY <1>1 DEF vars, storeVars, intakeVars, procVars, PreviewActs, Preview, ExpirePreview
  <2> QED
    BY <2>1, StillOutside
<1>2. ASSUME NEW r \in Req, Begins(r) \/ Proceeds(r), UNCHANGED procVars
      PROVE  Outside \/ \E n \in Op : Inserts(r, n)
  <2>1. CASE \E n \in Op : Inserts(r, n)
    BY <2>1
  <2>2. CASE ~\E n \in Op : Inserts(r, n)
    <3>1. /\ RowsKept /\ \A q \in Req \ {r} : req'[q] = req[q]
          /\ Starts(r) \/ Advances(r) \/ Dies(r)
      BY <1>0, <1>2, <2>2, RequestCases
    <3>2. InsertOp(r) => KeyTaken(req[r].user, req[r].key)
      BY <1>0, <2>2, InsertsRow
    <3> QED
      BY <1>0, <1>2, <3>1, <3>2, RequestOutside
  <2> QED
    BY <2>1, <2>2
<1>3. ASSUME NEW s \in Tick, TickActs(s), UNCHANGED intakeVars
      PROVE  TickActs(s) /\ Moves(s) /\ RowsKept /\ UNCHANGED <<preview, req>>
  BY <1>0, <1>3, TickMoves, TickRows DEF intakeVars
<1>4. CASE JobActs /\ UNCHANGED intakeVars
  BY <1>0, <1>4, CronOutside
<1> QED
  BY <1>1, <1>2, <1>3, <1>4, StepCases

-----------------------------------------------------------------------------
(* What a retry takes over.                                                 *)

\* Operation p has its list, and entry e has passed through: it is not waiting,
\* no tick is going to execute it, and nothing will queue it.
Over(p, e) ==
    /\ ~Fresh(p) /\ e \notin queue[p]
    /\ \A s \in Tick : tick[s].op = p => e \notin tick[s].todo

\* The entry is over, and its issue was not changed if it was skipped.
Settled(p, d) ==
    /\ Over(p, d.entry)
    /\ d.outcome = "SKIPPED" => applied[p][d.entry] = 0

\* The entries of operation p that a list of issues names, and those of them
\* whose change was made.
TakenOver(ids, p) == {e \in DOMAIN scope[p] : \E i \in DOMAIN ids : ids[i] = scope[p][e]}
Changed(ids, p)   == {e \in TakenOver(ids, p) : applied[p][e] > 0}

\* The list takes from operation p entries that are over, and of those whose
\* change was made no more than p counts as failed.
FromFailures(ids, p) ==
    /\ p \in Op /\ ~Fresh(p)
    /\ ~Duplicates(p) =>
         /\ \A e \in TakenOver(ids, p) : Over(p, e)
         /\ Cardinality(Changed(ids, p)) <= op[p].failed

RowsSettled == \A o \in Op : \A row \in items[o] : Settled(o, row)

DoneSettled == \A s \in Tick : \A d \in tick[s].done : Settled(tick[s].op, d)

\* The report never shows more failures than the row counts: retention and
\* rollback delete items, nothing takes back a failure.
FailuresCounted == \A o \in Op : Cardinality(RowsOf(o, "FAILED")) <= op[o].failed

\* A retry, from the SELECT of its rows to the INSERT and ever after.
RetriesSettled ==
    /\ \A r \in Req :
         req[r].retryOf # 0 /\ req[r].pc \in {"lookup", "quota", "insert"}
           => FromFailures(req[r].ids, req[r].retryOf)
    /\ \A o \in Op : op[o].retryOf # 0 => FromFailures(scope[o], op[o].retryOf)

RetryCustody == RowsSettled /\ DoneSettled /\ FailuresCounted /\ RetriesSettled

LEMMA InitRetryCustody == Init => RetryCustody
<1> SUFFICES ASSUME Init PROVE RetryCustody
  OBVIOUS
<1>1. \A o \in Op : RowsOf(o, "FAILED") = {} /\ op[o].failed = 0
  BY DEF Init, StoreInit, AbsentOp, RowsOf
<1>2. FailuresCounted
  BY <1>1, FS_EmptySet DEF FailuresCounted
<1> QED
  BY <1>2 DEF Init, StoreInit, IntakeInit, ProcInit, AbsentOp, IdleReq, IdleTick, RetryCustody,
     RowsSettled, DoneSettled, RetriesSettled

LEMMA EntriesOf ==
    ASSUME IInv, NEW p \in Op, NEW S \in SUBSET DOMAIN scope[p]
    PROVE  IsFiniteSet(S)
<1>1. scope[p] \in Seq(Issue) /\ Len(scope[p]) <= MaxScope
  BY DEF IInv, Lengths, TypeOK, StoreTypeOK
<1>2. DOMAIN scope[p] = 1..Len(scope[p]) /\ Len(scope[p]) \in Nat
  BY <1>1
<1>3. S \in SUBSET Entry
  BY <1>1, <1>2, Bounds DEF Entry
<1> QED
  BY <1>3, EntriesFinite

\* An entry that is over stays so, and whether its change was made is settled.
LEMMA OverStays ==
    ASSUME IInv, [Next]_vars, NEW p \in Op, NEW e \in DOMAIN scope[p], Over(p, e)
    PROVE  Over(p, e)' /\ applied'[p][e] = applied[p][e]
<1>0. /\ StoreTypeOK /\ ProcTypeOK /\ e \in Entry /\ op[p].status # "ABSENT"
  <2>1. scope \in [Op -> Seq(Issue)] /\ Len(scope[p]) <= MaxScope
    BY DEF IInv, Lengths, TypeOK, StoreTypeOK
  <2>2. DOMAIN scope[p] = 1..Len(scope[p]) /\ Len(scope[p]) \in Nat
    BY <2>1
  <2> QED
    BY <2>1, <2>2, Bounds DEF IInv, TypeOK, Entry, Over, Fresh
<1>1. ASSUME NEW s \in Tick, Moves(s), RowsKept, UNCHANGED req
      PROVE  Over(p, e)' /\ applied'[p][e] = applied[p][e]
  <2>1. ~Fresh(p)'
    BY <1>1 DEF RowsKept, Over, Fresh
  <2>2. e \notin queue'[p]
    <3>1. UNCHANGED queue \/ \E batch : queue' = [queue EXCEPT ![tick[s].op] = @ \ batch]
      BY <1>1 DEF Moves, Calm, Pops, Handles, Commits, Records, Cancels
    <3> QED
      BY <1>0, <3>1 DEF Over, StoreTypeOK
  <2>3. applied'[p][e] = applied[p][e]
    <3>1. CASE UNCHANGED applied
      BY <3>1
    <3>2. ASSUME NEW k \in Entry, NEW outcome, NEW effect, Handles(s, k, outcome, effect)
          PROVE  applied'[p][e] = applied[p][e]
      <4>1. tick[s].op = p => k # e
        BY <3>2 DEF Handles, Over
      <4> QED
        BY <1>0, <3>2, <4>1 DEF Handles, StoreTypeOK
    <3> QED
      BY <1>1, <3>1, <3>2 DEF Moves, Calm, Pops, Commits, Records, Cancels
  <2>4. ASSUME NEW t \in Tick, tick'[t].op = p PROVE e \notin tick'[t].todo
    <3>1. CASE t # s
      BY <1>1, <2>4, <3>1 DEF Moves, Over
    <3>2. CASE t = s
      BY <1>1, <2>4, <3>2 DEF Moves, Calm, Pops, Handles, Commits, Records, Cancels, Continues,
         Rests, Over
    <3> QED
      BY <3>1, <3>2
  <2> QED
    BY <2>1, <2>2, <2>3, <2>4 DEF Over
<1>2. CASE Outside
  <2>1. ~Fresh(p)'
    BY <1>2 DEF Outside, RowsKept, Over, Fresh
  <2>2. e \notin queue'[p]
    BY <1>2 DEF Outside, Over, Fresh
  <2> QED
    BY <1>2, <2>1, <2>2 DEF Outside, Over
<1>3. ASSUME NEW r \in Req, NEW n \in Op, Inserts(r, n), UNCHANGED procVars
      PROVE  Over(p, e)' /\ applied'[p][e] = applied[p][e]
  <2>1. n # p
    BY <1>0, <1>3 DEF Inserts
  <2>2. op'[p] = op[p] /\ UNCHANGED <<queue, applied, tick>>
    BY <1>3, <2>1 DEF Inserts, procVars
  <2>3. ~Fresh(p)'
    BY <1>3, <2>1, <2>2 DEF Inserts, Fresh, Over
  <2> QED
    BY <2>2, <2>3 DEF Over
<1> QED
  BY <1>1, <1>2, <1>3, StepMoves

\* What is settled stays settled.
LEMMA SettledStays ==
    ASSUME IInv, [Next]_vars, NEW p \in Op, NEW d, d.entry \in 1..Len(scope[p]), Settled(p, d)
    PROVE  Settled(p, d)'
<1>1. scope[p] \in Seq(Issue)
  BY DEF IInv, TypeOK, StoreTypeOK
<1>2. PICK e \in DOMAIN scope[p] : e = d.entry
  BY <1>1
<1>3. Over(p, e)' /\ applied'[p][e] = applied[p][e]
  BY <1>2, OverStays DEF Settled
<1> QED
  BY <1>2, <1>3 DEF Settled

\* The report of an operation: a row comes from a handled entry, or from one
\* drained after a cancel.
LEMMA NextKeepsRows ==
    ASSUME IInv, [Next]_vars, RowsSettled, DoneSettled
    PROVE  RowsSettled'
<1>0. /\ StoreTypeOK /\ ProcTypeOK /\ QueueCustody /\ TickCustody /\ Exclusive
      /\ FreshEmpty /\ Report
  BY DEF IInv, TypeOK, Ledger, StoreTypeOK
<1>1. ASSUME NEW o \in Op, NEW row \in items'[o], row \in items[o]
      PROVE  Settled(o, row)'
  BY <1>0, <1>1, SettledStays DEF RowsSettled, Report
<1>2. ASSUME NEW s \in Tick, Moves(s), RowsKept, UNCHANGED req,
             NEW o \in Op, NEW row \in items'[o], row \notin items[o]
      PROVE  Settled(o, row)'
  <2>1. CASE Commits(s)
    <3>1. o = tick[s].op /\ row \in RowsToInsert(tick[s].done)
      BY <1>0, <1>2, <2>1 DEF Commits, StoreTypeOK
    <3>2. row \in tick[s].done
      BY <3>1 DEF RowsToInsert
    <3>3. Settled(o, row) /\ row.entry \in 1..Len(scope[o])
      BY <1>0, <3>1, <3>2 DEF DoneSettled, TickCustody, CustodyOf
    <3> QED
      BY <3>3, SettledStays
  <2>2. CASE Records(s)
    <3>1. o = tick[s].op /\ \E k \in tick[s].todo : row = [entry |-> k, outcome |-> "CANCELLED"]
      BY <1>0, <1>2, <2>2 DEF Records, StoreTypeOK
    <3>2. PICK k \in tick[s].todo : row.entry = k /\ row.outcome # "SKIPPED"
      BY <3>1
    <3>3. k \notin queue[o] /\ ~Fresh(o)
      BY <1>0, <3>1 DEF TickCustody, CustodyOf, FreshEmpty, EmptyOf
    <3>4. UNCHANGED <<op, queue>> /\ tick'[s].todo = {} /\ ~Fresh(o)'
      BY <1>2, <2>2, <3>3 DEF Records, Fresh
    <3>5. ASSUME NEW t \in Tick, tick'[t].op = o PROVE k \notin tick'[t].todo
      <4>1. CASE t = s
        BY <3>4, <4>1
      <4>2. CASE t # s
        BY <1>0, <1>2, <3>1, <3>5, <4>2 DEF Moves, Exclusive, Apart
      <4> QED
        BY <4>1, <4>2
    <3> QED
      BY <3>2, <3>3, <3>4, <3>5 DEF Settled, Over
  <2>3. Commits(s) \/ Records(s)
    BY <1>2 DEF Moves, Calm, Pops, Handles, Cancels
  <2> QED
    BY <2>1, <2>2, <2>3
<1>3. \A o \in Op : \/ items'[o] \subseteq items[o]
                    \/ \E s \in Tick : Moves(s) /\ RowsKept /\ UNCHANGED req
  BY StepMoves DEF Outside, Inserts
<1> QED
  BY <1>1, <1>2, <1>3 DEF RowsSettled

\* An entry that was skipped was left untouched; one that failed may not be.
LEMMA NextKeepsDone ==
    ASSUME IInv, [Next]_vars, DoneSettled
    PROVE  DoneSettled'
<1>0. /\ StoreTypeOK /\ ProcTypeOK /\ TickCustody /\ Exclusive /\ FreshEmpty
  BY DEF IInv, TypeOK, Ledger, StoreTypeOK
<1>1. ASSUME NEW t \in Tick, NEW d \in tick[t].done, tick'[t].op = tick[t].op
      PROVE  Settled(tick[t].op, d)'
  <2>1. PICK o \in Op : o = tick[t].op
    BY <1>0 DEF TickCustody, CustodyOf
  <2>2. d.entry \in 1..Len(scope[o]) /\ Settled(o, d)
    BY <1>0, <1>1, <2>1 DEF TickCustody, CustodyOf, DoneSettled
  <2>3. Settled(o, d)'
    BY <2>2, SettledStays
  <2> QED
    BY <1>1, <2>1, <2>3
<1>2. CASE UNCHANGED tick
  BY <1>1, <1>2 DEF DoneSettled
<1>3. ASSUME NEW s \in Tick, Moves(s), RowsKept, UNCHANGED req
      PROVE  DoneSettled'
  <2>1. ASSUME NEW t \in Tick, NEW d \in tick'[t].done, t # s \/ d \in tick[s].done
        PROVE  Settled(tick[t].op, d)'
    <3>1. CASE t # s
      BY <1>1, <1>3, <2>1, <3>1 DEF Moves
    <3>2. CASE t = s
      <4>1. tick'[s].op = tick[s].op
        BY <1>3, <2>1, <3>2 DEF Moves, Calm, Pops, Handles, Commits, Records, Cancels,
           Continues, Rests
      <4> QED
        BY <1>1, <2>1, <3>2, <4>1
    <3> QED
      BY <3>1, <3>2
  <2>2. ASSUME NEW d \in tick'[s].done, d \notin tick[s].done
        PROVE  Settled(tick[s].op, d)'
    <3>1. PICK k \in Entry, outcome \in {"SUCCEEDED", "FAILED", "SKIPPED"}, effect \in BOOLEAN :
            Handles(s, k, outcome, effect)
      BY <1>3, <2>2 DEF Moves, Calm, Pops, Commits, Records, Cancels, Continues, Rests
    <3>2. PICK o \in Op : o = tick[s].op /\ tick'[s].op = o
      BY <3>1 DEF Handles
    <3>3. d.entry = k /\ d.outcome = outcome /\ k \in tick[s].todo
      BY <2>2, <3>1 DEF Handles
    <3>4. UNCHANGED <<op, queue>> /\ (d.outcome = "SKIPPED" => UNCHANGED applied)
      BY <3>1, <3>3 DEF Handles
    <3>5. k \notin queue[o] /\ applied[o][k] = 0 /\ ~Fresh(o)
      BY <1>0, <3>2, <3>3 DEF TickCustody, CustodyOf, FreshEmpty, EmptyOf
    <3>6. ~Fresh(o)'
      BY <1>3, <3>4, <3>5 DEF Fresh
    <3>7. ASSUME NEW t \in Tick, tick'[t].op = o PROVE k \notin tick'[t].todo
      <4>1. CASE t = s
        BY <3>1, <4>1 DEF Handles
      <4>2. CASE t # s
        BY <1>0, <1>3, <3>2, <3>3, <3>7, <4>2 DEF Moves, Exclusive, Apart
      <4> QED
        BY <4>1, <4>2
    <3>8. Settled(o, d)'
      BY <3>3, <3>4, <3>5, <3>6, <3>7 DEF Settled, Over
    <3> QED
      BY <3>2, <3>8
  <2>3. ASSUME NEW t \in Tick, NEW d \in tick'[t].done
        PROVE  tick'[t].op = tick[t].op
    BY <1>3, <2>3 DEF Moves, Calm, Pops, Handles, Commits, Records, Cancels, Continues, Rests
  <2> QED
    BY <2>1, <2>2, <2>3 DEF DoneSettled
<1>4. UNCHANGED tick \/ \E s \in Tick : Moves(s) /\ RowsKept /\ UNCHANGED req
  BY StepMoves DEF Outside, procVars
<1> QED
  BY <1>2, <1>3, <1>4

\* Rows and counter of the failures of an operation grow in one transaction.
LEMMA NextKeepsFailures ==
    ASSUME IInv, [Next]_vars, FailuresCounted
    PROVE  /\ FailuresCounted'
           /\ \A o \in Op : op[o].status # "ABSENT" => op[o].failed <= op'[o].failed
<1>0. /\ StoreTypeOK /\ Report /\ TickCustody /\ FreshEmpty
      /\ \A o \in Op : items[o] \in SUBSET Row /\ op[o].failed \in Nat
  BY DEF IInv, TypeOK, StoreTypeOK, Ledger, OpRow
<1>1. ASSUME NEW o \in Op
      PROVE  IsFiniteSet(RowsOf(o, "FAILED")) /\ Cardinality(RowsOf(o, "FAILED")) \in Nat
  <2>1. \A x \in RowsOf(o, "FAILED") :
          x.entry \in Entry /\ \A y \in RowsOf(o, "FAILED") : x.entry = y.entry => x = y
    BY <1>0 DEF RowsOf, Report, Row
  <2> QED
    BY <2>1, UniqueFinite
<1>2. ASSUME NEW o \in Op, op'[o].failed = op[o].failed,
             RowsOf(o, "FAILED")' \in SUBSET RowsOf(o, "FAILED")
      PROVE  Cardinality(RowsOf(o, "FAILED"))' <= op'[o].failed
  <2>1. Cardinality(RowsOf(o, "FAILED")') <= Cardinality(RowsOf(o, "FAILED"))
    BY <1>1, <1>2, FS_Subset
  <2>2. Cardinality(RowsOf(o, "FAILED")') \in Nat
    BY <1>1, <1>2, FS_Subset, FS_CardinalityType
  <2> QED
    BY <1>0, <1>1, <1>2, <2>1, <2>2 DEF FailuresCounted
<1>3. ASSUME NEW s \in Tick, Commits(s), NEW o \in Op
      PROVE  /\ Cardinality(RowsOf(o, "FAILED"))' <= op'[o].failed
             /\ op[o].failed <= op'[o].failed
  <2> DEFINE B == {d \in tick[s].done : d.outcome = "FAILED"}
  <2>1. CASE o # tick[s].op
    <3>1. op'[o] = op[o] /\ items'[o] = items[o]
      BY <1>0, <1>3, <2>1 DEF Commits, StoreTypeOK
    <3> QED
      BY <1>0, <1>2, <3>1 DEF RowsOf
  <2>2. CASE o = tick[s].op
    <3>1. IsFiniteSet(B) /\ Cardinality(B) \in Nat
      <4>1. tick[s] \in TickState
        BY DEF IInv, TypeOK, ProcTypeOK
      <4>2. \A x \in B : x.entry \in Entry /\ \A y \in B : x.entry = y.entry => x = y
        BY <1>0, <4>1 DEF TickCustody, CustodyOf, TickState
      <4> QED
        BY <4>2, UniqueFinite
    <3>2. op'[o] = CountBatch(op[o], tick[s].done)
      BY <1>0, <1>3, <2>2 DEF Commits, StoreTypeOK
    <3>3. op'[o].failed = op[o].failed + Cardinality(B)
      BY <1>0, <3>2 DEF CountBatch, Counted, StoreTypeOK, OpRow
    <3>4. RowsOf(o, "FAILED")' = RowsOf(o, "FAILED") \cup B
      <4>1. items'[o] = items[o] \cup RowsToInsert(tick[s].done)
        BY <1>0, <1>3, <2>2 DEF Commits, StoreTypeOK
      <4> QED
        BY <4>1 DEF RowsOf, RowsToInsert
    <3> HIDE DEF B
    <3>5. Cardinality(RowsOf(o, "FAILED") \cup B) <= Cardinality(RowsOf(o, "FAILED")) + Cardinality(B)
      <4>1. Cardinality(RowsOf(o, "FAILED") \cap B) \in Nat
        <5>1. IsFiniteSet(RowsOf(o, "FAILED") \cap B)
          BY <3>1, FS_Subset
        <5> QED
          BY <5>1, FS_CardinalityType
      <4> QED
        BY <1>1, <3>1, <4>1, FS_Union
    <3>6. Cardinality(RowsOf(o, "FAILED") \cup B) \in Nat
      BY <1>1, <3>1, FS_Union, FS_CardinalityType
    <3>7. Cardinality(RowsOf(o, "FAILED"))' = Cardinality(RowsOf(o, "FAILED") \cup B)
      BY <3>4
    <3>8. Cardinality(RowsOf(o, "FAILED")) <= op[o].failed
      BY DEF FailuresCounted
    <3>9. op[o].failed \in Nat
      BY <1>0
    <3> QED
      BY <1>1, <3>1, <3>3, <3>5, <3>6, <3>7, <3>8, <3>9
  <2> QED
    BY <2>1, <2>2
<1>4. ASSUME NEW s \in Tick, Moves(s), ~Commits(s), NEW o \in Op
      PROVE  op'[o].failed = op[o].failed /\ RowsOf(o, "FAILED")' \in SUBSET RowsOf(o, "FAILED")
  <2>1. op'[o].failed = op[o].failed
    <3>1. CASE Cancels(s)
      BY <1>0, <3>1 DEF Cancels, StoreTypeOK, OpRow
    <3>2. CASE ~Cancels(s)
      BY <1>4, <3>2 DEF Moves, Calm, Pops, Handles, Records, Counters
    <3> QED
      BY <3>1, <3>2
  <2>2. items'[o] \subseteq items[o] \cup {r \in items'[o] : r.outcome = "CANCELLED"}
    <3>1. CASE Records(s)
      BY <1>0, <3>1 DEF Records, StoreTypeOK
    <3>2. CASE ~Records(s)
      BY <1>4, <3>2 DEF Moves, Calm, Pops, Handles, Cancels
    <3> QED
      BY <3>1, <3>2
  <2> QED
    BY <2>1, <2>2 DEF RowsOf
<1>5. CASE Outside
  <2>1. ASSUME NEW o \in Op
        PROVE  op'[o].failed = op[o].failed /\ RowsOf(o, "FAILED")' \in SUBSET RowsOf(o, "FAILED")
    BY <1>5 DEF Outside, Counters, RowsOf
  <2> QED
    BY <1>0, <1>2, <2>1 DEF FailuresCounted
<1>6. ASSUME NEW r \in Req, NEW n \in Op, Inserts(r, n), NEW o \in Op
      PROVE  /\ Cardinality(RowsOf(o, "FAILED"))' <= op'[o].failed
             /\ op[o].status # "ABSENT" => op[o].failed <= op'[o].failed
  <2>1. CASE o # n
    <3>1. op'[o] = op[o] /\ items'[o] = items[o]
      BY <1>6, <2>1 DEF Inserts
    <3> QED
      BY <1>0, <1>2, <3>1 DEF RowsOf
  <2>2. CASE o = n
    <3>1. op[o].status = "ABSENT" /\ op'[o].failed = 0 /\ items'[o] = {}
      BY <1>0, <1>6, <2>2 DEF Inserts, FreshEmpty, Fresh, EmptyOf
    <3>2. RowsOf(o, "FAILED")' = {}
      BY <3>1 DEF RowsOf
    <3> QED
      BY <3>1, <3>2, FS_EmptySet
  <2> QED
    BY <2>1, <2>2
<1> QED
  BY <1>0, <1>2, <1>3, <1>4, <1>5, <1>6, StepMoves DEF FailuresCounted

\* What a retry has taken over stays within the failures of its source.
LEMMA FromFailuresStays ==
    ASSUME IInv, FailuresCounted, [Next]_vars, NEW ids, NEW p, FromFailures(ids, p)
    PROVE  FromFailures(ids, p)'
<1>1. p \in Op /\ ~Fresh(p) /\ op[p].status # "ABSENT" /\ op[p].failed \in Nat
  BY DEF FromFailures, Fresh, IInv, TypeOK, StoreTypeOK, OpRow
<1>2. scope'[p] = scope[p] /\ ~Fresh(p)'
  <2>1. ASSUME RowsKept, \A r \in Req : req'[r].pc = "push" => req[r].pc = "push" /\ req'[r].op = req[r].op
        PROVE  scope'[p] = scope[p] /\ ~Fresh(p)'
    BY <1>1, <2>1 DEF RowsKept, Fresh
  <2>2. ASSUME NEW r \in Req, NEW n \in Op, Inserts(r, n)
        PROVE  scope'[p] = scope[p] /\ ~Fresh(p)'
    BY <1>1, <2>2 DEF Inserts, Fresh
  <2> QED
    BY <2>1, <2>2, StepMoves DEF Outside
<1>3. op'[p].failed >= op[p].failed
  BY <1>1, NextKeepsFailures
<1>4. ASSUME ~Duplicates(p)'
      PROVE  /\ \A e \in TakenOver(ids, p)' : Over(p, e)'
             /\ Cardinality(Changed(ids, p)') <= op'[p].failed
  <2>1. ~Duplicates(p) /\ TakenOver(ids, p)' = TakenOver(ids, p)
    BY <1>2, <1>4 DEF Duplicates, TakenOver
  <2>2. \A e \in TakenOver(ids, p) : Over(p, e)' /\ applied'[p][e] = applied[p][e]
    BY <1>1, <2>1, OverStays DEF FromFailures, TakenOver
  <2>3. Changed(ids, p)' = Changed(ids, p)
    BY <2>1, <2>2 DEF Changed
  <2>4. IsFiniteSet(Changed(ids, p))
    BY <1>1, EntriesOf DEF Changed, TakenOver
  <2>5. Cardinality(Changed(ids, p)) \in Nat /\ Cardinality(Changed(ids, p)) <= op[p].failed
    BY <2>1, <2>4, FS_CardinalityType DEF FromFailures
  <2>6. op'[p].failed \in Nat
    <3>1. IInv'
      BY NextKeepsIInv
    <3> QED
      BY <1>1, <3>1 DEF IInv, TypeOK, StoreTypeOK, OpRow
  <2> QED
    BY <1>1, <1>3, <2>1, <2>2, <2>3, <2>5, <2>6
<1> QED
  BY <1>1, <1>2, <1>4 DEF FromFailures

\* The rows a retry reads: a changed entry among them is one that failed, and
\* each such entry has a row of its own.
LEMMA ReadingFailures ==
    ASSUME IInv, RowsSettled, FailuresCounted, NEW r \in Req, ReadRows(r),
           req'[r].pc = "lookup", req[r].retryOf \in Op
    PROVE  FromFailures(req'[r].ids, req[r].retryOf)
<1> DEFINE o == req[r].retryOf
<1>0. /\ req \in [Req -> ReqState] /\ {"pc", "ids"} \subseteq DOMAIN req[r]
      /\ Report /\ scope[o] \in Seq(Issue) /\ items[o] \in SUBSET Row /\ op[o].failed \in Nat
  BY DEF IInv, TypeOK, Ledger, StoreTypeOK, IntakeTypeOK, ReqState, OpRow
<1>1. ~Reply(r, 410, 0)
  BY <1>0 DEF Reply
<1>2. PICK order \in [1..Cardinality(RetryRows(o)) -> RetryRows(o)] :
        req' = [req EXCEPT ![r].pc = "lookup",
                  ![r].ids = [i \in DOMAIN order |-> scope[o][order[i].entry]]]
  BY <1>1 DEF ReadRows
<1>3. PICK ids : ids = [i \in DOMAIN order |-> scope[o][order[i].entry]]
  OBVIOUS
<1>4. req'[r].ids = ids
  BY <1>0, <1>2, <1>3
<1>5. ~Fresh(o)
  <2>1. PICK row : row \in RetryRows(o)
    BY <1>1 DEF ReadRows
  <2> QED
    BY <2>1 DEF RetryRows, RowsSettled, Settled, Over
<1>6. ASSUME ~Duplicates(o), NEW e \in TakenOver(ids, o)
      PROVE  \E row \in items[o] : row.entry = e /\ row.outcome # "CANCELLED" /\ Settled(o, row)
  <2>1. PICK i \in DOMAIN ids : ids[i] = scope[o][e]
    BY DEF TakenOver
  <2>2. order[i] \in RetryRows(o) /\ ids[i] = scope[o][order[i].entry]
    BY <1>2, <1>3, <2>1
  <2>3. PICK row \in items[o] : row = order[i] /\ row.outcome # "CANCELLED"
    BY <2>2 DEF RetryRows, RowsOf
  <2>4. row.entry \in DOMAIN scope[o] /\ e \in DOMAIN scope[o]
    BY <1>0, <2>3 DEF Report, TakenOver
  <2>5. row.entry = e
    BY <1>6, <2>1, <2>2, <2>3, <2>4 DEF Duplicates
  <2> QED
    BY <2>3, <2>5 DEF RowsSettled
<1>7. ASSUME ~Duplicates(o)
      PROVE  Cardinality(Changed(ids, o)) <= op[o].failed
  <2> DEFINE S == Changed(ids, o)
             T == RowsOf(o, "FAILED")
             f == [e \in S |-> [entry |-> e, outcome |-> "FAILED"]]
  <2>1. ASSUME NEW e \in S PROVE [entry |-> e, outcome |-> "FAILED"] \in T
    <3>1. PICK row \in items[o] :
            row.entry = e /\ row.outcome # "CANCELLED" /\ Settled(o, row)
      BY <1>6, <1>7 DEF Changed
    <3>2. row \in Row /\ row.outcome # "SKIPPED"
      BY <1>0, <3>1 DEF Changed, Settled
    <3>3. row = [entry |-> e, outcome |-> "FAILED"]
      BY <3>1, <3>2 DEF Row, Outcome
    <3> QED
      BY <3>1, <3>3 DEF RowsOf
  <2>2. f \in Injection(S, T)
    BY <2>1 DEF Injection, IsInjective
  <2>3. IsFiniteSet(T) /\ Cardinality(T) \in Nat
    <3>1. \A x \in T : x.entry \in Entry /\ \A y \in T : x.entry = y.entry => x = y
      BY <1>0 DEF RowsOf, Report, Row
    <3> QED
      BY <3>1, UniqueFinite
  <2>4. IsFiniteSet(S) /\ Cardinality(S) <= Cardinality(T)
    BY <2>2, <2>3, FS_Injection
  <2>5. Cardinality(S) \in Nat /\ Cardinality(T) <= op[o].failed
    BY <2>4, FS_CardinalityType DEF FailuresCounted
  <2> QED
    BY <1>0, <2>3, <2>4, <2>5
<1> QED
  BY <1>4, <1>5, <1>6, <1>7 DEF FromFailures, Settled

LEMMA NextKeepsRetries ==
    ASSUME IInv, [Next]_vars, KeyCustody, RowsSettled, FailuresCounted, RetriesSettled
    PROVE  RetriesSettled'
<1>0. TypeOK /\ IntakeTypeOK /\ AtWork /\ 0 \notin Op /\ None \notin Token
  BY StoreAssumption DEF IInv, TypeOK, Op
<1>1. ASSUME NEW o \in Op, op[o].retryOf # 0, scope'[o] = scope[o],
             op'[o].retryOf = op[o].retryOf
      PROVE  FromFailures(scope[o], op[o].retryOf)'
  <2>1. PICK ids, p : ids = scope[o] /\ p = op[o].retryOf
    OBVIOUS
  <2>2. FromFailures(ids, p)
    BY <1>1, <2>1 DEF RetriesSettled
  <2>3. FromFailures(ids, p)'
    BY <2>2, FromFailuresStays
  <2> QED
    BY <1>1, <2>1, <2>3
<1>2. ASSUME NEW r \in Req, req[r].retryOf # 0, req[r].pc \in {"lookup", "quota", "insert"}
      PROVE  \E ids, p : ids = req[r].ids /\ p = req[r].retryOf /\ FromFailures(ids, p)'
  <2>1. PICK ids, p : ids = req[r].ids /\ p = req[r].retryOf
    OBVIOUS
  <2>2. FromFailures(ids, p)
    BY <1>2, <2>1 DEF RetriesSettled
  <2>3. FromFailures(ids, p)'
    BY <2>2, FromFailuresStays
  <2> QED
    BY <2>1, <2>3
<1>3. ASSUME NEW r \in Req, req'[r].retryOf # 0, req'[r].pc \in {"lookup", "quota", "insert"}
      PROVE  FromFailures(req[r].ids, req[r].retryOf)'
  <2>1. CASE /\ req'[r].retryOf = req[r].retryOf /\ req'[r].ids = req[r].ids
             /\ req[r].pc \in {"lookup", "quota", "insert"}
    BY <1>2, <1>3, <2>1
  <2>2. CASE Advances(r) /\ req[r].pc = "rows" /\ ReadRows(r) /\ req'[r].pc = "lookup"
    <3>1. req[r].retryOf \in Op /\ req'[r].retryOf = req[r].retryOf
      BY <1>0, <2>2 DEF AtWork, Sourced, Advances, Identity
    <3>2. PICK ids, p : ids = req'[r].ids /\ p = req[r].retryOf
      OBVIOUS
    <3>3. FromFailures(ids, p)
      BY <2>2, <3>1, <3>2, ReadingFailures
    <3>4. FromFailures(ids, p)'
      BY <3>3, FromFailuresStays
    <3> QED
      BY <3>1, <3>2, <3>4
  <2>3. CASE UNCHANGED req
    BY <1>3, <2>1, <2>3
  <2>4. ASSUME NEW q \in Req, Begins(q) \/ Proceeds(q)
        PROVE  FromFailures(req[r].ids, req[r].retryOf)'
    <3>1. CASE q # r
      <4>1. req'[r] = req[r]
        BY <1>0, <2>4, <3>1, RequestCases
      <4> QED
        BY <1>3, <2>1, <4>1
    <3>2. CASE q = r
      <4>1. Starts(r) \/ Advances(r) \/ Dies(r) \/ \E n \in Op : Inserts(r, n)
        BY <1>0, <2>4, <3>2, RequestCases
      <4>2. Advances(r)
        BY <1>3, <4>1 DEF Starts, Dies, IdleReq, Inserts
      <4>3. req[r].pc = "consume" => req[r].retryOf = 0
        BY <1>0 DEF AtWork, Sourced, KeyCustody, Whole
      <4>4. req'[r].retryOf = req[r].retryOf
        BY <4>2 DEF Advances, Identity
      <4>5. \/ /\ req'[r].ids = req[r].ids
               /\ req[r].pc \in {"lookup", "quota", "insert"}
            \/ req[r].pc = "rows" /\ ReadRows(r) /\ req'[r].pc = "lookup"
        BY <1>3, <4>2, <4>3, <4>4 DEF Advances
      <4> QED
        BY <2>1, <2>2, <4>2, <4>4, <4>5
    <3> QED
      BY <3>1, <3>2
  <2>5. UNCHANGED req \/ \E q \in Req : Begins(q) \/ Proceeds(q)
    BY StepCases DEF vars, intakeVars, PreviewActs, Preview, ExpirePreview
  <2> QED
    BY <2>3, <2>4, <2>5
<1>4. ASSUME NEW o \in Op, op'[o].retryOf # 0
      PROVE  FromFailures(scope[o], op[o].retryOf)'
  <2>1. CASE RowsKept
    BY <1>1, <1>4, <2>1 DEF RowsKept, Columns
  <2>2. ASSUME NEW r \in Req, NEW n \in Op, Inserts(r, n)
        PROVE  FromFailures(scope[o], op[o].retryOf)'
    <3>1. CASE o # n
      BY <1>1, <1>4, <2>2, <3>1 DEF Inserts
    <3>2. CASE o = n
      <4>1. op'[o].retryOf = req[r].retryOf /\ scope'[o] = req[r].ids /\ req[r].pc = "insert"
        BY <2>2, <3>2 DEF Inserts
      <4>2. PICK ids, p : ids = req[r].ids /\ p = req[r].retryOf /\ FromFailures(ids, p)'
        BY <1>2, <1>4, <4>1
      <4> QED
        BY <4>1, <4>2
    <3> QED
      BY <3>1, <3>2
  <2> QED
    BY <2>1, <2>2, StepMoves DEF Outside
<1> QED
  BY <1>3, <1>4 DEF RetriesSettled

LEMMA NextKeepsRetryCustody ==
    ASSUME IInv, KeyCustody, RetryCustody, [Next]_vars
    PROVE  RetryCustody'
BY NextKeepsRows, NextKeepsDone, NextKeepsFailures, NextKeepsRetries DEF RetryCustody

\* A retry makes at most as many changes a second time as its source operation
\* counts failures, whatever executors throw after their commit and whatever
\* is killed, purged or rolled back: retryFailed starts from rows whose entries
\* are over, and only a failed one of them may have changed its issue.
THEOREM RetryTheorem == Spec => []RetryRepeatsOnlyFailures
<1>1. IInv /\ RetryCustody => RetryRepeatsOnlyFailures
  <2> SUFFICES ASSUME IInv, RetryCustody, NEW o \in Op, NEW p, p = op[o].retryOf, p # 0,
                      ~Duplicates(p)
               PROVE  Cardinality(Repeated(o, p)) <= op[p].failed
    BY DEF RetryRepeatsOnlyFailures
  <2>1. FromFailures(scope[o], p)
    BY DEF RetryCustody, RetriesSettled
  <2>2. Repeated(o, p) \in SUBSET Changed(scope[o], p)
    BY DEF Repeated, Changed, TakenOver
  <2>3. p \in Op /\ op[p].failed \in Nat /\ Cardinality(Changed(scope[o], p)) <= op[p].failed
    BY <2>1 DEF FromFailures, IInv, TypeOK, StoreTypeOK, OpRow
  <2>4. IsFiniteSet(Changed(scope[o], p))
    BY <2>3, EntriesOf DEF Changed, TakenOver
  <2>5. /\ IsFiniteSet(Repeated(o, p))
        /\ Cardinality(Repeated(o, p)) <= Cardinality(Changed(scope[o], p))
    BY <2>2, <2>4, FS_Subset
  <2> QED
    BY <2>3, <2>4, <2>5, FS_CardinalityType
<1>2. IInv /\ KeyCustody /\ RetryCustody /\ [Next]_vars => RetryCustody'
  BY NextKeepsRetryCustody
<1> QED
  BY <1>1, <1>2, InitRetryCustody, LedgerInvariant, CustodyInvariant, PTL DEF Spec

===============================================================================
