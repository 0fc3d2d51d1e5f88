------------------------ MODULE BulkOperationsProofs -------------------------
(***************************************************************************)
(* Theorems about BulkOperations for every value of its constants: any     *)
(* number of requests and ticks, any batch size, any number of failures,   *)
(* with locks that may expire under a live tick.                           *)
(*                                                                         *)
(* None of AtMostOnce, OneRowPerEntry and TypeOK is inductive.  IInv adds  *)
(* who has custody of an entry: it is in the pending list, in the hands of *)
(* one tick, or recorded, and before RPUSH there is nothing of it at all.  *)
(***************************************************************************)
EXTENDS BulkOperations, FiniteSetTheorems, TLAPS

\* The pending list of o is still to be RPUSHed, if it ever is.
Fresh(o) == \/ op[o].status = "ABSENT"
            \/ \E r \in Req : req[r].pc = "push" /\ req[r].op = o

\* No list of issues exceeds the bound on the items of an operation.
Lengths ==
    /\ \A t \in Token : Len(preview[t].ids) <= MaxScope
    /\ \A r \in Req   : Len(req[r].ids) <= MaxScope
    /\ \A o \in Op    : Len(scope[o]) <= MaxScope

\* An entry in a pending list is untouched.
QueueCustody ==
    \A o \in Op : \A k \in queue[o] :
        /\ k \in 1..Len(scope[o])
        /\ applied[o][k] = 0
        /\ \A row \in items[o] : row.entry # k

\* An entry in the hands of a tick is nowhere else.
CustodyOf(s) ==
    /\ \A k \in tick[s].todo :
         /\ tick[s].op \in Op
         /\ k \in 1..Len(scope[tick[s].op])
         /\ k \notin queue[tick[s].op]
         /\ applied[tick[s].op][k] = 0
         /\ \A row \in items[tick[s].op] : row.entry # k
    /\ \A d \in tick[s].done :
         /\ tick[s].op \in Op
         /\ d.entry \in 1..Len(scope[tick[s].op])
         /\ d.entry \notin queue[tick[s].op]
         /\ d.entry \notin tick[s].todo
         /\ \A e \in tick[s].done : d.entry = e.entry => d = e
         /\ \A row \in items[tick[s].op] : row.entry # d.entry

TickCustody == \A s \in Tick : CustodyOf(s)

\* Two ticks never hold the same entry.
Apart(s, t) ==
    /\ \A k \in tick[s].todo :
         k \notin tick[t].todo /\ \A d \in tick[t].done : d.entry # k
    /\ \A d \in tick[s].done, e \in tick[t].done : d.entry # e.entry

Exclusive ==
    \A s, t \in Tick : s # t /\ tick[s].op = tick[t].op => Apart(s, t)

\* The report has one row per entry.
Report ==
    \A o \in Op : \A r1 \in items[o] :
      /\ r1.entry \in 1..Len(scope[o])
      /\ \A r2 \in items[o] : r1.entry = r2.entry => r1 = r2

\* Before RPUSH nothing was queued, executed or reported.
EmptyOf(o) ==
    /\ queue[o] = {} /\ items[o] = {}
    /\ \A k \in Entry : applied[o][k] = 0
    /\ \A s \in Tick : tick[s].op = o => tick[s].todo = {} /\ tick[s].done = {}

FreshEmpty == \A o \in Op : Fresh(o) => EmptyOf(o)

\* A request about to RPUSH is the only one to do so for its operation.
OnePusher ==
    \A r \in Req : req[r].pc = "push" =>
      /\ req[r].op \in Op /\ op[req[r].op].status # "ABSENT"
      /\ \A q \in Req : q # r /\ req[q].pc = "push" => req[q].op # req[r].op

\* A create about to consume has a token, a retry that reads rows a source.
Sourced(q) == /\ q.pc = "consume" => q.token \in Token
              /\ q.pc = "rows" => q.retryOf \in Op

\* Past the selection a tick has an operation, and a status to finalize it
\* with.
Working(t) == t.pc \notin {"idle", "select", "release"} =>
                t.op \in Op /\ t.verdict \in TerminalStatus

AtWork ==
    /\ \A s \in Tick : Working(tick[s])
    /\ \A r \in Req : Sourced(req[r])

Ledger == /\ QueueCustody /\ TickCustody /\ Exclusive /\ Report
          /\ AtMostOnce /\ FreshEmpty /\ OnePusher

IInv == TypeOK /\ Lengths /\ AtWork /\ Ledger

-----------------------------------------------------------------------------
(* Facts about the sets the actions count.                                  *)

LEMMA Bounds ==
    /\ MaxOps \in Nat /\ MaxScope \in Nat /\ MaxFaults \in Nat
    /\ BatchSize \in Nat \ {0} /\ MaxDrain \in Nat \ {0}
BY StoreAssumption DEF StoreAssumption

\* Sets of entries, and of rows or results with one element per entry, are
\* finite and no larger than MaxScope.
LEMMA EntriesFinite ==
    ASSUME NEW S \in SUBSET Entry
    PROVE  IsFiniteSet(S) /\ Cardinality(S) \in Nat /\ Cardinality(S) <= MaxScope
<1>1. 1 \in Int /\ MaxScope \in Int
  BY Bounds
<1>2. IsFiniteSet(1..MaxScope) /\ Cardinality(1..MaxScope) <= MaxScope
  BY <1>1, FS_Interval, Bounds
<1>3. IsFiniteSet(Entry) /\ Cardinality(Entry) <= MaxScope
  BY <1>2 DEF Entry
<1>4. IsFiniteSet(S) /\ Cardinality(S) <= Cardinality(Entry)
  BY <1>3, FS_Subset
<1> QED
  BY <1>3, <1>4, FS_CardinalityType, Bounds

LEMMA UniqueFinite ==
    ASSUME NEW S,
           \A x \in S : x.entry \in Entry /\ \A y \in S : x.entry = y.entry => x = y
    PROVE  IsFiniteSet(S) /\ Cardinality(S) \in Nat /\ Cardinality(S) <= MaxScope
<1> DEFINE f == [x \in S |-> x.entry]
<1>1. f \in Injection(S, Entry)
  BY DEF Injection, IsInjective
<1>2. IsFiniteSet(Entry) /\ Cardinality(Entry) \in Nat /\ Cardinality(Entry) <= MaxScope
  BY EntriesFinite
<1>3. IsFiniteSet(S) /\ Cardinality(S) <= Cardinality(Entry)
  BY ONLY <1>1, <1>2, FS_Injection
<1> QED
  BY <1>2, <1>3, FS_CardinalityType, Bounds

-----------------------------------------------------------------------------
LEMMA InitIInv == Init => IInv
<1> SUFFICES ASSUME Init PROVE IInv
  OBVIOUS
<1> USE DEF Init, StoreInit, IntakeInit, ProcInit
<1>1. StoreTypeOK
  BY StoreAssumption
     DEF StoreTypeOK, OpRow, AbsentOp, Status, ActiveStatus, TerminalStatus, Op
<1>2. IntakeTypeOK
  BY StoreAssumption
     DEF IntakeTypeOK, PreviewState, ReqState, IdleReq, ReqPc, Answer
<1>3. ProcTypeOK
  BY StoreAssumption
     DEF ProcTypeOK, TickState, IdleTick, Pc, Status, ActiveStatus, TerminalStatus
<1>4. Lengths
  BY StoreAssumption DEF Lengths, IdleReq
<1>5. Ledger
  <2>1. QueueCustody /\ TickCustody /\ Exclusive /\ Report /\ AtMostOnce
    BY DEF QueueCustody, TickCustody, CustodyOf, Exclusive, Apart, Report, AtMostOnce,
           IdleTick
  <2>2. FreshEmpty /\ OnePusher
    BY DEF FreshEmpty, EmptyOf, OnePusher, IdleTick, IdleReq
  <2> QED
    BY <2>1, <2>2 DEF Ledger
<1>6. AtWork
  BY DEF AtWork, Working, Sourced, IdleTick, IdleReq
<1> QED
  BY <1>1, <1>2, <1>3, <1>4, <1>5, <1>6 DEF IInv, TypeOK

-----------------------------------------------------------------------------
(* The ledger: who has custody of an entry.                                 *)

\* A step that gives no one custody of an entry: lists and reports may only
\* lose entries, a tick keeps what it holds or loses it, and no operation
\* goes back to being fresh.
Quiet ==
    /\ UNCHANGED <<scope, applied>>
    /\ \A o \in Op : /\ queue'[o] \subseteq queue[o]
                     /\ items'[o] \subseteq items[o]
                     /\ op'[o].status = "ABSENT" => op[o].status = "ABSENT"
    /\ \A s \in Tick :
         \/ tick'[s].todo = {} /\ tick'[s].done = {}
         \/ /\ tick'[s].op = tick[s].op
            /\ tick'[s].todo = tick[s].todo /\ tick'[s].done = tick[s].done
    /\ \A r \in Req : req'[r].pc = "push" =>
         req[r].pc = "push" /\ req'[r].op = req[r].op

LEMMA QuietKeepsLedger == Ledger /\ Quiet => Ledger'
<1> SUFFICES ASSUME Ledger, Quiet PROVE Ledger'
  OBVIOUS
<1> USE DEF Ledger, Quiet
<1>1. QueueCustody'
  BY DEF QueueCustody
<1>2. TickCustody'
  BY DEF TickCustody, CustodyOf
<1>3. Exclusive'
  BY DEF Exclusive, Apart
<1>4. Report' /\ AtMostOnce'
  BY DEF Report, AtMostOnce
<1>5. \A o \in Op : Fresh(o)' => Fresh(o)
  BY DEF Fresh
<1>6. FreshEmpty'
  BY <1>5 DEF FreshEmpty, EmptyOf
<1>7. OnePusher'
  BY DEF OnePusher
<1> QED
  BY <1>1, <1>2, <1>3, <1>4, <1>6, <1>7

\* The actions of a request: it begins with what it is given, and goes on.
Begins(r) ==
    \/ \E u \in User, k \in Key, t \in Token : BeginCreate(r, u, k, t)
    \/ \E u \in User, k \in Key, o \in Op : BeginRetry(r, u, k, o)
    \/ \E u \in User, o \in Op : BeginCancel(r, u, o)

Proceeds(r) ==
    \/ ConsumeToken(r) \/ CheckQuota(r) \/ InsertOp(r) \/ Refetch(r)
    \/ PushQueue(r) \/ Rollback(r) \/ ReadRows(r) \/ LookupRetry(r)
    \/ SetCancel(r) \/ KillRequest(r)

\* Requests are quiet, but for the INSERT and the RPUSH.
LEMMA QuietRequests ==
    ASSUME StoreTypeOK, IntakeTypeOK, UNCHANGED procVars,
           NEW r \in Req, Begins(r) \/ Proceeds(r),
           ~InsertOp(r), ~PushQueue(r)
    PROVE  Quiet
<1>0. /\ op \in [Op -> OpRow] /\ items \in [Op -> SUBSET Row]
      /\ req \in [Req -> ReqState] /\ "pc" \in DOMAIN req[r]
  BY DEF StoreTypeOK, IntakeTypeOK, ReqState
<1>1. UNCHANGED <<scope, queue, applied, tick>>
  BY DEF storeVars, procVars, Begins, Proceeds, BeginCreate, ConsumeToken,
         CheckQuota, Refetch, Rollback, BeginRetry, ReadRows, LookupRetry,
         BeginCancel, SetCancel, KillRequest
<1>2. \A p \in Op : /\ items'[p] \subseteq items[p]
                    /\ op'[p].status = "ABSENT" => op[p].status = "ABSENT"
  <2>1. CASE Rollback(r)
    <3>1. UNCHANGED <<op, items>>
          \/ /\ op' = [op EXCEPT ![req[r].op].status = "DELETED"]
             /\ items' = [items EXCEPT ![req[r].op] = {}]
      BY <2>1 DEF Rollback
    <3> QED
      BY <1>0, <3>1 DEF OpRow
  <2>2. CASE SetCancel(r)
    <3>1. /\ UNCHANGED items
          /\ \/ UNCHANGED op
             \/ op' = [op EXCEPT ![req[r].op].cancelRequested = TRUE]
      BY <2>2 DEF SetCancel
    <3> QED
      BY <1>0, <3>1 DEF OpRow
  <2>3. CASE ~Rollback(r) /\ ~SetCancel(r)
    <3>1. UNCHANGED <<op, items>>
      BY <2>3 DEF storeVars, Begins, Proceeds, BeginCreate, ConsumeToken,
         CheckQuota, Refetch, BeginRetry, ReadRows, LookupRetry, BeginCancel,
         KillRequest
    <3> QED
      BY <3>1
  <2> QED
    BY <2>1, <2>2, <2>3
<1>3. \/ UNCHANGED req
      \/ req'[r].pc # "push" /\ \A q \in Req \ {r} : req'[q] = req[q]
  <2> USE DEF IdleReq, Reply, GotoReq
  <2>2. ASSUME NEW u \in User, NEW k \in Key, NEW t \in Token, BeginCreate(r, u, k, t)
        PROVE  req'[r].pc # "push" /\ \A q \in Req \ {r} : req'[q] = req[q]
    BY <2>2, <1>0 DEF BeginCreate
  <2>3. CASE ConsumeToken(r)
    BY <2>3, <1>0 DEF ConsumeToken
  <2>4. CASE CheckQuota(r)
    BY <2>4, <1>0 DEF CheckQuota
  <2>9. CASE Refetch(r) \/ LookupRetry(r)
    <3>1. CASE \E answer, p : Reply(r, answer, p)
      <4>1. PICK answer, p : Reply(r, answer, p)
        BY <3>1
      <4> QED
        BY <4>1, <1>0
    <3>2. CASE GotoReq(r, "quota")
      BY <3>2, <1>0
    <3> HIDE DEF Reply, GotoReq
    <3>3. (\E answer, p : Reply(r, answer, p)) \/ GotoReq(r, "quota")
      BY <2>9 DEF Refetch, LookupRetry
    <3> QED
      BY <3>1, <3>2, <3>3
  <2>5. CASE Rollback(r) \/ SetCancel(r)
    BY <2>5, <1>0 DEF Rollback, SetCancel
  <2>6. CASE \E u \in User, k \in Key, o \in Op : BeginRetry(r, u, k, o)
    BY <2>6, <1>0 DEF BeginRetry
  <2>10. CASE \E u \in User, o \in Op : BeginCancel(r, u, o)
    BY <2>10, <1>0 DEF BeginCancel
  <2>7. CASE ReadRows(r)
    BY <2>7, <1>0 DEF ReadRows
  <2>8. CASE KillRequest(r)
    BY <2>8, <1>0 DEF KillRequest
  <2> QED
    BY <2>2, <2>3, <2>4, <2>5, <2>6, <2>7, <2>8, <2>9, <2>10 DEF Begins, Proceeds
<1> QED
  BY <1>1, <1>2, <1>3 DEF Quiet

\* A tick step that hands over no entry.
Keeps(s) ==
    /\ \A q \in Tick \ {s} : tick'[q] = tick[q]
    /\ \/ tick'[s].todo = {} /\ tick'[s].done = {}
       \/ /\ tick'[s].op = tick[s].op
          /\ tick'[s].todo = tick[s].todo /\ tick'[s].done = tick[s].done

LEMMA GotoOrLeaveKeeps ==
    ASSUME ProcTypeOK, NEW s \in Tick,
           \/ \E pc : Goto(s, pc)
           \/ Leave(s)
           \/ tick' = [tick EXCEPT ![s] = IdleTick]
    PROVE  Keeps(s)
<1>1. tick \in [Tick -> TickState] /\ {"pc", "op", "todo", "done"} \subseteq DOMAIN tick[s]
  BY DEF ProcTypeOK, TickState
<1>2. CASE \E pc : Goto(s, pc)
  BY <1>1, <1>2 DEF Goto, Keeps
<1>3. CASE Leave(s)
  BY <1>1, <1>3 DEF Leave, Keeps, IdleTick
<1>4. CASE tick' = [tick EXCEPT ![s] = IdleTick]
  BY <1>1, <1>4 DEF Keeps, IdleTick
<1> QED
  BY <1>2, <1>3, <1>4

\* What a tick does is quiet unless it pops entries, handles one or records
\* some: AcquireLock .. KillTick below, and every failure.
LEMMA QuietTicks ==
    ASSUME StoreTypeOK, ProcTypeOK, UNCHANGED intakeVars, NEW s \in Tick,
           \/ AcquireLock(s) \/ SelectOp(s) \/ StartOp(s) \/ Reread(s)
           \/ ReleaseLock(s) \/ TickThrows(s) \/ KillTick(s)
    PROVE  Quiet
<1>0. {"pc", "op", "todo", "done", "verdict"} \subseteq DOMAIN tick[s]
  BY DEF ProcTypeOK, TickState
<1>1. UNCHANGED <<scope, queue, applied, items, req>>
  BY DEF storeVars, intakeVars, AcquireLock, SelectOp, StartOp, Reread, ReleaseLock,
         TickThrows, KillTick
<1>2. Keeps(s)
  <2>1. CASE AcquireLock(s)
    BY <2>1, GotoOrLeaveKeeps DEF AcquireLock, Keeps
  <2>2. CASE SelectOp(s)
    BY <2>2, GotoOrLeaveKeeps DEF SelectOp, Keeps, IdleTick, ProcTypeOK
  <2>3. CASE StartOp(s)
    BY <2>3, GotoOrLeaveKeeps DEF StartOp
  <2>4. CASE Reread(s)
    BY <2>4, <1>0, GotoOrLeaveKeeps DEF Reread, FinalizeFresh, Keeps, ProcTypeOK
  <2>5. CASE ReleaseLock(s) \/ KillTick(s)
    BY <2>5, GotoOrLeaveKeeps DEF ReleaseLock, KillTick
  <2>6. CASE TickThrows(s)
    BY <2>6, GotoOrLeaveKeeps DEF TickThrows
  <2> QED
    BY <2>1, <2>2, <2>3, <2>4, <2>5, <2>6
<1>3. \A p \in Op : op'[p].status = "ABSENT" => op[p].status = "ABSENT"
  <2>1. \/ UNCHANGED op
        \/ op' = [op EXCEPT ![tick[s].op].status = "RUNNING"]
    BY DEF storeVars, AcquireLock, SelectOp, StartOp, Reread, ReleaseLock,
           TickThrows, KillTick
  <2>2. CASE UNCHANGED op
    BY <2>2
  <2>3. CASE op' = [op EXCEPT ![tick[s].op].status = "RUNNING"]
    <3>1. SUFFICES ASSUME NEW p \in Op, op'[p].status = "ABSENT"
                   PROVE  op[p].status = "ABSENT"
      OBVIOUS
    <3>2. DOMAIN op = Op /\ "status" \in DOMAIN op[p]
      BY DEF StoreTypeOK, OpRow
    <3>3. p = tick[s].op => op'[p].status = "RUNNING"
      BY <2>3, <3>2
    <3> QED
      BY <2>3, <3>1, <3>2, <3>3
  <2> QED
    BY <2>1, <2>2, <2>3
<1> QED
  BY <1>1, <1>2, <1>3 DEF Quiet, Keeps

LEMMA QuietEndings ==
    ASSUME StoreTypeOK, ProcTypeOK, AtWork, UNCHANGED intakeVars, NEW s \in Tick,
           Finalize(s) \/ CancelOp(s)
    PROVE  Quiet
<1>1. UNCHANGED <<scope, queue, applied, items, req>>
  BY DEF storeVars, intakeVars, Finalize, CancelOp
<1>2. Keeps(s)
  BY GotoOrLeaveKeeps DEF Finalize, CancelOp
<1>3. \A p \in Op : op'[p].status = "ABSENT" => op[p].status = "ABSENT"
  <2>1. CASE Finalize(s)
    <3>1. tick[s].verdict # "ABSENT"
      BY <2>1 DEF Finalize, At, AtWork, Working, TerminalStatus
    <3> QED
      BY <2>1, <3>1 DEF Finalize, StoreTypeOK, OpRow
  <2>2. CASE CancelOp(s)
    BY <2>2 DEF CancelOp, StoreTypeOK, OpRow
  <2> QED
    BY <2>1, <2>2
<1> QED
  BY <1>1, <1>2, <1>3 DEF Quiet, Keeps

LEMMA QuietCron ==
    ASSUME StoreTypeOK, UNCHANGED intakeVars,
           LockExpires \/ Recover \/ \E o \in Op : PurgeItems(o) \/ PurgeOp(o)
    PROVE  Quiet
<1>1. UNCHANGED <<scope, queue, applied, req, tick>>
  BY DEF storeVars, procVars, intakeVars, LockExpires, Recover, PurgeItems, PurgeOp
<1>2. \A p \in Op : items'[p] \subseteq items[p]
  BY DEF StoreTypeOK, storeVars, LockExpires, Recover, PurgeItems, PurgeOp
<1>3. \A p \in Op : op'[p].status = "ABSENT" => op[p].status = "ABSENT"
  <2>1. CASE Recover
    <3>1. PICK stale : op' = [p \in Op |-> IF p \in stale
                                THEN [op[p] EXCEPT !.status = "QUEUED"] ELSE op[p]]
      BY <2>1 DEF Recover
    <3> QED
      BY <3>1 DEF StoreTypeOK, OpRow
  <2>2. CASE LockExpires \/ \E o \in Op : PurgeItems(o)
    BY <2>2 DEF storeVars, LockExpires, PurgeItems
  <2>3. CASE \E o \in Op : PurgeOp(o)
    BY <2>3 DEF StoreTypeOK, OpRow, PurgeOp
  <2> QED
    BY <2>1, <2>2, <2>3
<1> QED
  BY <1>1, <1>2, <1>3 DEF Quiet

-----------------------------------------------------------------------------
(* The steps that move an entry from one custodian to the next.             *)

\* LPOP: from the pending list to the tick.
LEMMA PopMovesCustody ==
    ASSUME StoreTypeOK, ProcTypeOK, Ledger, NEW s \in Tick, tick[s].op \in Op,
           NEW batch \in SUBSET queue[tick[s].op], NEW pc,
           queue' = [queue EXCEPT ![tick[s].op] = @ \ batch],
           tick' = [tick EXCEPT ![s].pc = pc, ![s].todo = batch],
           UNCHANGED <<op, scope, items, applied, req>>
    PROVE  Ledger'
<1> DEFINE o == tick[s].op
<1>1. /\ \A p \in Op : queue'[p] \subseteq queue[p]
      /\ queue'[o] \cap batch = {}
  BY DEF StoreTypeOK
<1>2. /\ \A t \in Tick : tick'[t].op = tick[t].op /\ tick'[t].done = tick[t].done
      /\ \A t \in Tick \ {s} : tick'[t].todo = tick[t].todo
      /\ tick'[s].todo = batch
  BY DEF ProcTypeOK, TickState
<1>0. QueueCustody /\ TickCustody /\ Exclusive /\ Report /\ AtMostOnce /\ FreshEmpty
     /\ OnePusher
  BY DEF Ledger
<1> HIDE DEF o
<1>3. QueueCustody'
  BY <1>0, <1>1 DEF QueueCustody
<1>4. TickCustody'
  <2> SUFFICES ASSUME NEW t \in Tick PROVE CustodyOf(t)'
    BY DEF TickCustody
  <2>1. CustodyOf(t)
    BY <1>0 DEF TickCustody
  <2>2. CASE t # s
    BY <1>1, <1>2, <2>1, <2>2 DEF CustodyOf
  <2>3. CASE t = s
    <3>1. \A k \in batch : /\ k \in 1..Len(scope[o]) /\ applied[o][k] = 0
                           /\ k \notin queue'[o]
                           /\ \A row \in items[o] : row.entry # k
      BY <1>0, <1>1 DEF QueueCustody, o
    <3>2. tick'[t].op = o /\ tick'[t].todo = batch /\ tick'[t].done = tick[s].done
      BY <1>2, <2>3 DEF o
    <3>3. o \in Op /\ \A d \in tick[s].done :
             /\ d.entry \in 1..Len(scope[o]) /\ d.entry \notin queue[o]
             /\ \A e \in tick[s].done : d.entry = e.entry => d = e
             /\ \A row \in items[o] : row.entry # d.entry
      BY <2>1, <2>3 DEF CustodyOf, o
    <3>4. batch \subseteq queue[o] /\ queue'[o] \subseteq queue[o]
      BY <1>1, <3>3 DEF o
    <3> QED
      BY <3>1, <3>2, <3>3, <3>4 DEF CustodyOf
  <2> QED
    BY <2>2, <2>3
<1>5. Exclusive'
  <2> SUFFICES ASSUME NEW t1 \in Tick, NEW t2 \in Tick, t1 # t2,
                      tick'[t1].op = tick'[t2].op
               PROVE  Apart(t1, t2)'
    BY DEF Exclusive
  <2>1. Apart(t1, t2)
    BY <1>0, <1>2 DEF Exclusive
  <2>2. \A t \in Tick : tick[t].op = o =>
          /\ \A k \in tick[t].todo : k \notin batch
          /\ \A d \in tick[t].done : d.entry \notin batch
    BY <1>0 DEF TickCustody, CustodyOf, o
  <2>3. CASE t1 = s
    <3>1. /\ tick[t2].op = o /\ tick'[t2].todo = tick[t2].todo
          /\ tick'[t2].done = tick[t2].done
          /\ tick'[t1].todo = batch /\ tick'[t1].done = tick[t1].done
      BY <1>2, <2>3 DEF o
    <3> QED
      BY <2>1, <2>2, <3>1 DEF Apart
  <2>4. CASE t2 = s
    <3>1. /\ tick[t1].op = o /\ tick'[t1].todo = tick[t1].todo
          /\ tick'[t1].done = tick[t1].done
          /\ tick'[t2].todo = batch /\ tick'[t2].done = tick[t2].done
      BY <1>2, <2>4 DEF o
    <3> QED
      BY <2>1, <2>2, <3>1 DEF Apart
  <2>5. CASE t1 # s /\ t2 # s
    BY <1>2, <2>1, <2>5 DEF Apart
  <2> QED
    BY <2>3, <2>4, <2>5
<1>6. Report' /\ AtMostOnce' /\ OnePusher'
  BY <1>0 DEF Report, AtMostOnce, OnePusher
<1>7. FreshEmpty'
  <2> SUFFICES ASSUME NEW p \in Op, Fresh(p)' PROVE EmptyOf(p)'
    BY DEF FreshEmpty
  <2>1. EmptyOf(p)
    BY <1>0 DEF FreshEmpty, Fresh
  <2>2. \A t \in Tick : tick[t].op = p => tick'[t].todo = {} /\ tick'[t].done = {}
    BY <1>2, <2>1 DEF EmptyOf, o
  <2> QED
    BY <1>1, <1>2, <2>1, <2>2 DEF EmptyOf
<1> QED
  BY <1>0, <1>3, <1>4, <1>5, <1>6, <1>7 DEF Ledger

LEMMA PopBatchLedger ==
    ASSUME StoreTypeOK, ProcTypeOK, AtWork, Ledger, UNCHANGED intakeVars,
           NEW s \in Tick, PopBatch(s) \/ DrainPop(s)
    PROVE  Ledger'
<1> DEFINE o == tick[s].op
           batch == Front(queue[o], BatchSize)
<1>1. o \in Op
  BY DEF AtWork, Working, PopBatch, DrainPop, At
<1>2. batch \subseteq queue[o]
  BY DEF Front
<1>3. UNCHANGED <<op, scope, items, applied, req>>
  BY DEF PopBatch, DrainPop, intakeVars
<1>4. CASE \E pc : /\ Pop(o, batch)
                   /\ tick' = [tick EXCEPT ![s].pc = pc, ![s].todo = batch]
  BY <1>1, <1>2, <1>3, <1>4, PopMovesCustody DEF Pop
<1>5. CASE /\ UNCHANGED queue \/ Pop(o, batch)
           /\ (\E pc : Goto(s, pc)) \/ Leave(s)
  <2>1. \A p \in Op : queue'[p] \subseteq queue[p]
    BY <1>5 DEF Pop, StoreTypeOK
  <2>2. Keeps(s)
    BY <1>5, GotoOrLeaveKeeps
  <2>3. Quiet
    BY <1>3, <2>1, <2>2 DEF Quiet, Keeps
  <2> QED
    BY <2>3, QuietKeepsLedger
<1> QED
  BY <1>4, <1>5 DEF PopBatch, DrainPop

\* execute: the entry stays with the tick, handled.
LEMMA ExecuteItemLedger ==
    ASSUME StoreTypeOK, ProcTypeOK, AtWork, Ledger, UNCHANGED intakeVars,
           NEW s \in Tick, NEW outcome \in {"SUCCEEDED", "FAILED", "SKIPPED"},
           NEW effect \in BOOLEAN, ExecuteItem(s, outcome, effect)
    PROVE  Ledger'
<1> DEFINE o == tick[s].op
<1>1. o \in Op /\ UNCHANGED <<op, scope, queue, items, req>>
  BY DEF AtWork, Working, ExecuteItem, At, intakeVars
<1>2. PICK k \in tick[s].todo :
        /\ tick' = [tick EXCEPT
             ![s].todo = @ \ {k},
             ![s].done = @ \cup {[entry |-> k, outcome |-> outcome]}]
        /\ applied' = IF effect THEN [applied EXCEPT ![o][k] = @ + 1] ELSE applied
  BY DEF ExecuteItem
<1>3. /\ \A t \in Tick : tick'[t].op = tick[t].op
      /\ \A t \in Tick \ {s} : tick'[t].todo = tick[t].todo /\ tick'[t].done = tick[t].done
      /\ tick'[s].todo = tick[s].todo \ {k}
      /\ tick'[s].done = tick[s].done \cup {[entry |-> k, outcome |-> outcome]}
  BY <1>2 DEF ProcTypeOK, TickState
<1>4. k \in Entry /\ applied[o][k] = 0
  BY <1>2 DEF ProcTypeOK, TickState, Ledger, TickCustody, CustodyOf
<1>5. /\ \A p \in Op, j \in Entry : p # o \/ j # k => applied'[p][j] = applied[p][j]
      /\ applied'[o][k] \in {0, 1}
  BY <1>1, <1>2, <1>4 DEF StoreTypeOK
<1>0. QueueCustody /\ TickCustody /\ Exclusive /\ Report /\ AtMostOnce /\ FreshEmpty
     /\ OnePusher
  BY DEF Ledger
<1> HIDE DEF o
<1>6. QueueCustody'
  <2>1. \A p \in Op : \A j \in queue[p] : j \in Entry /\ (p # o \/ j # k)
    BY <1>0, <1>2 DEF TickCustody, CustodyOf, StoreTypeOK, o
  <2> QED
    BY <1>0, <1>1, <1>5, <2>1 DEF QueueCustody
<1>7. TickCustody'
  <2> SUFFICES ASSUME NEW t \in Tick PROVE CustodyOf(t)'
    BY DEF TickCustody
  <2>1. CustodyOf(t) /\ CustodyOf(s) /\ tick[t].todo \subseteq Entry
    BY <1>0 DEF TickCustody, ProcTypeOK, TickState
  <2>2. CASE t = s
    <3>1. \A j \in tick'[s].todo : j \in Entry /\ j # k /\ j \in tick[s].todo
      BY <1>3, <2>1, <2>2
    <3>2. \A d \in tick'[s].done : d \in tick[s].done \/ d.entry = k
      BY <1>3
    <3>3. \A d \in tick[s].done : d.entry # k
      BY <1>2, <2>1 DEF CustodyOf
    <3>4. /\ tick'[s].op = o /\ tick[s].op = o
          /\ UNCHANGED <<scope, queue, items>> /\ o \in Op
      BY <1>1, <1>3 DEF o
    <3>5. \A j \in tick'[s].todo :
             /\ j \in 1..Len(scope'[o]) /\ j \notin queue'[o] /\ applied'[o][j] = 0
             /\ \A row \in items'[o] : row.entry # j
      BY <1>5, <2>1, <3>1, <3>4 DEF CustodyOf
    <3>6. \A d \in tick'[s].done :
             /\ d.entry \in 1..Len(scope'[o]) /\ d.entry \notin queue'[o]
             /\ d.entry \notin tick'[s].todo
             /\ \A row \in items'[o] : row.entry # d.entry
      BY <1>2, <1>3, <2>1, <3>2, <3>4 DEF CustodyOf
    <3>7. \A d, e \in tick'[s].done : d.entry = e.entry => d = e
      BY <1>3, <2>1, <3>3 DEF CustodyOf
    <3> QED
      BY <2>2, <3>4, <3>5, <3>6, <3>7 DEF CustodyOf
  <2>3. CASE t # s
    <3>1. \A j \in tick[t].todo : tick[t].op # o \/ j # k
      BY <1>0, <1>2, <2>3 DEF Exclusive, Apart, o
    <3> QED
      BY <1>1, <1>3, <1>5, <2>1, <2>3, <3>1 DEF CustodyOf
  <2> QED
    BY <2>2, <2>3
<1>8. Exclusive'
  <2> SUFFICES ASSUME NEW t1 \in Tick, NEW t2 \in Tick, t1 # t2,
                      tick'[t1].op = tick'[t2].op
               PROVE  Apart(t1, t2)'
    BY DEF Exclusive
  <2>1. Apart(t1, t2) /\ Apart(t2, t1)
    BY <1>0, <1>3 DEF Exclusive
  <2>2. \A t \in Tick : tick'[t].todo \subseteq tick[t].todo
    BY <1>3
  <2>3. \A t \in Tick : \A d \in tick'[t].done :
          d \in tick[t].done \/ (t = s /\ d.entry = k /\ k \in tick[t].todo)
    <3>1. \A d \in tick'[s].done : d \in tick[s].done \/ d.entry = k
      BY <1>3
    <3>2. \A t \in Tick \ {s} : tick'[t].done = tick[t].done
      BY <1>3
    <3> QED
      BY <1>2, <3>1, <3>2
  <2> QED
    BY <2>1, <2>2, <2>3 DEF Apart
<1>9. Report' /\ AtMostOnce' /\ OnePusher'
  BY <1>0, <1>1, <1>5 DEF Report, AtMostOnce, OnePusher
<1>10. FreshEmpty'
  <2> SUFFICES ASSUME NEW p \in Op, Fresh(p)' PROVE EmptyOf(p)'
    BY DEF FreshEmpty
  <2>1. EmptyOf(p)
    BY <1>0, <1>1 DEF FreshEmpty, Fresh
  <2>2. p # o
    BY <1>2, <2>1 DEF EmptyOf, o
  <2>3. \A t \in Tick : tick[t].op = p => t # s
    BY <2>2 DEF o
  <2> QED
    BY <1>1, <1>3, <1>5, <2>1, <2>2, <2>3 DEF EmptyOf
<1> QED
  BY <1>6, <1>7, <1>8, <1>9, <1>10 DEF Ledger

\* Recording: from the tick to the report.
LEMMA RecordMovesCustody ==
    ASSUME Ledger, NEW s \in Tick, tick[s].op \in Op,
           \A p \in Op \ {tick[s].op} : items'[p] = items[p],
           \A row \in items'[tick[s].op] : row \in items[tick[s].op] \/
             /\ row.entry \in tick[s].todo \/ \E d \in tick[s].done : d.entry = row.entry
             /\ \A other \in items'[tick[s].op] :
                  row.entry = other.entry => other \in items[tick[s].op] \/ row = other
             /\ \A d \in tick'[s].done : d.entry # row.entry,
           \A q \in Tick \ {s} : tick'[q] = tick[q],
           tick'[s].op = tick[s].op, tick'[s].todo = {},
           tick'[s].done \subseteq tick[s].done,
           \A p \in Op : op'[p].status = op[p].status,
           UNCHANGED <<scope, queue, applied, req>>
    PROVE  Ledger'
<1> DEFINE o == tick[s].op
           rows == items'[o] \ items[o]
<1>0. QueueCustody /\ TickCustody /\ Exclusive /\ Report /\ AtMostOnce /\ FreshEmpty
     /\ OnePusher /\ o \in Op
  BY DEF Ledger
<1>1. /\ \A p \in Op \ {o} : items'[p] = items[p]
      /\ \A row \in items'[o] : row \in items[o] \/ row \in rows
      /\ \A row \in rows : \A other \in rows : row.entry = other.entry => row = other
      /\ \A row \in rows : \A d \in tick'[s].done : d.entry # row.entry
  OBVIOUS
<1>2. \A row \in rows :
        /\ row.entry \in 1..Len(scope[o]) /\ row.entry \notin queue[o]
        /\ \A r \in items[o] : r.entry # row.entry
  BY <1>0 DEF TickCustody, CustodyOf
<1>3. \A row \in rows : \A t \in Tick \ {s} : tick[t].op = o =>
        row.entry \notin tick[t].todo /\ \A d \in tick[t].done : d.entry # row.entry
  BY <1>0 DEF Exclusive, Apart
<1> HIDE DEF o, rows
<1>4. QueueCustody'
  BY <1>0, <1>1, <1>2 DEF QueueCustody
<1>5. TickCustody'
  <2> SUFFICES ASSUME NEW t \in Tick PROVE CustodyOf(t)'
    BY DEF TickCustody
  <2>1. CustodyOf(t)
    BY <1>0 DEF TickCustody
  <2>2. CASE t = s
    <3>1. \A d \in tick'[s].done : \A row \in items'[o] : row.entry # d.entry
      BY <1>1, <2>1, <2>2 DEF CustodyOf, o
    <3> QED
      BY <2>1, <2>2, <3>1 DEF CustodyOf, o
  <2>3. CASE t # s /\ tick[t].op = o
    BY <1>1, <1>3, <2>1, <2>3 DEF CustodyOf
  <2>4. CASE t # s /\ tick[t].op # o
    BY <1>1, <2>1, <2>4 DEF CustodyOf
  <2> QED
    BY <2>2, <2>3, <2>4
<1>6. Exclusive'
  <2> SUFFICES ASSUME NEW t1 \in Tick, NEW t2 \in Tick, t1 # t2,
                      tick'[t1].op = tick'[t2].op
               PROVE  Apart(t1, t2)'
    BY DEF Exclusive
  <2>1. Apart(t1, t2)
    BY <1>0 DEF Exclusive
  <2>2. \A t \in Tick : tick'[t].todo \subseteq tick[t].todo /\ tick'[t].done \subseteq tick[t].done
    OBVIOUS
  <2> QED
    BY <2>1, <2>2 DEF Apart
<1>7. Report'
  BY <1>0, <1>1, <1>2 DEF Report
<1>8. AtMostOnce' /\ OnePusher'
  BY <1>0 DEF AtMostOnce, OnePusher
<1>9. FreshEmpty'
  <2> SUFFICES ASSUME NEW p \in Op, Fresh(p)' PROVE EmptyOf(p)'
    BY DEF FreshEmpty
  <2>1. EmptyOf(p)
    BY <1>0 DEF FreshEmpty, Fresh
  <2>2. p = o => rows = {}
    BY <2>1 DEF EmptyOf, o, rows
  <2>3. items'[p] = {}
    BY <1>1, <2>1, <2>2 DEF EmptyOf
  <2> QED
    BY <2>1, <2>3 DEF EmptyOf
<1> QED
  BY <1>4, <1>5, <1>6, <1>7, <1>8, <1>9 DEF Ledger

LEMMA CommitLedger ==
    ASSUME StoreTypeOK, ProcTypeOK, AtWork, Ledger, UNCHANGED intakeVars,
           NEW s \in Tick, CommitBatch(s)
    PROVE  Ledger'
<1> DEFINE o == tick[s].op
           rows == RowsToInsert(tick[s].done)
<1>1. o \in Op /\ UNCHANGED <<scope, queue, applied, req>>
  BY DEF AtWork, Working, CommitBatch, At, intakeVars
<1>2. CASE Exists(o)
  <2>1. /\ items' = [items EXCEPT ![o] = @ \cup rows]
        /\ op' = [op EXCEPT ![o] = CountBatch(@, tick[s].done)]
        /\ tick' = [tick EXCEPT ![s].pc = "reread", ![s].done = {}]
        /\ tick[s].todo = {}
    BY <1>2 DEF CommitBatch
  <2>2. /\ \A q \in Tick \ {s} : tick'[q] = tick[q]
        /\ tick'[s].op = tick[s].op /\ tick'[s].todo = {} /\ tick'[s].done = {}
    BY <2>1 DEF ProcTypeOK, TickState
  <2>3. \A p \in Op : op'[p].status = op[p].status
    BY <2>1, <1>1 DEF StoreTypeOK, OpRow, CountBatch
  <2>4. \A row \in rows :
          /\ row.entry \in tick[s].todo \/ \E d \in tick[s].done : d.entry = row.entry
          /\ \A other \in rows : row.entry = other.entry => row = other
          /\ \A d \in tick'[s].done : d.entry # row.entry
    BY <2>2 DEF RowsToInsert, Ledger, TickCustody, CustodyOf
  <2>5. tick'[s].done \subseteq tick[s].done
    BY <2>2
  <2>6. /\ \A p \in Op \ {o} : items'[p] = items[p]
        /\ items'[o] = items[o] \cup rows
    BY <1>1, <2>1 DEF StoreTypeOK
  <2> HIDE DEF rows
  <2> QED
    BY <1>1, <2>2, <2>3, <2>4, <2>5, <2>6, RecordMovesCustody
<1>3. CASE ~Exists(o)
  <2>1. Leave(s) /\ UNCHANGED <<items, op>>
    BY <1>3 DEF CommitBatch
  <2>2. Quiet
    BY <1>1, <2>1, GotoOrLeaveKeeps DEF Quiet, Keeps
  <2> QED
    BY <2>2, QuietKeepsLedger
<1> QED
  BY <1>2, <1>3

LEMMA DrainRecordLedger ==
    ASSUME StoreTypeOK, ProcTypeOK, AtWork, Ledger, UNCHANGED intakeVars,
           NEW s \in Tick, DrainRecord(s)
    PROVE  Ledger'
<1> DEFINE o == tick[s].op
           rows == {[entry |-> k, outcome |-> "CANCELLED"] : k \in tick[s].todo}
<1>1. o \in Op /\ UNCHANGED <<op, scope, queue, applied, req>>
  BY DEF AtWork, Working, DrainRecord, At, intakeVars
<1>2. CASE Exists(o)
  <2>1. /\ items' = [items EXCEPT ![o] = @ \cup rows]
        /\ tick' = [tick EXCEPT ![s].pc = "drain", ![s].todo = {},
                        ![s].drained = @ + Cardinality(tick[s].todo)]
    BY <1>2 DEF DrainRecord
  <2>2. /\ \A q \in Tick \ {s} : tick'[q] = tick[q]
        /\ tick'[s].op = tick[s].op /\ tick'[s].todo = {}
        /\ tick'[s].done = tick[s].done
    BY <2>1 DEF ProcTypeOK, TickState
  <2>3. \A d \in tick[s].done : d.entry \notin tick[s].todo
    BY DEF Ledger, TickCustody, CustodyOf
  <2>4. \A row \in rows :
          /\ row.entry \in tick[s].todo \/ \E d \in tick[s].done : d.entry = row.entry
          /\ \A other \in rows : row.entry = other.entry => row = other
          /\ \A d \in tick'[s].done : d.entry # row.entry
    BY <2>2, <2>3
  <2>5. tick'[s].done \subseteq tick[s].done /\ \A p \in Op : op'[p].status = op[p].status
    BY <1>1, <2>2
  <2>6. /\ \A p \in Op \ {o} : items'[p] = items[p]
        /\ items'[o] = items[o] \cup rows
    BY <1>1, <2>1 DEF StoreTypeOK
  <2> HIDE DEF rows
  <2> QED
    BY <1>1, <2>2, <2>4, <2>5, <2>6, RecordMovesCustody
<1>3. CASE ~Exists(o)
  <2>1. Leave(s) /\ UNCHANGED items
    BY <1>3 DEF DrainRecord
  <2>2. Quiet
    BY <1>1, <2>1, GotoOrLeaveKeeps DEF Quiet, Keeps
  <2> QED
    BY <2>2, QuietKeepsLedger
<1> QED
  BY <1>2, <1>3

\* INSERT: the operation was fresh and stays so, now with its one pusher.
LEMMA InsertLedger ==
    ASSUME StoreTypeOK, IntakeTypeOK, Ledger, UNCHANGED procVars,
           NEW r \in Req, InsertOp(r)
    PROVE  Ledger'
<1>0. /\ QueueCustody /\ TickCustody /\ Exclusive /\ Report /\ AtMostOnce /\ FreshEmpty
      /\ OnePusher /\ UNCHANGED <<queue, items, applied, tick>>
  BY DEF Ledger, InsertOp, procVars
<1>1. {"pc", "op", "ids"} \subseteq DOMAIN req[r] /\ req[r].pc = "insert"
  <2>1. {"pc", "op", "ids"} \subseteq DOMAIN req[r]
    BY DEF IntakeTypeOK, ReqState
  <2> QED
    BY <2>1 DEF InsertOp, AtReq
<1>2. CASE GotoReq(r, "refetch") /\ UNCHANGED <<op, scope>>
  <2>1. req'[r].pc # "push" /\ \A q \in Req \ {r} : req'[q] = req[q]
    BY <1>1, <1>2 DEF GotoReq, IntakeTypeOK
  <2>2. Quiet
    BY <1>0, <1>2, <2>1 DEF Quiet
  <2> QED
    BY <2>2, QuietKeepsLedger
<1>3. CASE \E n \in Op : \E row, ids :
             /\ op[n].status = "ABSENT" /\ row.status = "QUEUED"
             /\ op' = [op EXCEPT ![n] = row]
             /\ scope' = [scope EXCEPT ![n] = ids]
             /\ req' = [req EXCEPT ![r].pc = "push", ![r].op = n, ![r].ids = << >>]
  <2>0. PICK n \in Op : \E row, ids :
             /\ op[n].status = "ABSENT" /\ row.status = "QUEUED"
             /\ op' = [op EXCEPT ![n] = row]
             /\ scope' = [scope EXCEPT ![n] = ids]
             /\ req' = [req EXCEPT ![r].pc = "push", ![r].op = n, ![r].ids = << >>]
    BY <1>3
  <2>1. PICK row, ids :
             /\ op[n].status = "ABSENT" /\ row.status = "QUEUED"
             /\ op' = [op EXCEPT ![n] = row]
             /\ scope' = [scope EXCEPT ![n] = ids]
             /\ req' = [req EXCEPT ![r].pc = "push", ![r].op = n, ![r].ids = << >>]
    BY <2>0
  <2>2. /\ op'[n].status = "QUEUED" /\ \A p \in Op \ {n} : op'[p] = op[p]
        /\ \A p \in Op \ {n} : scope'[p] = scope[p]
    BY <2>1 DEF StoreTypeOK
  <2>3. /\ req'[r].pc = "push" /\ req'[r].op = n
        /\ \A q \in Req \ {r} : req'[q] = req[q]
    BY <1>1, <2>1 DEF IntakeTypeOK, ReqState
  <2>4. EmptyOf(n)
    BY <1>0, <2>1 DEF FreshEmpty, Fresh
  <2>5. QueueCustody' /\ Report' /\ AtMostOnce'
    BY <1>0, <2>2, <2>4 DEF QueueCustody, Report, AtMostOnce, EmptyOf
  <2>6. TickCustody'
    BY <1>0, <2>2, <2>4 DEF TickCustody, CustodyOf, EmptyOf
  <2>7. Exclusive'
    BY <1>0 DEF Exclusive, Apart
  <2>8. FreshEmpty'
    <3>1. \A p \in Op : Fresh(p)' => p = n \/ Fresh(p)
      BY <2>2, <2>3 DEF Fresh
    <3> QED
      BY <1>0, <2>4, <3>1 DEF FreshEmpty, EmptyOf
  <2>9. OnePusher'
    <3>1. \A q \in Req \ {r} : req[q].pc = "push" =>
            /\ req[q].op \in Op \ {n} /\ op[req[q].op].status # "ABSENT"
      BY <1>0, <2>1 DEF OnePusher
    <3>2. \A q \in Req \ {r} : req'[q].pc = "push" =>
            /\ req'[q].op \in Op /\ req'[q].op # n
            /\ op'[req'[q].op].status # "ABSENT"
      BY <2>2, <2>3, <3>1
    <3>3. \A q, p \in Req \ {r} :
            p # q /\ req'[q].pc = "push" /\ req'[p].pc = "push" => req'[q].op # req'[p].op
      BY <1>0, <2>3 DEF OnePusher
    <3> QED
      BY <2>2, <2>3, <3>2, <3>3 DEF OnePusher
  <2> QED
    BY <2>5, <2>6, <2>7, <2>8, <2>9 DEF Ledger
<1> QED
  BY <1>2, <1>3 DEF InsertOp, IsNextId, AbsentOp

\* RPUSH: the operation leaves freshness with all of its entries queued.
LEMMA PushLedger ==
    ASSUME StoreTypeOK, IntakeTypeOK, Lengths, Ledger, UNCHANGED procVars,
           NEW r \in Req, PushQueue(r)
    PROVE  Ledger'
<1> DEFINE o == req[r].op
<1>0. /\ QueueCustody /\ TickCustody /\ Exclusive /\ Report /\ AtMostOnce /\ FreshEmpty
      /\ OnePusher /\ UNCHANGED <<op, scope, items, applied, tick>>
  BY DEF Ledger, PushQueue, procVars
<1>1. {"pc", "op", "ids", "answer"} \subseteq DOMAIN req[r] /\ req[r].pc = "push"
  BY DEF IntakeTypeOK, ReqState, PushQueue, AtReq
<1>2. o \in Op /\ op[o].status # "ABSENT" /\ EmptyOf(o)
  BY <1>0, <1>1 DEF OnePusher, FreshEmpty, Fresh
<1>3. req'[r].pc # "push" /\ \A q \in Req \ {r} : req'[q] = req[q]
  <2>1. (\E answer, p : Reply(r, answer, p)) \/ GotoReq(r, "rollback")
    BY DEF PushQueue
  <2>2. CASE \E answer, p : Reply(r, answer, p)
    BY <1>1, <2>2 DEF Reply, IntakeTypeOK
  <2>3. CASE GotoReq(r, "rollback")
    BY <1>1, <2>3 DEF GotoReq, IntakeTypeOK
  <2> QED
    BY <2>1, <2>2, <2>3
<1>4. CASE UNCHANGED queue
  <2>1. Quiet
    BY <1>0, <1>3, <1>4 DEF Quiet
  <2> QED
    BY <2>1, QuietKeepsLedger
<1>5. CASE queue' = [queue EXCEPT ![o] = 1..Len(scope[o])]
  <2>1. /\ queue'[o] = 1..Len(scope[o])
        /\ \A p \in Op \ {o} : queue'[p] = queue[p]
    BY <1>2, <1>5 DEF StoreTypeOK
  <2>2. 1..Len(scope[o]) \subseteq Entry
    BY <1>2, Bounds DEF StoreTypeOK, Lengths, Entry
  <2> HIDE DEF o
  <2>3. QueueCustody'
    BY <1>0, <1>2, <2>1, <2>2 DEF QueueCustody, EmptyOf
  <2>4. TickCustody'
    <3> SUFFICES ASSUME NEW t \in Tick PROVE CustodyOf(t)'
      BY DEF TickCustody
    <3>1. CustodyOf(t)
      BY <1>0 DEF TickCustody
    <3>2. CASE tick[t].op = o
      BY <1>0, <1>2, <3>2 DEF EmptyOf, CustodyOf
    <3>3. CASE tick[t].op # o
      BY <1>0, <2>1, <3>1, <3>3 DEF CustodyOf
    <3> QED
      BY <3>2, <3>3
  <2>5. Exclusive' /\ Report' /\ AtMostOnce'
    BY <1>0 DEF Exclusive, Apart, Report, AtMostOnce
  <2>6. FreshEmpty'
    <3>1. \A p \in Op : Fresh(p)' => p # o /\ Fresh(p)
      BY <1>0, <1>1, <1>2, <1>3 DEF Fresh, OnePusher, o
    <3> QED
      BY <1>0, <2>1, <3>1 DEF FreshEmpty, EmptyOf
  <2>7. OnePusher'
    BY <1>0, <1>3 DEF OnePusher
  <2> QED
    BY <2>3, <2>4, <2>5, <2>6, <2>7 DEF Ledger
<1> QED
  BY <1>4, <1>5 DEF PushQueue

-----------------------------------------------------------------------------
(* Types.                                                                   *)

LEMMA FaultType == StoreTypeOK /\ Fault => faults' \in 0..MaxFaults
BY Bounds DEF StoreTypeOK, Fault

\* An operation row with some of its columns updated is an operation row.
LEMMA RowUpdates ==
    ASSUME NEW row \in OpRow
    PROVE  /\ \A status \in Status : [row EXCEPT !.status = status] \in OpRow
           /\ [row EXCEPT !.cancelRequested = TRUE] \in OpRow
BY DEF OpRow

LEMMA StatusUpdates ==
    ASSUME op \in [Op -> OpRow], NEW o,
           \/ UNCHANGED op
           \/ \E status \in Status : op' = [op EXCEPT ![o].status = status]
    PROVE  op' \in [Op -> OpRow]
<1>1. ASSUME NEW status \in Status, op' = [op EXCEPT ![o].status = status]
      PROVE  op' \in [Op -> OpRow]
  <2> DEFINE row == [op[o] EXCEPT !.status = status]
  <2>1. op' = [op EXCEPT ![o] = row]
    BY <1>1
  <2>2. o \in Op => row \in OpRow
    BY RowUpdates
  <2> HIDE DEF row
  <2> QED
    BY <2>1, <2>2
<1> QED
  BY <1>1

LEMMA InsertTypes ==
    ASSUME StoreTypeOK, IntakeTypeOK, NEW r \in Req, InsertOp(r)
    PROVE  StoreTypeOK'
<1>1. \/ UNCHANGED <<op, scope>>
      \/ \E n \in Op :
           /\ op' = [op EXCEPT ![n] =
                [AbsentOp EXCEPT !.status = "QUEUED", !.owner = req[r].user,
                   !.key = req[r].key, !.token = req[r].token,
                   !.retryOf = req[r].retryOf, !.total = Len(req[r].ids)]]
           /\ scope' = [scope EXCEPT ![n] = req[r].ids]
  BY DEF InsertOp
<1>2. /\ req[r].user \in User \cup {None} /\ req[r].key \in Key \cup {None}
      /\ req[r].token \in Token \cup {None} /\ req[r].retryOf \in 0..MaxOps
      /\ req[r].ids \in Seq(Issue) /\ Len(req[r].ids) \in Nat
  BY DEF IntakeTypeOK, ReqState
<1>3. [AbsentOp EXCEPT !.status = "QUEUED", !.owner = req[r].user,
         !.key = req[r].key, !.token = req[r].token,
         !.retryOf = req[r].retryOf, !.total = Len(req[r].ids)] \in OpRow
  BY <1>2 DEF AbsentOp, OpRow, Status, ActiveStatus
<1>4. op' \in [Op -> OpRow] /\ scope' \in [Op -> Seq(Issue)]
  BY <1>1, <1>2, <1>3 DEF StoreTypeOK
<1>5. UNCHANGED <<queue, items, applied, late, faults>>
  BY DEF InsertOp
<1> QED
  BY <1>4, <1>5 DEF StoreTypeOK

LEMMA RequestStoreTypes ==
    ASSUME TypeOK, Lengths, NEW r \in Req, Begins(r) \/ Proceeds(r)
    PROVE  StoreTypeOK'
<1>0. StoreTypeOK /\ IntakeTypeOK
  BY DEF TypeOK
<1>1. CASE Begins(r) \/ Refetch(r) \/ ReadRows(r) \/ LookupRetry(r)
  <2>1. UNCHANGED <<op, scope, queue, items, applied, late, faults>>
    BY <1>1 DEF storeVars, Begins, BeginCreate, BeginRetry, BeginCancel, Refetch,
       ReadRows, LookupRetry
  <2> QED
    BY <2>1, <1>0 DEF StoreTypeOK
<1>2. CASE ConsumeToken(r) \/ CheckQuota(r) \/ KillRequest(r)
  <2>1. /\ UNCHANGED <<op, scope, queue, items, applied, late>>
        /\ Fault \/ UNCHANGED faults
    BY <1>2 DEF ConsumeToken, CheckQuota, KillRequest
  <2>2. faults' \in 0..MaxFaults
    BY <1>0, <2>1, FaultType DEF StoreTypeOK
  <2> QED
    BY <2>1, <2>2, <1>0 DEF StoreTypeOK
<1>3. CASE InsertOp(r)
  BY <1>0, <1>3, InsertTypes
<1>4. CASE PushQueue(r)
  <2>1. /\ UNCHANGED <<op, scope, items, applied, late>>
        /\ Fault \/ UNCHANGED faults
        /\ UNCHANGED queue \/
           queue' = [queue EXCEPT ![req[r].op] = 1..Len(scope[req[r].op])]
    BY <1>4 DEF PushQueue
  <2>2. faults' \in 0..MaxFaults
    BY <1>0, <2>1, FaultType DEF StoreTypeOK
  <2>3. \A p \in Op : 1..Len(scope[p]) \subseteq Entry
    BY <1>0, Bounds DEF StoreTypeOK, Lengths, Entry
  <2>4. queue' \in [Op -> SUBSET Entry]
    <3> DEFINE p == req[r].op
               pushed == 1..Len(scope[p])
    <3>1. queue \in [Op -> SUBSET Entry] /\ (p \in Op => pushed \in SUBSET Entry)
      BY <1>0, <2>3 DEF StoreTypeOK
    <3>2. UNCHANGED queue \/ queue' = [queue EXCEPT ![p] = pushed]
      BY <2>1
    <3> HIDE DEF p, pushed
    <3> QED
      BY <3>1, <3>2
  <2> QED
    BY <2>1, <2>2, <2>4, <1>0 DEF StoreTypeOK
<1>5. CASE Rollback(r) \/ SetCancel(r)
  <2>1. /\ UNCHANGED <<scope, queue, applied, late>>
        /\ Fault \/ UNCHANGED faults
        /\ UNCHANGED items \/ items' = [items EXCEPT ![req[r].op] = {}]
        /\ \/ UNCHANGED op
           \/ op' = [op EXCEPT ![req[r].op].status = "DELETED"]
           \/ op' = [op EXCEPT ![req[r].op].cancelRequested = TRUE]
    BY <1>5 DEF Rollback, SetCancel
  <2>2. faults' \in 0..MaxFaults
    BY <1>0, <2>1, FaultType DEF StoreTypeOK
  <2>3. op' \in [Op -> OpRow]
    <3>1. op \in [Op -> OpRow] /\ "DELETED" \in Status
      BY <1>0 DEF StoreTypeOK, Status
    <3>2. \A p \in Op : /\ [op[p] EXCEPT !.status = "DELETED"] \in OpRow
                        /\ [op[p] EXCEPT !.cancelRequested = TRUE] \in OpRow
      BY <3>1, RowUpdates
    <3> QED
      BY <2>1, <3>1, <3>2
  <2>4. items' \in [Op -> SUBSET Row]
    BY <1>0, <2>1 DEF StoreTypeOK
  <2> QED
    BY <2>1, <2>2, <2>3, <2>4, <1>0 DEF StoreTypeOK
<1> QED
  BY <1>1, <1>2, <1>3, <1>4, <1>5 DEF Proceeds

\* What the requests keep to themselves.
RequestsOK ==
    /\ req \in [Req -> ReqState]
    /\ \A r \in Req : Len(req[r].ids) <= MaxScope /\ Sourced(req[r])

LEMMA RequestUpdates ==
    ASSUME RequestsOK, NEW r \in Req,
           \/ \E answer \in Answer, p \in 0..MaxOps : Reply(r, answer, p)
           \/ \E pc \in ReqPc \ {"consume", "rows"} : GotoReq(r, pc)
           \/ \E q \in ReqState : /\ Len(q.ids) <= MaxScope /\ Sourced(q)
                                  /\ req' = [req EXCEPT ![r] = q]
           \/ UNCHANGED req
    PROVE  RequestsOK'
<1>1. req \in [Req -> ReqState] /\ req[r] \in ReqState
  BY DEF RequestsOK
<1>2. CASE \E q \in ReqState : /\ Len(q.ids) <= MaxScope /\ Sourced(q)
                               /\ req' = [req EXCEPT ![r] = q]
  BY <1>2 DEF RequestsOK
<1>3. CASE \E answer \in Answer, p \in 0..MaxOps : Reply(r, answer, p)
  <2>1. PICK answer \in Answer, p \in 0..MaxOps : Reply(r, answer, p)
    BY <1>3
  <2> DEFINE q == [req[r] EXCEPT !.pc = "done", !.answer = answer, !.op = p,
                                 !.ids = << >>]
  <2>2. req' = [req EXCEPT ![r] = q]
    BY <2>1, <1>1 DEF Reply
  <2>3. << >> \in Seq(Issue) /\ Len(<< >>) = 0
    OBVIOUS
  <2>4. q \in ReqState
    BY <1>1, <2>3 DEF ReqState, ReqPc
  <2>5. q.ids = << >> /\ q.pc = "done"
    BY <1>1 DEF ReqState
  <2> HIDE DEF q
  <2>6. Len(q.ids) <= MaxScope
    BY <2>3, <2>5, Bounds
  <2> QED
    BY <1>2, <2>2, <2>4, <2>5, <2>6 DEF Sourced
<1>4. CASE \E pc \in ReqPc \ {"consume", "rows"} : GotoReq(r, pc)
  <2>1. PICK pc \in ReqPc \ {"consume", "rows"} : GotoReq(r, pc)
    BY <1>4
  <2> DEFINE q == [req[r] EXCEPT !.pc = pc]
  <2>2. req' = [req EXCEPT ![r] = q]
    BY <2>1, <1>1 DEF GotoReq
  <2>3. q \in ReqState /\ q.ids = req[r].ids /\ q.pc = pc
    BY <1>1 DEF ReqState
  <2>4. Len(q.ids) <= MaxScope
    BY <2>3 DEF RequestsOK
  <2> HIDE DEF q
  <2> QED
    BY <1>2, <2>1, <2>2, <2>3, <2>4 DEF Sourced
<1>5. CASE UNCHANGED req
  BY <1>5 DEF RequestsOK
<1> QED
  BY <1>2, <1>3, <1>4, <1>5

\* The issues of a retry come from the report, so there are at most MaxScope.
LEMMA ReadRowsTypes ==
    ASSUME StoreTypeOK, RequestsOK, Lengths, Ledger, NEW r \in Req, ReadRows(r)
    PROVE  RequestsOK'
<1> DEFINE o == req[r].retryOf
           rows == RetryRows(o)
<1>1. req[r] \in ReqState /\ o \in Op
  BY DEF RequestsOK, Sourced, ReadRows, AtReq
<1>2. CASE rows = {} /\ Reply(r, 410, 0)
  BY <1>2, RequestUpdates, Bounds DEF Answer
<1>3. CASE rows # {} /\ \E order \in [1..Cardinality(rows) -> rows] :
             req' = [req EXCEPT ![r].pc = "lookup",
                  ![r].ids = [i \in DOMAIN order |-> scope[o][order[i].entry]]]
  <2>1. PICK order \in [1..Cardinality(rows) -> rows] :
             req' = [req EXCEPT ![r].pc = "lookup",
                  ![r].ids = [i \in DOMAIN order |-> scope[o][order[i].entry]]]
    BY <1>3
  <2> DEFINE ids == [i \in DOMAIN order |-> scope[o][order[i].entry]]
             q == [req[r] EXCEPT !.pc = "lookup", !.ids = ids]
  <2>2. Cardinality(rows) \in Nat /\ Cardinality(rows) <= MaxScope
    <3>1. \A x \in rows : x.entry \in Entry /\ \A y \in rows : x.entry = y.entry => x = y
      BY <1>1 DEF RetryRows, StoreTypeOK, Row, Ledger, Report
    <3> QED
      BY <3>1, UniqueFinite
  <2>3. \A i \in 1..Cardinality(rows) : scope[o][order[i].entry] \in Issue
    <3>1. scope[o] \in Seq(Issue)
      BY <1>1 DEF StoreTypeOK
    <3>2. \A row \in rows : row.entry \in 1..Len(scope[o])
      BY <1>1 DEF RetryRows, Ledger, Report
    <3>3. \A e \in 1..Len(scope[o]) : scope[o][e] \in Issue
      BY <3>1
    <3> HIDE DEF rows, o
    <3>4. \A i \in 1..Cardinality(rows) : order[i] \in rows
      BY <2>1
    <3> QED
      BY <3>2, <3>3, <3>4
  <2>4. ids \in [1..Cardinality(rows) -> Issue]
    BY <2>1, <2>3
  <2>5. ids \in Seq(Issue) /\ Len(ids) = Cardinality(rows)
    BY <2>2, <2>4
  <2>6. req' = [req EXCEPT ![r] = q]
    BY <2>1, <1>1 DEF RequestsOK
  <2> HIDE DEF ids
  <2>7. q \in ReqState /\ q.ids = ids /\ q.pc = "lookup"
    BY <1>1, <2>5 DEF ReqState, ReqPc
  <2> HIDE DEF q
  <2> QED
    BY <2>2, <2>5, <2>6, <2>7, RequestUpdates DEF Sourced
<1> QED
  BY <1>2, <1>3 DEF ReadRows
\* Preview is the only writer of item lists, DeleteToken keeps them.
PreviewsOK == /\ preview \in [Token -> PreviewState]
              /\ \A t \in Token : Len(preview[t].ids) <= MaxScope

LEMMA PreviewTypes ==
    ASSUME PreviewsOK, NEW t,
           \/ DeleteToken(t) \/ UNCHANGED preview
           \/ \E u \in User, v \in Token, ids \in Scope : Preview(u, v, ids)
    PROVE  PreviewsOK'
<1>1. ASSUME NEW u \in User, NEW v \in Token, NEW ids \in Scope, Preview(u, v, ids)
      PROVE  PreviewsOK'
  <2> DEFINE p == [state |-> "stored", user |-> u, ids |-> ids]
  <2>1. ids \in Seq(Issue) /\ Len(ids) <= MaxScope
    BY StoreAssumption DEF StoreAssumption
  <2>2. p \in PreviewState /\ p.ids = ids
    BY <2>1 DEF PreviewState
  <2>3. preview' = [preview EXCEPT ![v] = p]
    BY <1>1 DEF Preview
  <2> HIDE DEF p
  <2> QED
    BY <2>1, <2>2, <2>3 DEF PreviewsOK
<1>2. CASE DeleteToken(t)
  BY <1>2 DEF DeleteToken, PreviewsOK, PreviewState
<1>3. CASE UNCHANGED preview
  BY <1>3 DEF PreviewsOK
<1> QED
  BY <1>1, <1>2, <1>3

\* The record every request starts from.
LEMMA IdleReqType == IdleReq \in ReqState /\ Len(IdleReq.ids) <= MaxScope
<1>1. << >> \in Seq(Issue) /\ Len(<< >>) = 0
  OBVIOUS
<1>2. IdleReq \in ReqState
  BY <1>1, Bounds DEF IdleReq, ReqState, ReqPc, Answer
<1>3. IdleReq.ids = << >>
  BY DEF IdleReq
<1> QED
  BY <1>1, <1>2, <1>3, Bounds

LEMMA RequestTypes ==
    ASSUME RequestsOK, PreviewsOK, StoreTypeOK, Lengths, Ledger,
           NEW r \in Req, Begins(r) \/ Proceeds(r)
    PROVE  RequestsOK'
<1>0. req \in [Req -> ReqState] /\ req[r] \in ReqState /\ Op \subseteq 0..MaxOps
  BY Bounds DEF RequestsOK, Op
<1>2. CASE \E answer \in {0, 200, 201, 400, 404, 409, 410, 429, 500, 503},
             p \in 0..MaxOps : Reply(r, answer, p)
  BY <1>2, RequestUpdates DEF Answer
<1>3. CASE \E pc \in {"quota", "insert", "refetch", "push", "rollback"} : GotoReq(r, pc)
  BY <1>3, RequestUpdates DEF ReqPc
<1>4. ASSUME NEW u \in User, NEW k \in Key, NEW t \in Token, BeginCreate(r, u, k, t)
      PROVE  RequestsOK'
  <2> DEFINE begun == [IdleReq EXCEPT !.user = u, !.key = k, !.token = t]
             q0    == [begun EXCEPT !.pc = "consume"]
             q1(p) == [begun EXCEPT !.pc = "done", !.answer = 200, !.op = p]
  <2>1. \/ req' = [req EXCEPT ![r] = q0]
        \/ \E p \in Op : req' = [req EXCEPT ![r] = q1(p)]
    BY <1>4 DEF BeginCreate, WithKey
  <2>2. IdleReq \in ReqState /\ {"consume", "done"} \subseteq ReqPc /\ 200 \in Answer
    BY IdleReqType DEF ReqPc, Answer
  <2>3. q0 \in ReqState /\ q0.pc = "consume" /\ q0.token = t /\ q0.ids = IdleReq.ids
    BY <2>2 DEF ReqState
  <2>4. ASSUME NEW p \in Op
        PROVE  q1(p) \in ReqState /\ q1(p).pc = "done" /\ q1(p).ids = IdleReq.ids
    BY <1>0, <2>2 DEF ReqState
  <2> HIDE DEF q0, q1
  <2> QED
    BY <2>1, <2>3, <2>4, RequestUpdates, IdleReqType DEF Sourced
<1>5. ASSUME NEW u \in User, NEW k \in Key, NEW o \in Op, BeginRetry(r, u, k, o)
      PROVE  RequestsOK'
  <2> DEFINE begun == [IdleReq EXCEPT !.user = u, !.key = k, !.retryOf = o]
             q0    == [begun EXCEPT !.pc = "done", !.answer = 409]
             q1    == [begun EXCEPT !.pc = "rows"]
  <2>1. req' = [req EXCEPT ![r] = q0] \/ req' = [req EXCEPT ![r] = q1]
    BY <1>5 DEF BeginRetry
  <2>2. /\ IdleReq \in ReqState /\ o \in 0..MaxOps
        /\ {"rows", "done"} \subseteq ReqPc /\ 409 \in Answer
    BY <1>0, IdleReqType DEF ReqPc, Answer
  <2>3. q0 \in ReqState /\ q0.pc = "done" /\ q0.ids = IdleReq.ids
    <3>1. begun \in ReqState /\ begun.ids = IdleReq.ids
      BY <2>2 DEF ReqState
    <3> HIDE DEF begun
    <3>2. "done" \in ReqPc /\ 409 \in Answer
      BY DEF ReqPc, Answer
    <3>3. q0 \in ReqState
      <4> DEFINE half == [begun EXCEPT !.pc = "done"]
      <4>1. half \in ReqState
        BY <3>1, <3>2 DEF ReqState
      <4>2. q0 = [half EXCEPT !.answer = 409]
        OBVIOUS
      <4> HIDE DEF half, q0
      <4> QED
        BY <3>2, <4>1, <4>2 DEF ReqState
    <3>4. q0.pc = "done" /\ q0.ids = begun.ids
      BY <3>1 DEF ReqState
    <3> QED
      BY <3>1, <3>3, <3>4
  <2>4. q1 \in ReqState /\ q1.pc = "rows" /\ q1.retryOf = o /\ q1.ids = IdleReq.ids
    BY <2>2 DEF ReqState
  <2> HIDE DEF q0, q1
  <2> QED
    BY <2>1, <2>3, <2>4, RequestUpdates, IdleReqType DEF Sourced
<1>6. ASSUME NEW u \in User, NEW o \in Op, BeginCancel(r, u, o)
      PROVE  RequestsOK'
  <2> DEFINE begun == [IdleReq EXCEPT !.user = u, !.op = o]
             q0    == [begun EXCEPT !.pc = "cancel"]
             q1    == [begun EXCEPT !.pc = "done", !.answer = 200]
  <2>1. req' = [req EXCEPT ![r] = q0] \/ req' = [req EXCEPT ![r] = q1]
    BY <1>6 DEF BeginCancel
  <2>2. /\ IdleReq \in ReqState /\ o \in 0..MaxOps
        /\ {"cancel", "done"} \subseteq ReqPc /\ 200 \in Answer
    BY <1>0, IdleReqType DEF ReqPc, Answer
  <2>3. q0 \in ReqState /\ q0.pc = "cancel" /\ q0.ids = IdleReq.ids
    BY <2>2 DEF ReqState
  <2>4. q1 \in ReqState /\ q1.pc = "done" /\ q1.ids = IdleReq.ids
    BY <2>2 DEF ReqState
  <2> HIDE DEF q0, q1
  <2> QED
    BY <2>1, <2>3, <2>4, RequestUpdates, IdleReqType DEF Sourced
<1>7. CASE KillRequest(r)
  <2> DEFINE q0 == [IdleReq EXCEPT !.pc = "done"]
  <2>1. req' = [req EXCEPT ![r] = q0]
    BY <1>7 DEF KillRequest
  <2>2. q0 \in ReqState /\ q0.pc = "done" /\ q0.ids = IdleReq.ids
    BY IdleReqType DEF ReqState, ReqPc
  <2> HIDE DEF q0
  <2> QED
    BY <2>1, <2>2, RequestUpdates, IdleReqType DEF Sourced
<1>8. CASE ConsumeToken(r)
  <2> DEFINE ids0 == preview[req[r].token].ids
             q0   == [req[r] EXCEPT !.pc = "quota", !.ids = ids0]
  <2>1. CASE req' = [req EXCEPT ![r].pc = "quota", ![r].ids = ids0]
    <3>1. req[r].token \in Token
      BY <1>8 DEF ConsumeToken, AtReq, RequestsOK, Sourced
    <3>2. ids0 \in Seq(Issue) /\ Len(ids0) <= MaxScope
      BY <3>1 DEF PreviewsOK, PreviewState
    <3>3. req' = [req EXCEPT ![r] = q0]
      BY <1>0, <2>1
    <3> HIDE DEF ids0
    <3>4. q0 \in ReqState /\ q0.pc = "quota" /\ q0.ids = ids0
      BY <1>0, <3>2 DEF ReqState, ReqPc
    <3> HIDE DEF q0
    <3> QED
      BY <3>2, <3>3, <3>4, RequestUpdates DEF Sourced
  <2>2. \/ req' = [req EXCEPT ![r].pc = "quota", ![r].ids = ids0]
        \/ \E answer \in {400, 404, 409} : Reply(r, answer, 0)
    BY <1>8 DEF ConsumeToken
  <2> QED
    BY <1>2, <2>1, <2>2, Bounds
<1>9. CASE InsertOp(r)
  <2>1. CASE \E n \in Op : req' = [req EXCEPT ![r].pc = "push", ![r].op = n,
                                             ![r].ids = << >>]
    <3>1. PICK n \in Op : req' = [req EXCEPT ![r].pc = "push", ![r].op = n,
                                             ![r].ids = << >>]
      BY <2>1
    <3> DEFINE q0 == [req[r] EXCEPT !.pc = "push", !.op = n, !.ids = << >>]
    <3>2. req' = [req EXCEPT ![r] = q0]
      BY <1>0, <3>1
    <3>3. << >> \in Seq(Issue) /\ Len(<< >>) = 0
      OBVIOUS
    <3>4. q0 \in ReqState
      BY <1>0, <3>3 DEF ReqState, ReqPc
    <3>5. q0.pc = "push" /\ q0.ids = << >>
      BY <1>0 DEF ReqState
    <3>6. Len(q0.ids) <= MaxScope
      BY <3>3, <3>5, Bounds
    <3> HIDE DEF q0
    <3> QED
      BY <3>2, <3>4, <3>5, <3>6, RequestUpdates DEF Sourced
  <2>2. \/ GotoReq(r, "refetch")
        \/ \E n \in Op : req' = [req EXCEPT ![r].pc = "push", ![r].op = n,
                                             ![r].ids = << >>]
    BY <1>9 DEF InsertOp
  <2> QED
    BY <1>3, <2>1, <2>2
<1>10. CASE ReadRows(r)
  BY <1>10, ReadRowsTypes
<1>11. CASE Refetch(r) \/ LookupRetry(r)
  <2>1. \/ \E p \in Op : Reply(r, 200, p)
        \/ Reply(r, 500, 0) \/ GotoReq(r, "quota")
    BY <1>11 DEF Refetch, LookupRetry, WithKey
  <2> QED
    BY <1>0, <1>2, <1>3, <2>1, Bounds
<1>12. CASE CheckQuota(r)
  <2>1. Reply(r, 429, 0) \/ Reply(r, 503, 0) \/ GotoReq(r, "insert")
    BY <1>12 DEF CheckQuota
  <2> QED
    BY <1>2, <1>3, <2>1, Bounds
<1>13. CASE PushQueue(r) \/ Rollback(r) \/ SetCancel(r)
  <2>1. \/ \E answer \in {200, 201, 500, 503} : Reply(r, answer, req[r].op)
        \/ GotoReq(r, "rollback")
    BY <1>13 DEF PushQueue, Rollback, SetCancel
  <2>2. req[r].op \in 0..MaxOps
    BY <1>0 DEF ReqState
  <2> QED
    BY <1>2, <1>3, <2>1, <2>2
<1> QED
  BY <1>4, <1>5, <1>6, <1>7, <1>8, <1>9, <1>10, <1>11, <1>12, <1>13
     DEF Begins, Proceeds

\* What the ticks keep to themselves.
TicksOK ==
    /\ tick \in [Tick -> TickState]
    /\ \A s \in Tick : Working(tick[s])

LEMMA TickUpdates ==
    ASSUME TicksOK, NEW s \in Tick,
           \/ Leave(s) \/ Goto(s, "select") \/ UNCHANGED tick
           \/ tick' = [tick EXCEPT ![s] = IdleTick]
           \/ /\ tick[s].pc \notin {"idle", "select", "release"}
              /\ \E pc \in Pc : Goto(s, pc)
           \/ \E t \in TickState : Working(t) /\ tick' = [tick EXCEPT ![s] = t]
    PROVE  TicksOK'
<1>0. tick \in [Tick -> TickState] /\ tick[s] \in TickState /\ Working(tick[s])
  BY DEF TicksOK
<1>1. CASE \E t \in TickState : Working(t) /\ tick' = [tick EXCEPT ![s] = t]
  BY <1>1 DEF TicksOK
<1>2. IdleTick \in TickState /\ IdleTick.pc = "idle"
  BY Bounds DEF IdleTick, TickState, Pc, Status
<1>3. CASE tick' = [tick EXCEPT ![s] = IdleTick]
  BY <1>1, <1>2, <1>3 DEF Working
<1>4. CASE Leave(s)
  <2> DEFINE t == [IdleTick EXCEPT !.pc = "release"]
  <2>1. t \in TickState /\ t.pc = "release"
    BY <1>2 DEF TickState, Pc
  <2>2. tick' = [tick EXCEPT ![s] = t]
    BY <1>4 DEF Leave
  <2> HIDE DEF t
  <2> QED
    BY <1>1, <2>1, <2>2 DEF Working
<1>5. CASE /\ tick[s].pc \notin {"idle", "select", "release"}
           /\ \E pc \in Pc : Goto(s, pc)
  <2>1. PICK pc \in Pc : Goto(s, pc)
    BY <1>5
  <2> DEFINE t == [tick[s] EXCEPT !.pc = pc]
  <2>2. tick' = [tick EXCEPT ![s] = t]
    BY <1>0, <2>1 DEF Goto
  <2>3. t \in TickState /\ t.op = tick[s].op /\ t.verdict = tick[s].verdict
    BY <1>0 DEF TickState
  <2> HIDE DEF t
  <2> QED
    BY <1>0, <1>1, <1>5, <2>2, <2>3 DEF Working
<1>6. CASE Goto(s, "select")
  <2> DEFINE t == [tick[s] EXCEPT !.pc = "select"]
  <2>1. tick' = [tick EXCEPT ![s] = t]
    BY <1>0, <1>6 DEF Goto
  <2>2. t \in TickState /\ t.pc = "select"
    BY <1>0 DEF TickState, Pc
  <2> HIDE DEF t
  <2> QED
    BY <1>1, <2>1, <2>2 DEF Working
<1>7. CASE UNCHANGED tick
  BY <1>7 DEF TicksOK
<1> QED
  BY <1>1, <1>3, <1>4, <1>5, <1>6, <1>7

LEMMA TickTypes ==
    ASSUME TicksOK, StoreTypeOK, NEW s \in Tick,
           NEW outcome \in {"SUCCEEDED", "FAILED", "SKIPPED"}, NEW effect \in BOOLEAN,
           \/ AcquireLock(s) \/ SelectOp(s) \/ StartOp(s) \/ PopBatch(s)
           \/ ExecuteItem(s, outcome, effect) \/ CommitBatch(s) \/ Reread(s)
           \/ Finalize(s) \/ DrainPop(s) \/ DrainRecord(s) \/ CancelOp(s)
           \/ ReleaseLock(s) \/ TickThrows(s) \/ KillTick(s)
    PROVE  TicksOK'
<1>0. /\ tick \in [Tick -> TickState] /\ tick[s] \in TickState /\ Working(tick[s])
      /\ Op \subseteq 0..MaxOps
  BY Bounds DEF TicksOK, Op
<1>1. CASE AcquireLock(s) \/ ReleaseLock(s) \/ TickThrows(s) \/ KillTick(s)
  <2>1. \/ Leave(s) \/ Goto(s, "select") \/ UNCHANGED tick
        \/ tick' = [tick EXCEPT ![s] = IdleTick]
    BY <1>1 DEF AcquireLock, ReleaseLock, TickThrows, KillTick
  <2> QED
    BY <2>1, TickUpdates
<1>2. CASE Finalize(s) \/ CancelOp(s)
  <2>1. Leave(s)
    BY <1>2 DEF Finalize, CancelOp
  <2> QED
    BY <2>1, TickUpdates
<1>3. CASE SelectOp(s)
  <2>1. CASE Leave(s)
    BY <2>1, TickUpdates
  <2>2. CASE \E o \in Op : tick' = [tick EXCEPT ![s] =
                 [IdleTick EXCEPT !.op = o, !.verdict = FinalStatus(op[o]),
                                  !.pc = FirstStep(op[o])]]
    <3>1. PICK o \in Op : tick' = [tick EXCEPT ![s] =
                 [IdleTick EXCEPT !.op = o, !.verdict = FinalStatus(op[o]),
                                  !.pc = FirstStep(op[o])]]
      BY <2>2
    <3> DEFINE t == [IdleTick EXCEPT !.op = o, !.verdict = FinalStatus(op[o]),
                                     !.pc = FirstStep(op[o])]
    <3>2. FinalStatus(op[o]) \in TerminalStatus /\ FirstStep(op[o]) \in Pc
      BY DEF FinalStatus, TerminalStatus, FirstStep, Pc
    <3>3. IdleTick \in TickState
      BY Bounds DEF IdleTick, TickState, Pc, Status
    <3>4. t \in TickState /\ t.op = o /\ t.verdict \in TerminalStatus
      BY <1>0, <3>2, <3>3 DEF TickState, Status
    <3> HIDE DEF t
    <3> QED
      BY <3>1, <3>4, TickUpdates DEF t, Working
  <2> QED
    BY <1>3, <2>1, <2>2 DEF SelectOp
<1>4. CASE StartOp(s) \/ PopBatch(s) \/ Reread(s) \/ DrainPop(s)
  <2>1. tick[s].pc \notin {"idle", "select", "release"}
    BY <1>4 DEF StartOp, PopBatch, Reread, DrainPop, At
  <2>2. CASE Leave(s) \/ \E pc \in {"pop", "finalize", "drain", "cancel"} : Goto(s, pc)
    BY <2>1, <2>2, TickUpdates DEF Pc
  <2>3. CASE \E pc \in {"execute", "record"}, batch \in SUBSET queue[tick[s].op] :
               tick' = [tick EXCEPT ![s].pc = pc, ![s].todo = batch]
    <3>1. PICK pc \in {"execute", "record"}, batch \in SUBSET queue[tick[s].op] :
               tick' = [tick EXCEPT ![s].pc = pc, ![s].todo = batch]
      BY <2>3
    <3> DEFINE t == [tick[s] EXCEPT !.pc = pc, !.todo = batch]
    <3>2. tick' = [tick EXCEPT ![s] = t]
      BY <1>0, <3>1
    <3>3. batch \in SUBSET Entry /\ pc \in Pc
      BY <1>0, <2>1 DEF StoreTypeOK, Working, Pc
    <3>4. t \in TickState /\ t.op = tick[s].op /\ t.verdict = tick[s].verdict
      BY <1>0, <3>3 DEF TickState
    <3> HIDE DEF t
    <3> QED
      BY <1>0, <2>1, <3>2, <3>4, TickUpdates DEF Working
  <2>4. CASE tick' = [tick EXCEPT ![s] = FinalizeFresh(@, op[tick[s].op])]
    <3> DEFINE t == FinalizeFresh(tick[s], op[tick[s].op])
    <3>1. FinalStatus(op[tick[s].op]) \in TerminalStatus
      BY DEF FinalStatus, TerminalStatus
    <3>2. t \in TickState /\ t.op = tick[s].op /\ t.verdict \in TerminalStatus
      BY <1>0, <3>1 DEF FinalizeFresh, TickState, Status, Pc
    <3>3. tick' = [tick EXCEPT ![s] = t]
      BY <1>0, <2>4
    <3> HIDE DEF t
    <3> QED
      BY <1>0, <2>1, <3>2, <3>3, TickUpdates DEF Working
  <2>5. CASE StartOp(s) \/ Reread(s)
    BY <2>2, <2>4, <2>5 DEF StartOp, Reread
  <2>6. CASE PopBatch(s) \/ DrainPop(s)
    <3>1. Front(queue[tick[s].op], BatchSize) \in SUBSET queue[tick[s].op]
      BY DEF Front
    <3>2. \/ Leave(s) \/ Goto(s, "finalize") \/ Goto(s, "cancel")
          \/ \E pc \in {"execute", "record"} :
               tick' = [tick EXCEPT ![s].pc = pc,
                          ![s].todo = Front(queue[tick[s].op], BatchSize)]
      BY <2>6 DEF PopBatch, DrainPop
    <3> QED
      BY <2>2, <2>3, <3>1, <3>2
  <2> QED
    BY <1>4, <2>5, <2>6
<1>5. CASE ExecuteItem(s, outcome, effect)
  <2>1. PICK k \in tick[s].todo :
             tick' = [tick EXCEPT
               ![s].todo = @ \ {k},
               ![s].done = @ \cup {[entry |-> k, outcome |-> outcome]}]
    BY <1>5 DEF ExecuteItem
  <2> DEFINE t == [tick[s] EXCEPT !.todo = @ \ {k},
                     !.done = @ \cup {[entry |-> k, outcome |-> outcome]}]
  <2>2. tick' = [tick EXCEPT ![s] = t]
    BY <1>0, <2>1
  <2>3. t \in TickState /\ t.op = tick[s].op /\ t.verdict = tick[s].verdict
    <3> DEFINE Results == [entry : Entry, outcome : {"SUCCEEDED", "FAILED", "SKIPPED"}]
               done    == tick[s].done \cup {[entry |-> k, outcome |-> outcome]}
               todo    == tick[s].todo \ {k}
    <3>1. tick[s].todo \in SUBSET Entry /\ tick[s].done \in SUBSET Results
      BY <1>0 DEF TickState
    <3>2. [entry |-> k, outcome |-> outcome] \in Results
      BY <2>1, <3>1
    <3>3. todo \in SUBSET Entry /\ done \in SUBSET Results
      BY <3>1, <3>2
    <3>4. t = [tick[s] EXCEPT !.todo = todo, !.done = done]
      OBVIOUS
    <3> HIDE DEF todo, done, t
    <3> QED
      BY <1>0, <3>3, <3>4 DEF TickState
  <2>4. tick[s].pc = "execute"
    BY <1>5 DEF ExecuteItem, At
  <2> HIDE DEF t
  <2> QED
    BY <1>0, <2>2, <2>3, <2>4, TickUpdates DEF Working
<1>6. CASE CommitBatch(s)
  <2>1. CASE tick' = [tick EXCEPT ![s].pc = "reread", ![s].done = {}]
    <3> DEFINE t == [tick[s] EXCEPT !.pc = "reread", !.done = {}]
    <3>1. tick' = [tick EXCEPT ![s] = t]
      BY <1>0, <2>1
    <3>2. t \in TickState /\ t.op = tick[s].op /\ t.verdict = tick[s].verdict
      BY <1>0 DEF TickState, Pc
    <3>3. tick[s].pc = "execute"
      BY <1>6 DEF CommitBatch, At
    <3> HIDE DEF t
    <3> QED
      BY <1>0, <3>1, <3>2, <3>3, TickUpdates DEF Working
  <2>2. CASE Leave(s)
    BY <2>2, TickUpdates
  <2> QED
    BY <1>6, <2>1, <2>2 DEF CommitBatch
<1>7. CASE DrainRecord(s)
  <2>1. CASE tick' = [tick EXCEPT ![s].pc = "drain", ![s].todo = {},
                                  ![s].drained = @ + Cardinality(tick[s].todo)]
    <3> DEFINE n == tick[s].drained + Cardinality(tick[s].todo)
               t == [tick[s] EXCEPT !.pc = "drain", !.todo = {}, !.drained = n]
    <3>1. tick' = [tick EXCEPT ![s] = t]
      BY <1>0, <2>1
    <3>2. n \in Nat
      <4>1. tick[s].todo \in SUBSET Entry /\ tick[s].drained \in Nat
        BY <1>0 DEF TickState
      <4> QED
        BY <4>1, EntriesFinite
    <3> HIDE DEF n
    <3>3. t \in TickState /\ t.op = tick[s].op /\ t.verdict = tick[s].verdict
      BY <1>0, <3>2 DEF TickState, Pc
    <3>4. tick[s].pc = "record"
      BY <1>7 DEF DrainRecord, At
    <3> HIDE DEF t
    <3> QED
      BY <1>0, <3>1, <3>3, <3>4, TickUpdates DEF Working
  <2>2. CASE Leave(s)
    BY <2>2, TickUpdates
  <2> QED
    BY <1>7, <2>1, <2>2 DEF DrainRecord
<1> QED
  BY <1>1, <1>2, <1>3, <1>4, <1>5, <1>6, <1>7

\* The results of a batch become rows and counts.
LEMMA BatchTypes ==
    ASSUME TypeOK, TickCustody, NEW s \in Tick
    PROVE  /\ RowsToInsert(tick[s].done) \subseteq Row
           /\ \A row \in OpRow : CountBatch(row, tick[s].done) \in OpRow
<1> DEFINE done == tick[s].done
<1>1. tick[s] \in TickState
  BY DEF TypeOK, ProcTypeOK
<1>2. RowsToInsert(done) \subseteq Row
  BY <1>1 DEF TickState, RowsToInsert, Row, Outcome
<1>3. ASSUME NEW S \in SUBSET done PROVE Cardinality(S) \in Nat
  <2>1. \A x \in done : x.entry \in Entry /\ \A y \in done : x.entry = y.entry => x = y
    BY <1>1 DEF TickState, TickCustody, CustodyOf
  <2> HIDE DEF done
  <2> QED
    BY <2>1, UniqueFinite
<1>4. Cardinality(done) \in Nat /\ \A outcome : Counted(done, outcome) \in Nat
  BY <1>3 DEF Counted
<1> HIDE DEF done
<1>5. ASSUME NEW row \in OpRow PROVE CountBatch(row, done) \in OpRow
  <2> DEFINE p == row.processed + Cardinality(done)
             a == row.succeeded + Counted(done, "SUCCEEDED")
             b == row.failed + Counted(done, "FAILED")
             c == row.skipped + Counted(done, "SKIPPED")
  <2>1. p \in Nat /\ a \in Nat /\ b \in Nat /\ c \in Nat
    BY <1>4 DEF OpRow
  <2>2. CountBatch(row, done) =
          [row EXCEPT !.processed = p, !.succeeded = a, !.failed = b, !.skipped = c]
    BY DEF CountBatch
  <2> HIDE DEF p, a, b, c
  <2> QED
    BY <2>1, <2>2 DEF OpRow
<1> QED
  BY <1>2, <1>5 DEF done

LEMMA TickStoreTypes ==
    ASSUME TypeOK, AtWork, TickCustody, NEW s \in Tick,
           NEW outcome \in {"SUCCEEDED", "FAILED", "SKIPPED"}, NEW effect \in BOOLEAN,
           \/ AcquireLock(s) \/ SelectOp(s) \/ StartOp(s) \/ PopBatch(s)
           \/ ExecuteItem(s, outcome, effect) \/ CommitBatch(s) \/ Reread(s)
           \/ Finalize(s) \/ DrainPop(s) \/ DrainRecord(s) \/ CancelOp(s)
           \/ ReleaseLock(s) \/ TickThrows(s) \/ KillTick(s)
    PROVE  StoreTypeOK'
<1>0. /\ StoreTypeOK /\ tick[s] \in TickState /\ Working(tick[s])
      /\ op \in [Op -> OpRow] /\ items \in [Op -> SUBSET Row]
  BY DEF TypeOK, StoreTypeOK, ProcTypeOK, AtWork
<1>1. CASE AcquireLock(s) \/ SelectOp(s) \/ Reread(s) \/ ReleaseLock(s)
           \/ TickThrows(s) \/ KillTick(s)
  <2>1. UNCHANGED <<op, scope, queue, items, applied, late>> /\ (Fault \/ UNCHANGED faults)
    BY <1>1 DEF storeVars, AcquireLock, SelectOp, Reread, ReleaseLock, TickThrows,
       KillTick
  <2>2. faults' \in 0..MaxFaults
    BY <1>0, <2>1, FaultType DEF StoreTypeOK
  <2> QED
    BY <1>0, <2>1, <2>2 DEF StoreTypeOK
<1>2. CASE StartOp(s) \/ Finalize(s)
  <2>1. UNCHANGED <<scope, queue, items, applied, late, faults>>
    BY <1>2 DEF StartOp, Finalize
  <2>2. "RUNNING" \in Status /\ tick[s].verdict \in Status
    BY <1>0 DEF TickState, Status, ActiveStatus
  <2>3. \/ UNCHANGED op
        \/ \E status \in Status : op' = [op EXCEPT ![tick[s].op].status = status]
    BY <1>2, <2>2 DEF StartOp, Finalize
  <2>4. op' \in [Op -> OpRow]
    BY <1>0, <2>3, StatusUpdates
  <2> QED
    BY <1>0, <2>1, <2>4 DEF StoreTypeOK
<1>3. CASE PopBatch(s) \/ DrainPop(s)
  <2>1. /\ UNCHANGED <<op, scope, items, applied, late>> /\ (Fault \/ UNCHANGED faults)
        /\ UNCHANGED queue \/ Pop(tick[s].op, Front(queue[tick[s].op], BatchSize))
    BY <1>3 DEF PopBatch, DrainPop
  <2>2. faults' \in 0..MaxFaults
    BY <1>0, <2>1, FaultType DEF StoreTypeOK
  <2>3. queue' \in [Op -> SUBSET Entry]
    <3> DEFINE p == tick[s].op
               left == queue[p] \ Front(queue[p], BatchSize)
    <3>1. queue \in [Op -> SUBSET Entry]
      BY <1>0 DEF StoreTypeOK
    <3>2. UNCHANGED queue \/ queue' = [queue EXCEPT ![p] = left]
      BY <2>1 DEF Pop
    <3>3. p \in Op => left \in SUBSET Entry
      BY <3>1
    <3> HIDE DEF left, p
    <3> QED
      BY <3>1, <3>2, <3>3
  <2> QED
    BY <1>0, <2>1, <2>2, <2>3 DEF StoreTypeOK
<1>4. CASE ExecuteItem(s, outcome, effect)
  <2> DEFINE p == tick[s].op
  <2>1. UNCHANGED <<op, scope, queue, items>> /\ (Fault \/ UNCHANGED faults)
    BY <1>4 DEF ExecuteItem
  <2>2. faults' \in 0..MaxFaults
    BY <1>0, <2>1, FaultType DEF StoreTypeOK
  <2>3. PICK k \in tick[s].todo :
          /\ applied' = IF effect THEN [applied EXCEPT ![p][k] = @ + 1] ELSE applied
          /\ late' = IF effect /\ op[p].cancelRequested
                     THEN [late EXCEPT ![p] = @ + 1] ELSE late
    BY <1>4 DEF ExecuteItem
  <2>4. k \in Entry /\ p \in Op
    BY <1>0, <1>4 DEF TickState, ExecuteItem, At, Working
  <2> HIDE DEF p
  <2>5. applied' \in [Op -> [Entry -> Nat]]
    BY <1>0, <2>3, <2>4 DEF StoreTypeOK
  <2>6. late' \in [Op -> Nat]
    BY <1>0, <2>3, <2>4 DEF StoreTypeOK
  <2> QED
    BY <1>0, <2>1, <2>2, <2>5, <2>6 DEF StoreTypeOK
<1>5. CASE CommitBatch(s)
  <2>1. UNCHANGED <<scope, queue, applied, late, faults>>
    BY <1>5 DEF CommitBatch
  <2>2. \/ UNCHANGED <<items, op>>
        \/ /\ items' = [items EXCEPT ![tick[s].op] = @ \cup RowsToInsert(tick[s].done)]
           /\ op' = [op EXCEPT ![tick[s].op] = CountBatch(@, tick[s].done)]
    BY <1>5 DEF CommitBatch
  <2>3. items' \in [Op -> SUBSET Row] /\ op' \in [Op -> OpRow]
    BY <1>0, <2>2, BatchTypes
  <2> QED
    BY <1>0, <2>1, <2>3 DEF StoreTypeOK
<1>6. CASE DrainRecord(s)
  <2> DEFINE rows == {[entry |-> k, outcome |-> "CANCELLED"] : k \in tick[s].todo}
  <2>1. /\ UNCHANGED <<op, scope, queue, applied, late, faults>>
        /\ UNCHANGED items \/ items' = [items EXCEPT ![tick[s].op] = @ \cup rows]
    BY <1>6 DEF DrainRecord
  <2>2. rows \subseteq Row
    BY <1>0 DEF TickState, Row, Outcome
  <2> HIDE DEF rows
  <2>3. items' \in [Op -> SUBSET Row]
    BY <1>0, <2>1, <2>2
  <2> QED
    BY <1>0, <2>1, <2>3 DEF StoreTypeOK
<1>7. CASE CancelOp(s)
  <2> DEFINE p == tick[s].op
             row == [op[p] EXCEPT !.status = "CANCELLED",
                                  !.skipped = @ + tick[s].drained,
                                  !.processed = @ + tick[s].drained]
  <2>1. UNCHANGED <<scope, queue, items, applied, late, faults>>
    BY <1>7 DEF CancelOp
  <2>2. p \in Op /\ op[p] \in OpRow /\ tick[s].drained \in Nat
    BY <1>0, <1>7 DEF TickState, CancelOp, At, Working
  <2>3. UNCHANGED op \/ op' = [op EXCEPT ![p] = row]
    BY <1>0, <1>7 DEF CancelOp
  <2>4. "CANCELLED" \in Status
    BY DEF Status, TerminalStatus
  <2>5. row \in OpRow
    <3> DEFINE a == op[p].skipped + tick[s].drained
               b == op[p].processed + tick[s].drained
    <3>1. a \in Nat /\ b \in Nat
      BY <2>2 DEF OpRow
    <3>2. row = [op[p] EXCEPT !.status = "CANCELLED", !.skipped = a, !.processed = b]
      OBVIOUS
    <3> HIDE DEF a, b, row
    <3> QED
      BY <2>2, <2>4, <3>1, <3>2 DEF OpRow
  <2> HIDE DEF row
  <2>6. op' \in [Op -> OpRow]
    BY <1>0, <2>3, <2>5
  <2> QED
    BY <1>0, <2>1, <2>6 DEF StoreTypeOK
<1> QED
  BY <1>1, <1>2, <1>3, <1>4, <1>5, <1>6, <1>7

LEMMA CronStoreTypes ==
    ASSUME StoreTypeOK,
           LockExpires \/ Recover \/ \E o \in Op : PurgeItems(o) \/ PurgeOp(o)
    PROVE  StoreTypeOK'
<1>0. op \in [Op -> OpRow] /\ items \in [Op -> SUBSET Row]
  BY DEF StoreTypeOK
<1>1. CASE LockExpires
  BY <1>1 DEF LockExpires, storeVars, StoreTypeOK
<1>2. CASE Recover
  <2>1. UNCHANGED <<scope, queue, items, applied, late, faults>>
    BY <1>2 DEF Recover
  <2>2. \A o \in Op : [op[o] EXCEPT !.status = "QUEUED"] \in OpRow
    BY <1>0, RowUpdates DEF Status, ActiveStatus
  <2>3. op' \in [Op -> OpRow]
    BY <1>0, <1>2, <2>2 DEF Recover
  <2> QED
    BY <2>1, <2>3 DEF StoreTypeOK
<1>3. ASSUME NEW o \in Op, PurgeItems(o) \/ PurgeOp(o)
      PROVE  StoreTypeOK'
  <2>1. /\ UNCHANGED <<scope, queue, applied, late, faults>>
        /\ items' = [items EXCEPT ![o] = {}]
        /\ UNCHANGED op \/ op' = [op EXCEPT ![o].status = "DELETED"]
    BY <1>3 DEF PurgeItems, PurgeOp
  <2>2. op' \in [Op -> OpRow]
    BY <1>0, <2>1, StatusUpdates DEF Status
  <2>3. items' \in [Op -> SUBSET Row]
    BY <1>0, <2>1
  <2> QED
    BY <2>1, <2>2, <2>3 DEF StoreTypeOK
<1> QED
  BY <1>1, <1>2, <1>3

-----------------------------------------------------------------------------
(* The invariant is inductive.                                              *)

\* Types and bounds, regrouped by who keeps what.
LEMMA Regroup ==
    ASSUME TypeOK, Lengths, AtWork
    PROVE  /\ StoreTypeOK /\ RequestsOK /\ PreviewsOK /\ TicksOK
           /\ lock \in Tick \cup {None} /\ \A o \in Op : Len(scope[o]) <= MaxScope
BY DEF TypeOK, IntakeTypeOK, ProcTypeOK, Lengths, AtWork, RequestsOK, PreviewsOK, TicksOK

LEMMA RequestStep ==
    ASSUME IInv, UNCHANGED procVars, NEW r \in Req, Begins(r) \/ Proceeds(r)
    PROVE  IInv'
<1>0. /\ TypeOK /\ Lengths /\ AtWork /\ Ledger /\ StoreTypeOK /\ IntakeTypeOK
      /\ RequestsOK /\ PreviewsOK
  BY Regroup DEF IInv, TypeOK
<1>1. StoreTypeOK'
  BY <1>0, RequestStoreTypes
<1>2. RequestsOK'
  BY <1>0, RequestTypes
<1>3. PreviewsOK'
  <2>1. DeleteToken(req[r].token) \/ UNCHANGED preview
    BY DEF Begins, Proceeds, BeginCreate, BeginRetry, BeginCancel, ConsumeToken,
       CheckQuota, InsertOp, Refetch, PushQueue, Rollback, ReadRows, LookupRetry,
       SetCancel, KillRequest
  <2> QED
    BY <1>0, <2>1, PreviewTypes
<1>4. TicksOK' /\ lock' \in Tick \cup {None}
  BY <1>0, Regroup DEF TicksOK, procVars
<1>5. \A o \in Op : Len(scope'[o]) <= MaxScope
  <2>1. CASE InsertOp(r)
    <3>1. \/ UNCHANGED scope
          \/ \E n \in Op : scope' = [scope EXCEPT ![n] = req[r].ids]
      BY <2>1 DEF InsertOp
    <3>2. Len(req[r].ids) <= MaxScope /\ scope \in [Op -> Seq(Issue)]
      BY <1>0 DEF RequestsOK, StoreTypeOK
    <3> QED
      BY <1>0, <3>1, <3>2 DEF Lengths
  <2>2. CASE ~InsertOp(r)
    <3>1. UNCHANGED scope
      BY <2>2 DEF storeVars, Begins, Proceeds, BeginCreate, BeginRetry, BeginCancel,
         ConsumeToken, CheckQuota, Refetch, PushQueue, Rollback, ReadRows,
         LookupRetry, SetCancel, KillRequest
    <3> QED
      BY <1>0, <3>1 DEF Lengths
  <2> QED
    BY <2>1, <2>2
<1>6. Ledger'
  <2>1. CASE InsertOp(r)
    BY <1>0, <2>1, InsertLedger
  <2>2. CASE PushQueue(r)
    BY <1>0, <2>2, PushLedger
  <2>3. CASE ~InsertOp(r) /\ ~PushQueue(r)
    BY <1>0, <2>3, QuietRequests, QuietKeepsLedger
  <2> QED
    BY <2>1, <2>2, <2>3
<1>7. (TypeOK /\ Lengths /\ AtWork)'
  BY <1>1, <1>2, <1>3, <1>4, <1>5
     DEF TypeOK, IntakeTypeOK, ProcTypeOK, Lengths, AtWork, RequestsOK, PreviewsOK, TicksOK
<1> QED
  BY <1>6, <1>7 DEF IInv

LEMMA PreviewStep ==
    ASSUME IInv, UNCHANGED procVars,
           \/ \E u \in User, t \in Token, ids \in Scope : Preview(u, t, ids)
           \/ \E t \in Token : ExpirePreview(t)
    PROVE  IInv'
<1>0. /\ TypeOK /\ Lengths /\ AtWork /\ Ledger /\ StoreTypeOK /\ RequestsOK
      /\ PreviewsOK
  BY Regroup DEF IInv
<1>1. UNCHANGED <<op, scope, queue, items, applied, late, faults, req, lock, tick>>
  BY DEF Preview, ExpirePreview, storeVars, procVars
<1>2. PreviewsOK'
  BY <1>0, PreviewTypes DEF ExpirePreview, DeleteToken
<1>3. StoreTypeOK' /\ RequestsOK'
  BY <1>0, <1>1 DEF StoreTypeOK, RequestsOK
<1>4. TicksOK' /\ lock' \in Tick \cup {None} /\ \A o \in Op : Len(scope'[o]) <= MaxScope
  BY <1>0, <1>1, Regroup DEF TicksOK
<1>5. Ledger'
  <2>1. Quiet
    BY <1>1 DEF Quiet
  <2> QED
    BY <1>0, <2>1, QuietKeepsLedger
<1>6. (TypeOK /\ Lengths /\ AtWork)'
  BY <1>2, <1>3, <1>4
     DEF TypeOK, IntakeTypeOK, ProcTypeOK, Lengths, AtWork, RequestsOK, PreviewsOK, TicksOK
<1> QED
  BY <1>5, <1>6 DEF IInv

LEMMA TickStepKeeps ==
    ASSUME IInv, UNCHANGED intakeVars, NEW s \in Tick,
           NEW outcome \in {"SUCCEEDED", "FAILED", "SKIPPED"}, NEW effect \in BOOLEAN,
           \/ AcquireLock(s) \/ SelectOp(s) \/ StartOp(s) \/ PopBatch(s)
           \/ ExecuteItem(s, outcome, effect) \/ CommitBatch(s) \/ Reread(s)
           \/ Finalize(s) \/ DrainPop(s) \/ DrainRecord(s) \/ CancelOp(s)
           \/ ReleaseLock(s) \/ TickThrows(s) \/ KillTick(s)
    PROVE  IInv'
<1>0. /\ TypeOK /\ Lengths /\ AtWork /\ Ledger /\ StoreTypeOK /\ ProcTypeOK
      /\ RequestsOK /\ PreviewsOK /\ TicksOK /\ TickCustody
  BY Regroup DEF IInv, TypeOK, Ledger
<1>1. StoreTypeOK'
  BY <1>0, TickStoreTypes
<1>2. TicksOK'
  BY <1>0, TickTypes
<1>3. lock' \in Tick \cup {None}
  <2>1. lock' \in {lock, s, None}
    BY DEF AcquireLock, SelectOp, StartOp, PopBatch, ExecuteItem, CommitBatch, Reread,
       Finalize, DrainPop, DrainRecord, CancelOp, ReleaseLock, TickThrows, KillTick
  <2> QED
    BY <1>0, <2>1 DEF ProcTypeOK
<1>4. UNCHANGED scope
  BY DEF storeVars, AcquireLock, SelectOp, StartOp, PopBatch, ExecuteItem, CommitBatch,
     Reread, Finalize, DrainPop, DrainRecord, CancelOp, ReleaseLock, TickThrows, KillTick
<1>5. RequestsOK' /\ PreviewsOK' /\ \A o \in Op : Len(scope'[o]) <= MaxScope
  BY <1>0, <1>4 DEF RequestsOK, PreviewsOK, Lengths, intakeVars
<1>6. Ledger'
  <2>1. CASE \/ AcquireLock(s) \/ SelectOp(s) \/ StartOp(s) \/ Reread(s)
             \/ ReleaseLock(s) \/ TickThrows(s) \/ KillTick(s)
    BY <1>0, <2>1, QuietTicks, QuietKeepsLedger
  <2>2. CASE Finalize(s) \/ CancelOp(s)
    BY <1>0, <2>2, QuietEndings, QuietKeepsLedger
  <2>3. CASE PopBatch(s) \/ DrainPop(s)
    BY <1>0, <2>3, PopBatchLedger
  <2>4. CASE ExecuteItem(s, outcome, effect)
    BY <1>0, <2>4, ExecuteItemLedger
  <2>5. CASE CommitBatch(s)
    BY <1>0, <2>5, CommitLedger
  <2>6. CASE DrainRecord(s)
    BY <1>0, <2>6, DrainRecordLedger
  <2> QED
    BY <2>1, <2>2, <2>3, <2>4, <2>5, <2>6
<1>7. (TypeOK /\ Lengths /\ AtWork)'
  BY <1>1, <1>2, <1>3, <1>5
     DEF TypeOK, IntakeTypeOK, ProcTypeOK, Lengths, AtWork, RequestsOK, PreviewsOK, TicksOK
<1> QED
  BY <1>6, <1>7 DEF IInv

LEMMA CronStep ==
    ASSUME IInv, UNCHANGED intakeVars,
           LockExpires \/ Recover \/ \E o \in Op : PurgeItems(o) \/ PurgeOp(o)
    PROVE  IInv'
<1>0. /\ TypeOK /\ Lengths /\ AtWork /\ Ledger /\ StoreTypeOK /\ RequestsOK
      /\ PreviewsOK /\ TicksOK /\ lock \in Tick \cup {None}
  BY Regroup DEF IInv
<1>1. StoreTypeOK'
  BY <1>0, CronStoreTypes
<1>2. UNCHANGED <<scope, tick>> /\ lock' \in {lock, None}
  BY DEF LockExpires, Recover, PurgeItems, PurgeOp, storeVars, procVars
<1>3. /\ RequestsOK' /\ PreviewsOK' /\ TicksOK' /\ lock' \in Tick \cup {None}
      /\ \A o \in Op : Len(scope'[o]) <= MaxScope
  BY <1>0, <1>2 DEF RequestsOK, PreviewsOK, TicksOK, Lengths, intakeVars
<1>4. Ledger'
  BY <1>0, QuietCron, QuietKeepsLedger
<1>5. (TypeOK /\ Lengths /\ AtWork)'
  BY <1>1, <1>3
     DEF TypeOK, IntakeTypeOK, ProcTypeOK, Lengths, AtWork, RequestsOK, PreviewsOK, TicksOK
<1> QED
  BY <1>4, <1>5 DEF IInv

LEMMA Stutter == IInv /\ UNCHANGED vars => IInv'
<1> SUFFICES ASSUME IInv, UNCHANGED vars PROVE IInv'
  OBVIOUS
<1>1. UNCHANGED <<op, scope, queue, items, applied, late, faults, preview, req, lock, tick>>
  BY DEF vars, storeVars, intakeVars, procVars
<1>2. Ledger'
  <2>1. Quiet
    BY <1>1 DEF Quiet
  <2> QED
    BY <2>1, QuietKeepsLedger DEF IInv
<1>3. TypeOK'
  BY <1>1 DEF IInv, TypeOK, StoreTypeOK, IntakeTypeOK, ProcTypeOK
<1>4. Lengths' /\ AtWork'
  BY <1>1 DEF IInv, Lengths, AtWork
<1> QED
  BY <1>2, <1>3, <1>4 DEF IInv

LEMMA NextKeepsIInv == IInv /\ [Next]_vars => IInv'
<1> SUFFICES ASSUME IInv, [Next]_vars PROVE IInv'
  OBVIOUS
<1>1. CASE UNCHANGED vars
  BY <1>1, Stutter
<1>2. CASE \/ \E u \in User, t \in Token, ids \in Scope : ByRequest(Preview(u, t, ids))
           \/ \E t \in Token : ByRequest(ExpirePreview(t))
  BY <1>2, PreviewStep DEF ByRequest
<1>3. ASSUME NEW r \in Req,
             \/ \E u \in User, k \in Key, t \in Token : ByRequest(BeginCreate(r, u, k, t))
             \/ \E u \in User, k \in Key, o \in Op : ByRequest(BeginRetry(r, u, k, o))
             \/ \E u \in User, o \in Op : ByRequest(BeginCancel(r, u, o))
             \/ ByRequest(ConsumeToken(r)) \/ ByRequest(CheckQuota(r))
             \/ ByRequest(InsertOp(r)) \/ ByRequest(Refetch(r))
             \/ ByRequest(PushQueue(r)) \/ ByRequest(Rollback(r))
             \/ ByRequest(ReadRows(r)) \/ ByRequest(LookupRetry(r))
             \/ ByRequest(SetCancel(r)) \/ ByRequest(KillRequest(r))
      PROVE  IInv'
  <2>1. UNCHANGED procVars /\ (Begins(r) \/ Proceeds(r))
    BY <1>3 DEF ByRequest, Begins, Proceeds
  <2> QED
    BY <2>1, RequestStep
<1>4. ASSUME NEW s \in Tick, NEW outcome \in {"SUCCEEDED", "FAILED", "SKIPPED"},
             NEW effect \in BOOLEAN,
             \/ ByCron(AcquireLock(s)) \/ ByCron(SelectOp(s)) \/ ByCron(StartOp(s))
             \/ ByCron(PopBatch(s)) \/ ByCron(ExecuteItem(s, outcome, effect))
             \/ ByCron(CommitBatch(s)) \/ ByCron(Reread(s)) \/ ByCron(Finalize(s))
             \/ ByCron(DrainPop(s)) \/ ByCron(DrainRecord(s)) \/ ByCron(CancelOp(s))
             \/ ByCron(ReleaseLock(s)) \/ ByCron(TickThrows(s)) \/ ByCron(KillTick(s))
      PROVE  IInv'
  BY <1>4, TickStepKeeps DEF ByCron
<1>5. CASE \/ ByCron(LockExpires) \/ ByCron(Recover)
           \/ \E o \in Op : ByCron(PurgeItems(o)) \/ ByCron(PurgeOp(o))
  BY <1>5, CronStep DEF ByCron
<1> QED
  BY <1>1, <1>2, <1>3, <1>4, <1>5 DEF Next

-----------------------------------------------------------------------------
(* Theorems.                                                                *)

\* In every behaviour of the service and its cron jobs, each table, list and
\* local variable keeps its type, and the custody of entries is in order.
THEOREM LedgerInvariant == Spec => []IInv
BY InitIInv, NextKeepsIInv, PTL DEF Spec

\* The tables, lists and locals of the code never leave their types.
THEOREM TypeCorrect == Spec => []TypeOK
<1>1. IInv => TypeOK
  BY DEF IInv
<1> QED
  BY <1>1, LedgerInvariant, PTL

\* processOperationBatch executes no entry twice, for any number of instances
\* and whatever becomes of their locks, batches and processes.
THEOREM ExecutedAtMostOnce == Spec => []AtMostOnce
<1>1. IInv => AtMostOnce
  BY DEF IInv, Ledger
<1> QED
  BY <1>1, LedgerInvariant, PTL

\* The report never has two rows for an entry, nor a row for an entry that a
\* tick still holds.
THEOREM ReportedOnce == Spec => []OneRowPerEntry
<1>1. IInv => OneRowPerEntry
  <2> SUFFICES ASSUME IInv PROVE OneRowPerEntry
    OBVIOUS
  <2>1. Report /\ TickCustody
    BY DEF IInv, Ledger
  <2>2. ASSUME NEW s \in Tick, NEW row \in items[tick[s].op] PROVE row.entry \notin Held(s)
    BY <2>1 DEF TickCustody, CustodyOf, Held
  <2> QED
    BY <2>1, <2>2 DEF OneRowPerEntry, Report
<1> QED
  BY <1>1, LedgerInvariant, PTL
=============================================================================
