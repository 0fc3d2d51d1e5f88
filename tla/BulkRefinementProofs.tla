------------------------- MODULE BulkRefinementProofs ------------------------
(***************************************************************************)
(* BulkOperations implements BulkLedger, for every value of the constants. *)
(*                                                                         *)
(* The hands of all ticks together are one set of the ledger, so a step of *)
(* one tick is a step of the ledger only because no other tick holds the   *)
(* same entries (Exclusive of BulkOperationsProofs), and because a tick    *)
(* holds entries only while it executes or records them (HandsFree).       *)
(***************************************************************************)
EXTENDS BulkOperationsProofs

\* Between batches a tick holds nothing.
HandsFree ==
    \A s \in Tick :
      /\ tick[s].pc \notin {"execute", "record"} => tick[s].todo = {}
      /\ tick[s].pc # "execute" => tick[s].done = {}

-----------------------------------------------------------------------------
LEMMA InitHandsFree == Init => HandsFree
BY DEF Init, ProcInit, HandsFree, IdleTick

\* The steps of a tick, with what they make of its hands.
LEMMA TickHands ==
    ASSUME ProcTypeOK, HandsFree, NEW s \in Tick,
           NEW outcome \in {"SUCCEEDED", "FAILED", "SKIPPED"}, NEW effect \in BOOLEAN,
           \/ AcquireLock(s) \/ SelectOp(s) \/ StartOp(s) \/ PopBatch(s)
           \/ ExecuteItem(s, outcome, effect) \/ CommitBatch(s) \/ Reread(s)
           \/ Finalize(s) \/ DrainPop(s) \/ DrainRecord(s) \/ CancelOp(s)
           \/ ReleaseLock(s) \/ TickThrows(s) \/ KillTick(s)
    PROVE  HandsFree'
<1>0. /\ tick \in [Tick -> TickState]
      /\ {"pc", "op", "todo", "done", "verdict", "drained"} \subseteq DOMAIN tick[s]
  BY DEF ProcTypeOK, TickState
<1>1. \A t \in Tick \ {s} : tick'[t] = tick[t]
  BY <1>0 DEF AcquireLock, SelectOp, StartOp, PopBatch, ExecuteItem, CommitBatch,
     Reread, Finalize, DrainPop, DrainRecord, CancelOp, ReleaseLock, TickThrows,
     KillTick, Goto, Leave, FinalizeFresh
<1>2. /\ tick'[s].pc \notin {"execute", "record"} => tick'[s].todo = {}
      /\ tick'[s].pc # "execute" => tick'[s].done = {}
  <2> USE <1>0 DEF HandsFree, At, Goto, Leave, IdleTick
  <2>1. CASE AcquireLock(s)
    BY <2>1 DEF AcquireLock
  <2>2. CASE SelectOp(s)
    BY <2>2 DEF SelectOp
  <2>3. CASE StartOp(s)
    BY <2>3 DEF StartOp
  <2>4. CASE PopBatch(s)
    BY <2>4 DEF PopBatch
  <2>5. CASE ExecuteItem(s, outcome, effect)
    BY <2>5 DEF ExecuteItem
  <2>6. CASE CommitBatch(s)
    BY <2>6 DEF CommitBatch
  <2>7. CASE Reread(s)
    BY <2>7 DEF Reread, FinalizeFresh
  <2>8. CASE Finalize(s) \/ CancelOp(s)
    BY <2>8 DEF Finalize, CancelOp
  <2>9. CASE DrainPop(s)
    BY <2>9 DEF DrainPop
  <2>10. CASE DrainRecord(s)
    BY <2>10 DEF DrainRecord
  <2>11. CASE ReleaseLock(s) \/ TickThrows(s) \/ KillTick(s)
    BY <2>11 DEF ReleaseLock, TickThrows, KillTick
  <2> QED
    BY <2>1, <2>2, <2>3, <2>4, <2>5, <2>6, <2>7, <2>8, <2>9, <2>10, <2>11
<1> QED
  BY <1>1, <1>2 DEF HandsFree

\* Requests and the other cron jobs leave every hand alone.
LEMMA OthersKeepHands ==
    ASSUME HandsFree, UNCHANGED tick
    PROVE  HandsFree'
BY DEF HandsFree

LEMMA NextKeepsHands == IInv /\ HandsFree /\ [Next]_vars => HandsFree'
<1> SUFFICES ASSUME IInv, HandsFree, [Next]_vars PROVE HandsFree'
  OBVIOUS
<1>0. ProcTypeOK
  BY DEF IInv, TypeOK
<1>1. CASE UNCHANGED tick
  BY <1>1, OthersKeepHands
<1>2. ASSUME NEW s \in Tick, NEW outcome \in {"SUCCEEDED", "FAILED", "SKIPPED"},
             NEW effect \in BOOLEAN,
             \/ AcquireLock(s) \/ SelectOp(s) \/ StartOp(s) \/ PopBatch(s)
             \/ ExecuteItem(s, outcome, effect) \/ CommitBatch(s) \/ Reread(s)
             \/ Finalize(s) \/ DrainPop(s) \/ DrainRecord(s) \/ CancelOp(s)
             \/ ReleaseLock(s) \/ TickThrows(s) \/ KillTick(s)
      PROVE  HandsFree'
  BY <1>0, <1>2, TickHands
<1>3. CASE UNCHANGED vars \/ UNCHANGED procVars
  BY <1>1, <1>3 DEF vars, procVars
<1>4. CASE LockExpires \/ Recover \/ \E o \in Op : PurgeItems(o) \/ PurgeOp(o)
  BY <1>1, <1>4 DEF LockExpires, Recover, PurgeItems, PurgeOp, procVars
<1> QED
  BY <1>1, <1>2, <1>3, <1>4 DEF Next, ByRequest, ByCron, procVars

-----------------------------------------------------------------------------
(* What a step is for the ledger.                                           *)

\* No operation starts to exist, or ceases to.
SameOps == \A p \in Op : op'[p].status = "ABSENT" <=> op[p].status = "ABSENT"

LEMMA SameOpsKeepOpen ==
    ASSUME SameOps, UNCHANGED req, NEW p \in Op
    PROVE  Unpushed(p)' = Unpushed(p)
BY DEF SameOps, Unpushed, AtReq

\* The hands of all ticks after a step of one, on the operation it works on.
\* A tick that changes to another operation has empty hands.
LEMMA OneTickMoves ==
    ASSUME Exclusive, NEW s \in Tick,
           \A t \in Tick \ {s} : tick'[t] = tick[t],
           \/ tick'[s].op = tick[s].op
           \/ tick'[s].todo = {} /\ tick'[s].done = {},
           NEW p \in Op
    PROVE  /\ TodoOf(p)' = IF p = tick[s].op
                           THEN (TodoOf(p) \ tick[s].todo) \cup tick'[s].todo
                           ELSE TodoOf(p)
           /\ DoneOf(p)' = IF p = tick[s].op
                           THEN (DoneOf(p) \ tick[s].done) \cup tick'[s].done
                           ELSE DoneOf(p)
<1>1. \A t \in Tick \ {s} : tick[t].op = tick[s].op =>
        /\ tick[t].todo \cap tick[s].todo = {}
        /\ tick[t].done \cap tick[s].done = {}
  BY DEF Exclusive, Apart
<1>2. ASSUME NEW k
      PROVE  /\ k \in TodoOf(p) <=> \E t \in Tick : tick[t].op = p /\ k \in tick[t].todo
             /\ k \in DoneOf(p) <=> \E t \in Tick : tick[t].op = p /\ k \in tick[t].done
             /\ k \in TodoOf(p)' <=> \E t \in Tick : tick'[t].op = p /\ k \in tick'[t].todo
             /\ k \in DoneOf(p)' <=> \E t \in Tick : tick'[t].op = p /\ k \in tick'[t].done
  BY DEF TodoOf, DoneOf
<1>3. ASSUME NEW k
      PROVE  k \in TodoOf(p)' <=>
             k \in IF p = tick[s].op
                   THEN (TodoOf(p) \ tick[s].todo) \cup tick'[s].todo
                   ELSE TodoOf(p)
  BY <1>1, <1>2
<1>4. ASSUME NEW k
      PROVE  k \in DoneOf(p)' <=>
             k \in IF p = tick[s].op
                   THEN (DoneOf(p) \ tick[s].done) \cup tick'[s].done
                   ELSE DoneOf(p)
  BY <1>1, <1>2
<1> QED
  BY <1>3, <1>4

LEMMA TicksStill ==
    ASSUME UNCHANGED tick, NEW p \in Op
    PROVE  TodoOf(p)' = TodoOf(p) /\ DoneOf(p)' = DoneOf(p)
BY DEF TodoOf, DoneOf

\* A tick whose hands stay empty, or full of the same entries, does nothing
\* for the ledger.
LEMMA SilentTick ==
    ASSUME Exclusive, NEW s \in Tick, SameOps, UNCHANGED <<queue, items, applied, req>>,
           \A t \in Tick \ {s} : tick'[t] = tick[t],
           tick'[s].todo = tick[s].todo, tick'[s].done = tick[s].done,
           \/ tick'[s].op = tick[s].op
           \/ tick'[s].todo = {} /\ tick'[s].done = {}
    PROVE  UNCHANGED Abstract!ledgerVars
<1>1. \A p \in Op : Unpushed(p)' = Unpushed(p)
  BY SameOpsKeepOpen
<1>2. tick[s].op \in Op =>
        /\ tick[s].todo \subseteq TodoOf(tick[s].op)
        /\ tick[s].done \subseteq DoneOf(tick[s].op)
  BY DEF TodoOf, DoneOf
<1>3. ASSUME NEW p \in Op
      PROVE  TodoOf(p)' = TodoOf(p) /\ DoneOf(p)' = DoneOf(p)
  <2>1. /\ TodoOf(p)' = IF p = tick[s].op
                        THEN (TodoOf(p) \ tick[s].todo) \cup tick[s].todo
                        ELSE TodoOf(p)
        /\ DoneOf(p)' = IF p = tick[s].op
                        THEN (DoneOf(p) \ tick[s].done) \cup tick[s].done
                        ELSE DoneOf(p)
    BY OneTickMoves
  <2> QED
    BY <1>2, <2>1
<1> QED
  BY <1>1, <1>3 DEF Abstract!ledgerVars

\* A tick that lets go of all it holds: a commit or a record that fails, an
\* exception, a kill.
LEMMA LettingGo ==
    ASSUME Exclusive, NEW s \in Tick, SameOps, UNCHANGED <<queue, items, applied, req>>,
           \A t \in Tick \ {s} : tick'[t] = tick[t],
           tick'[s].todo = {}, tick'[s].done = {},
           tick[s].op \in Op \/ (tick[s].todo = {} /\ tick[s].done = {})
    PROVE  [Abstract!Next]_(Abstract!ledgerVars)
<1>1. CASE tick[s].op \in Op
  <2> DEFINE o == tick[s].op
  <2>1. \A p \in Op : Unpushed(p)' = Unpushed(p)
    BY SameOpsKeepOpen
  <2>2. \A p \in Op :
          /\ TodoOf(p)' = IF p = o THEN TodoOf(p) \ tick[s].todo ELSE TodoOf(p)
          /\ DoneOf(p)' = IF p = o THEN DoneOf(p) \ tick[s].done ELSE DoneOf(p)
    BY OneTickMoves
  <2>3. tick[s].todo \subseteq TodoOf(o) /\ tick[s].done \subseteq DoneOf(o)
    BY <1>1 DEF TodoOf, DoneOf
  <2>4. Abstract!LoseTaken(o, tick[s].todo, tick[s].done)
    BY <1>1, <2>1, <2>2 DEF Abstract!LoseTaken
  <2> QED
    BY <1>1, <2>3, <2>4 DEF Abstract!Next
<1>2. CASE tick[s].todo = {} /\ tick[s].done = {}
  BY <1>2, SilentTick
<1> QED
  BY <1>1, <1>2

-----------------------------------------------------------------------------
(* The steps of a tick.                                                     *)

\* LPOP hands a batch to the tick, or loses it with the reply.
LEMMA PopIsTake ==
    ASSUME TypeOK, AtWork, Exclusive, HandsFree, UNCHANGED intakeVars, NEW s \in Tick,
           PopBatch(s) \/ DrainPop(s)
    PROVE  [Abstract!Next]_(Abstract!ledgerVars)
<1> DEFINE o == tick[s].op
<1>0. /\ tick \in [Tick -> TickState] /\ queue \in [Op -> SUBSET Entry]
      /\ {"pc", "op", "todo", "done", "verdict", "drained"} \subseteq DOMAIN tick[s]
  BY DEF TypeOK, ProcTypeOK, StoreTypeOK, TickState
<1>1. o \in Op /\ tick[s].todo = {} /\ tick[s].done = {}
  BY DEF PopBatch, DrainPop, At, AtWork, Working, HandsFree
<1>2. UNCHANGED <<op, items, applied, req>> /\ SameOps
  BY DEF PopBatch, DrainPop, intakeVars, SameOps
<1>3. \A p \in Op : Unpushed(p)' = Unpushed(p)
  BY <1>2, SameOpsKeepOpen
<1>4. \A t \in Tick \ {s} : tick'[t] = tick[t]
  BY <1>0 DEF PopBatch, DrainPop, Goto, Leave
<1>5. PICK batch \in SUBSET queue[o] :
        \/ /\ queue' = [queue EXCEPT ![o] = @ \ batch]
           /\ \/ /\ tick'[s].op = o /\ tick'[s].todo = batch /\ tick'[s].done = {}
              \/ tick'[s].todo = {} /\ tick'[s].done = {}
        \/ queue' = queue /\ tick'[s].todo = {} /\ tick'[s].done = {}
  <2>1. \E batch \in SUBSET queue[o] : batch = Front(queue[o], BatchSize)
    BY DEF Front
  <2>2. PICK batch \in SUBSET queue[o] : batch = Front(queue[o], BatchSize)
    BY <2>1
  <2> QED
    BY <1>0, <1>1, <2>2 DEF PopBatch, DrainPop, Pop, Goto, Leave, IdleTick
<1>6. CASE /\ queue' = [queue EXCEPT ![o] = @ \ batch]
           /\ tick'[s].op = o /\ tick'[s].todo = batch /\ tick'[s].done = {}
  <2>1. \A p \in Op : /\ TodoOf(p)' = IF p = o THEN TodoOf(p) \cup batch ELSE TodoOf(p)
                      /\ DoneOf(p)' = DoneOf(p)
    <3>1. ASSUME NEW p \in Op
          PROVE  /\ TodoOf(p)' = IF p = o THEN (TodoOf(p) \ {}) \cup batch ELSE TodoOf(p)
                 /\ DoneOf(p)' = IF p = o THEN (DoneOf(p) \ {}) \cup {} ELSE DoneOf(p)
      BY <1>1, <1>4, <1>6, OneTickMoves
    <3> QED
      BY <3>1
  <2>2. Abstract!Take(o, batch)
    BY <1>1, <1>2, <1>3, <1>6, <2>1 DEF Abstract!Take
  <2> QED
    BY <1>1, <2>2 DEF Abstract!Next
<1>7. CASE tick'[s].todo = {} /\ tick'[s].done = {}
  <2>1. \A p \in Op : TodoOf(p)' = TodoOf(p) /\ DoneOf(p)' = DoneOf(p)
    <3>1. ASSUME NEW p \in Op
          PROVE  /\ TodoOf(p)' = IF p = o THEN (TodoOf(p) \ {}) \cup {} ELSE TodoOf(p)
                 /\ DoneOf(p)' = IF p = o THEN (DoneOf(p) \ {}) \cup {} ELSE DoneOf(p)
      BY <1>1, <1>4, <1>7, OneTickMoves
    <3> QED
      BY <3>1
  <2>2. CASE queue' = [queue EXCEPT ![o] = @ \ batch]
    <3>1. Abstract!LoseWaiting(o, batch)
      BY <1>1, <1>2, <1>3, <2>1, <2>2 DEF Abstract!LoseWaiting
    <3> QED
      BY <1>1, <3>1 DEF Abstract!Next
  <2>3. CASE queue' = queue
    BY <1>2, <1>3, <2>1, <2>3 DEF Abstract!ledgerVars
  <2> QED
    BY <1>5, <2>2, <2>3, <1>1
<1> QED
  BY <1>5, <1>6, <1>7

\* An executor runs for one entry.
LEMMA ExecuteIsHandle ==
    ASSUME TypeOK, AtWork, Exclusive, UNCHANGED intakeVars, NEW s \in Tick,
           NEW outcome \in {"SUCCEEDED", "FAILED", "SKIPPED"}, NEW effect \in BOOLEAN,
           ExecuteItem(s, outcome, effect)
    PROVE  Abstract!Next
<1> DEFINE o == tick[s].op
<1>0. /\ tick \in [Tick -> TickState]
      /\ {"pc", "op", "todo", "done", "verdict", "drained"} \subseteq DOMAIN tick[s]
  BY DEF TypeOK, ProcTypeOK, TickState
<1>1. o \in Op
  BY DEF ExecuteItem, At, AtWork, Working
<1>2. UNCHANGED <<op, queue, items, req>> /\ SameOps
  BY DEF ExecuteItem, intakeVars, SameOps
<1>3. \A p \in Op : Unpushed(p)' = Unpushed(p)
  BY <1>2, SameOpsKeepOpen
<1>4. PICK k \in tick[s].todo :
        /\ tick' = [tick EXCEPT
              ![s].todo = @ \ {k},
              ![s].done = @ \cup {[entry |-> k, outcome |-> outcome]}]
        /\ applied' = IF effect THEN [applied EXCEPT ![o][k] = @ + 1] ELSE applied
  BY DEF ExecuteItem
<1>5. /\ \A t \in Tick \ {s} : tick'[t] = tick[t]
      /\ tick'[s].op = o /\ tick'[s].todo = tick[s].todo \ {k}
      /\ tick'[s].done = tick[s].done \cup {[entry |-> k, outcome |-> outcome]}
  BY <1>0, <1>4
<1>6. tick[s].todo \subseteq TodoOf(o) /\ tick[s].done \subseteq DoneOf(o)
  BY DEF TodoOf, DoneOf
<1>7. ASSUME NEW p \in Op
      PROVE  /\ TodoOf(p)' = IF p = o THEN TodoOf(p) \ {k} ELSE TodoOf(p)
             /\ DoneOf(p)' = IF p = o
                  THEN DoneOf(p) \cup {[entry |-> k, outcome |-> outcome]} ELSE DoneOf(p)
  <2>1. /\ TodoOf(p)' = IF p = o
                  THEN (TodoOf(p) \ tick[s].todo) \cup (tick[s].todo \ {k})
                  ELSE TodoOf(p)
        /\ DoneOf(p)' = IF p = o
                  THEN (DoneOf(p) \ tick[s].done)
                         \cup (tick[s].done \cup {[entry |-> k, outcome |-> outcome]})
                  ELSE DoneOf(p)
    BY <1>5, OneTickMoves
  <2> QED
    BY <1>6, <2>1
<1>8. (outcome = "SUCCEEDED" => effect) /\ (outcome = "SKIPPED" => ~effect)
  BY DEF ExecuteItem
<1>9. Abstract!Handle(o, k, outcome, effect)
  BY <1>1, <1>2, <1>3, <1>4, <1>6, <1>7, <1>8 DEF Abstract!Handle
<1> QED
  BY <1>1, <1>4, <1>6, <1>9 DEF Abstract!Next, Abstract!Handling

\* The transaction of a batch.
LEMMA CommitIsRecord ==
    ASSUME TypeOK, AtWork, Exclusive, HandsFree, UNCHANGED intakeVars, NEW s \in Tick,
           CommitBatch(s)
    PROVE  [Abstract!Next]_(Abstract!ledgerVars)
<1> DEFINE o == tick[s].op
<1>0. /\ tick \in [Tick -> TickState] /\ op \in [Op -> OpRow]
      /\ items \in [Op -> SUBSET Row]
      /\ {"pc", "op", "todo", "done", "verdict", "drained"} \subseteq DOMAIN tick[s]
  BY DEF TypeOK, ProcTypeOK, StoreTypeOK, TickState
<1>1. o \in Op /\ tick[s].todo = {}
  BY DEF CommitBatch, At, AtWork, Working
<1>2. UNCHANGED <<queue, applied, req>>
  BY DEF CommitBatch, intakeVars
<1>3. \A t \in Tick \ {s} : tick'[t] = tick[t]
  BY <1>0 DEF CommitBatch, Leave
<1>4. CASE Exists(o)
  <2>1. /\ items' = [items EXCEPT ![o] = @ \cup RowsToInsert(tick[s].done)]
        /\ op' = [op EXCEPT ![o] = CountBatch(@, tick[s].done)]
        /\ tick' = [tick EXCEPT ![s].pc = "reread", ![s].done = {}]
    BY <1>4 DEF CommitBatch
  <2>2. SameOps
    BY <1>0, <1>1, <2>1 DEF SameOps, CountBatch, OpRow
  <2>3. \A p \in Op : Unpushed(p)' = Unpushed(p)
    BY <1>2, <2>2, SameOpsKeepOpen
  <2>4. tick'[s].op = o /\ tick'[s].todo = {} /\ tick'[s].done = {}
    BY <1>0, <1>1, <2>1
  <2>5. ASSUME NEW p \in Op
        PROVE  /\ TodoOf(p)' = TodoOf(p)
               /\ DoneOf(p)' = IF p = o THEN DoneOf(p) \ tick[s].done ELSE DoneOf(p)
    <3>1. /\ TodoOf(p)' = IF p = o THEN (TodoOf(p) \ {}) \cup {} ELSE TodoOf(p)
          /\ DoneOf(p)' = IF p = o THEN (DoneOf(p) \ tick[s].done) \cup {}
                                   ELSE DoneOf(p)
      BY <1>1, <1>3, <2>4, OneTickMoves
    <3> QED
      BY <3>1
  <2>6. tick[s].done \subseteq DoneOf(o)
    BY DEF DoneOf
  <2>7. Abstract!Record(o, tick[s].done)
    BY <1>1, <1>2, <2>1, <2>3, <2>5 DEF Abstract!Record, RowsToInsert
  <2> QED
    BY <1>1, <2>6, <2>7 DEF Abstract!Next
<1>5. CASE ~Exists(o)
  <2>1. UNCHANGED <<items, op>> /\ Leave(s)
    BY <1>5 DEF CommitBatch
  <2>2. tick'[s].todo = {} /\ tick'[s].done = {}
    BY <1>0, <2>1 DEF Leave, IdleTick
  <2> QED
    BY <1>1, <1>2, <1>3, <2>1, <2>2, LettingGo DEF SameOps
<1> QED
  BY <1>4, <1>5

\* createMany of a drained chunk.
LEMMA DrainIsCancel ==
    ASSUME TypeOK, AtWork, Exclusive, HandsFree, UNCHANGED intakeVars, NEW s \in Tick,
           DrainRecord(s)
    PROVE  [Abstract!Next]_(Abstract!ledgerVars)
<1> DEFINE o == tick[s].op
<1>0. /\ tick \in [Tick -> TickState] /\ items \in [Op -> SUBSET Row]
      /\ {"pc", "op", "todo", "done", "verdict", "drained"} \subseteq DOMAIN tick[s]
  BY DEF TypeOK, ProcTypeOK, StoreTypeOK, TickState
<1>1. o \in Op /\ tick[s].done = {}
  BY DEF DrainRecord, At, AtWork, Working, HandsFree
<1>2. UNCHANGED <<op, queue, applied, req>> /\ SameOps
  BY DEF DrainRecord, intakeVars, SameOps
<1>3. \A t \in Tick \ {s} : tick'[t] = tick[t]
  BY <1>0 DEF DrainRecord, Leave
<1>4. CASE Exists(o)
  <2>1. /\ items' = [items EXCEPT ![o] =
               @ \cup {[entry |-> k, outcome |-> "CANCELLED"] : k \in tick[s].todo}]
        /\ tick'[s].op = o /\ tick'[s].todo = {} /\ tick'[s].done = {}
    BY <1>0, <1>1, <1>4 DEF DrainRecord
  <2>3. \A p \in Op : Unpushed(p)' = Unpushed(p)
    BY <1>2, SameOpsKeepOpen
  <2>5. ASSUME NEW p \in Op
        PROVE  /\ TodoOf(p)' = IF p = o THEN TodoOf(p) \ tick[s].todo ELSE TodoOf(p)
               /\ DoneOf(p)' = DoneOf(p)
    <3>1. /\ TodoOf(p)' = IF p = o THEN (TodoOf(p) \ tick[s].todo) \cup {}
                                   ELSE TodoOf(p)
          /\ DoneOf(p)' = IF p = o THEN (DoneOf(p) \ {}) \cup {} ELSE DoneOf(p)
      BY <1>1, <1>3, <2>1, OneTickMoves
    <3> QED
      BY <3>1
  <2>6. tick[s].todo \subseteq TodoOf(o)
    BY DEF TodoOf
  <2>7. Abstract!Cancel(o, tick[s].todo)
    BY <1>1, <1>2, <2>1, <2>3, <2>5 DEF Abstract!Cancel
  <2> QED
    BY <1>1, <2>6, <2>7 DEF Abstract!Next
<1>5. CASE ~Exists(o)
  <2>1. UNCHANGED items /\ Leave(s)
    BY <1>5 DEF DrainRecord
  <2>2. tick'[s].todo = {} /\ tick'[s].done = {}
    BY <1>0, <2>1 DEF Leave, IdleTick
  <2> QED
    BY <1>1, <1>2, <1>3, <2>1, <2>2, LettingGo
<1> QED
  BY <1>4, <1>5

\* The other steps of a tick keep its hands empty, or empty them.
LEMMA OtherTickSteps ==
    ASSUME TypeOK, AtWork, Exclusive, HandsFree, UNCHANGED intakeVars, NEW s \in Tick,
           \/ AcquireLock(s) \/ SelectOp(s) \/ StartOp(s) \/ Reread(s) \/ Finalize(s)
           \/ CancelOp(s) \/ ReleaseLock(s) \/ TickThrows(s) \/ KillTick(s)
    PROVE  [Abstract!Next]_(Abstract!ledgerVars)
<1>0. /\ tick \in [Tick -> TickState] /\ op \in [Op -> OpRow]
      /\ {"pc", "op", "todo", "done", "verdict", "drained"} \subseteq DOMAIN tick[s]
  BY DEF TypeOK, ProcTypeOK, StoreTypeOK, TickState
<1>1. UNCHANGED <<queue, items, applied, req>>
  BY DEF storeVars, intakeVars, AcquireLock, SelectOp, StartOp, Reread, Finalize,
         CancelOp, ReleaseLock, TickThrows, KillTick
<1>2. \A t \in Tick \ {s} : tick'[t] = tick[t]
  BY <1>0 DEF AcquireLock, SelectOp, StartOp, Reread, Finalize, CancelOp, ReleaseLock,
     TickThrows, KillTick, Goto, Leave, FinalizeFresh
<1>3. SameOps
  <2> USE <1>0 DEF SameOps, OpRow
  <2>1. CASE StartOp(s)
    BY <2>1 DEF StartOp, Exists, Active, Terminal, ActiveStatus, TerminalStatus
  <2>2. CASE Finalize(s)
    BY <2>2 DEF Finalize, Exists, Active, Terminal, ActiveStatus, TerminalStatus,
       At, AtWork, Working
  <2>3. CASE CancelOp(s)
    BY <2>3 DEF CancelOp, Exists, Active, Terminal, ActiveStatus, TerminalStatus
  <2>4. CASE ~StartOp(s) /\ ~Finalize(s) /\ ~CancelOp(s)
    BY <2>4 DEF storeVars, AcquireLock, SelectOp, Reread, ReleaseLock, TickThrows,
       KillTick
  <2> QED
    BY <2>1, <2>2, <2>3, <2>4
<1>4. CASE TickThrows(s) \/ KillTick(s)
  <2>1. tick'[s].todo = {} /\ tick'[s].done = {}
    BY <1>0, <1>4 DEF TickThrows, KillTick, Leave, IdleTick
  <2>2. tick[s].op \in Op \/ (tick[s].todo = {} /\ tick[s].done = {})
    BY <1>0 DEF HandsFree, AtWork, Working
  <2> QED
    BY <1>1, <1>2, <1>3, <2>1, <2>2, LettingGo
<1>5. CASE ~TickThrows(s) /\ ~KillTick(s)
  <2>1. tick[s].todo = {} /\ tick[s].done = {}
    BY <1>5 DEF HandsFree, At, AcquireLock, SelectOp, StartOp, Reread, Finalize,
       CancelOp, ReleaseLock
  <2>2. tick'[s].todo = {} /\ tick'[s].done = {}
    <3> USE <1>0, <2>1 DEF Goto, Leave, IdleTick
    <3>1. CASE AcquireLock(s) \/ SelectOp(s)
      BY <3>1 DEF AcquireLock, SelectOp
    <3>2. CASE StartOp(s) \/ Finalize(s) \/ CancelOp(s) \/ ReleaseLock(s)
      BY <3>2 DEF StartOp, Finalize, CancelOp, ReleaseLock
    <3>3. CASE Reread(s)
      BY <3>3 DEF Reread, FinalizeFresh
    <3> QED
      BY <1>5, <3>1, <3>2, <3>3
  <2> QED
    BY <1>1, <1>2, <1>3, <2>1, <2>2, SilentTick
<1> QED
  BY <1>4, <1>5

-----------------------------------------------------------------------------
(* The steps of requests.                                                   *)

\* A request that leaves "push", whatever its RPUSH did, fills the operation.
LEMMA LeavingPushFills ==
    ASSUME TypeOK, OnePusher, FreshEmpty, UNCHANGED <<op, items, applied, tick>>,
           NEW r \in Req, req[r].pc = "push", req'[r].pc # "push",
           \A q \in Req \ {r} : req'[q] = req[q],
           \/ UNCHANGED queue
           \/ \E S \in SUBSET Entry : queue' = [queue EXCEPT ![req[r].op] = S]
    PROVE  Abstract!Next
<1>. PICK o \in Op : o = req[r].op
  BY DEF OnePusher
<1>0. queue \in [Op -> SUBSET Entry]
  BY DEF TypeOK, StoreTypeOK
<1>1. op[o].status # "ABSENT"
  BY DEF OnePusher
<1>2. Unpushed(o) /\ ~Unpushed(o)'
  BY <1>1 DEF Unpushed, AtReq, OnePusher
<1>3. \A p \in Op \ {o} : Unpushed(p)' = Unpushed(p)
  BY DEF Unpushed, AtReq
<1>4. queue[o] = {}
  BY <1>1 DEF FreshEmpty, Fresh, EmptyOf
<1>5. PICK S \in SUBSET Entry : queue' = [queue EXCEPT ![o] = S]
  BY <1>0, <1>1, <1>4
<1>6. \A p \in Op : TodoOf(p)' = TodoOf(p) /\ DoneOf(p)' = DoneOf(p)
  BY TicksStill
<1>7. [p \in Op |-> Unpushed(p)'] = [[p \in Op |-> Unpushed(p)] EXCEPT ![o] = FALSE]
  <2>0. Unpushed(o)' = FALSE
    BY <1>2 DEF Unpushed
  <2>1. \A p \in Op : Unpushed(p)' = IF p = o THEN FALSE ELSE Unpushed(p)
    BY <2>0, <1>3, Zenon
  <2>2. [p \in Op |-> Unpushed(p)']
          = [p \in Op |-> IF p = o THEN FALSE ELSE Unpushed(p)]
    BY <2>1, Zenon
  <2>3. [[p \in Op |-> Unpushed(p)] EXCEPT ![o] = FALSE]
          = [p \in Op |-> IF p = o THEN FALSE ELSE Unpushed(p)]
    BY Zenon
  <2> QED
    BY <2>2, <2>3, Zenon
<1>8. [p \in Op |-> Unpushed(p)][o]
  BY <1>1, <1>2
<1>9. Abstract!Fill(o, S)
  BY <1>1, <1>5, <1>6, <1>7, <1>8 DEF Abstract!Fill
<1> QED
  BY <1>1, <1>9 DEF Abstract!Next

\* DELETE of an operation, or of its old rows.
LEMMA ClearingForgets ==
    ASSUME SameOps, UNCHANGED <<queue, applied, tick, req>>, NEW o \in Op,
           items' = [items EXCEPT ![o] = {}]
    PROVE  Abstract!Next
<1>1. \A p \in Op : /\ Unpushed(p)' = Unpushed(p)
                    /\ TodoOf(p)' = TodoOf(p) /\ DoneOf(p)' = DoneOf(p)
  BY SameOpsKeepOpen, TicksStill
<1>2. Abstract!Forget(o)
  BY <1>1 DEF Abstract!Forget
<1> QED
  BY <1>2 DEF Abstract!Next

LEMMA OneRequestMoves ==
    ASSUME SameOps, NEW r \in Req, \A q \in Req \ {r} : req'[q] = req[q],
           req[r].pc # "push", req'[r].pc # "push", NEW p \in Op
    PROVE  Unpushed(p)' = Unpushed(p)
BY DEF SameOps, Unpushed, AtReq

\* A step of one request, and where it leaves the program counter.
LEMMA RequestLocals ==
    ASSUME IntakeTypeOK, NEW r \in Req, Begins(r) \/ Proceeds(r)
    PROVE  /\ \A q \in Req \ {r} : req'[q] = req[q]
           /\ req'[r].pc = "push" => InsertOp(r)
           /\ req[r].pc = "push" => PushQueue(r) \/ KillRequest(r)
<1>0. req \in [Req -> ReqState] /\ {"pc", "op"} \subseteq DOMAIN req[r]
  BY DEF IntakeTypeOK, ReqState
<1> USE <1>0 DEF AtReq, Reply, GotoReq, IdleReq
<1>1. CASE Begins(r)
  <2>1. ASSUME NEW u \in User, NEW k \in Key, NEW t \in Token, BeginCreate(r, u, k, t)
        PROVE  /\ \A q \in Req \ {r} : req'[q] = req[q]
               /\ req[r].pc # "push" /\ req'[r].pc # "push"
    BY <2>1 DEF BeginCreate
  <2>2. ASSUME NEW u \in User, NEW k \in Key, NEW o \in Op, BeginRetry(r, u, k, o)
        PROVE  /\ \A q \in Req \ {r} : req'[q] = req[q]
               /\ req[r].pc # "push" /\ req'[r].pc # "push"
    BY <2>2 DEF BeginRetry
  <2>3. ASSUME NEW u \in User, NEW o \in Op, BeginCancel(r, u, o)
        PROVE  /\ \A q \in Req \ {r} : req'[q] = req[q]
               /\ req[r].pc # "push" /\ req'[r].pc # "push"
    BY <2>3 DEF BeginCancel
  <2> QED
    BY <1>1, <2>1, <2>2, <2>3 DEF Begins
<1>2. CASE ConsumeToken(r)
  BY <1>2 DEF ConsumeToken
<1>3. CASE CheckQuota(r) \/ Refetch(r) \/ LookupRetry(r)
  <2>1. req[r].pc # "push"
    BY <1>3 DEF CheckQuota, Refetch, LookupRetry
  <2>2. CASE \E answer, p : Reply(r, answer, p)
    <3>1. PICK answer, p : Reply(r, answer, p)
      BY <2>2
    <3> QED
      BY <2>1, <3>1
  <2>3. CASE \E pc \in {"insert", "quota"} : GotoReq(r, pc)
    BY <2>1, <2>3
  <2> HIDE DEF Reply, GotoReq
  <2>4. (\E answer, p : Reply(r, answer, p)) \/ \E pc \in {"insert", "quota"} : GotoReq(r, pc)
    BY <1>3 DEF CheckQuota, Refetch, LookupRetry
  <2> QED
    BY <2>2, <2>3, <2>4
<1>4. CASE InsertOp(r)
  BY <1>4 DEF InsertOp
<1>5. CASE PushQueue(r) \/ Rollback(r)
  BY <1>5 DEF PushQueue, Rollback
<1>6. CASE ReadRows(r)
  BY <1>6 DEF ReadRows
<1>7. CASE SetCancel(r) \/ KillRequest(r)
  BY <1>7 DEF SetCancel, KillRequest
<1> QED
  BY <1>1, <1>2, <1>3, <1>4, <1>5, <1>6, <1>7 DEF Proceeds

\* The INSERT: the operation was open for want of a row, and is open now for
\* want of its RPUSH.
LEMMA InsertKeepsOpen ==
    ASSUME TypeOK, NEW r \in Req, InsertOp(r), NEW p \in Op
    PROVE  Unpushed(p)' = Unpushed(p)
<1>0. op \in [Op -> OpRow] /\ req \in [Req -> ReqState]
      /\ {"pc", "op"} \subseteq DOMAIN req[r]
  BY DEF TypeOK, StoreTypeOK, IntakeTypeOK, ReqState
<1>1. \A q \in Req \ {r} : req'[q] = req[q]
  BY RequestLocals DEF TypeOK, Proceeds
<1>2. CASE KeyTaken(req[r].user, req[r].key)
  <2>1. UNCHANGED op /\ req[r].pc # "push" /\ req'[r].pc # "push"
    BY <1>0, <1>2 DEF InsertOp, AtReq, GotoReq
  <2> QED
    BY <1>1, <2>1, OneRequestMoves DEF SameOps
<1>3. CASE ~KeyTaken(req[r].user, req[r].key)
  <2>1. PICK n \in Op :
          /\ op[n].status = "ABSENT"
          /\ op' = [op EXCEPT ![n] =
               [AbsentOp EXCEPT !.status = "QUEUED", !.owner = req[r].user,
                  !.key = req[r].key, !.token = req[r].token,
                  !.retryOf = req[r].retryOf, !.total = Len(req[r].ids)]]
          /\ req' = [req EXCEPT ![r].pc = "push", ![r].op = n, ![r].ids = << >>]
    BY <1>3 DEF InsertOp, IsNextId
  <2>2. req[r].pc # "push"
    BY DEF InsertOp, AtReq
  <2>3. CASE p = n
    BY <1>0, <2>1, <2>3 DEF Unpushed, AtReq
  <2>4. CASE p # n
    BY <1>0, <1>1, <2>1, <2>2, <2>4 DEF Unpushed, AtReq
  <2> QED
    BY <2>3, <2>4
<1> QED
  BY <1>2, <1>3

LEMMA RequestRefines ==
    ASSUME IInv, UNCHANGED procVars, NEW r \in Req, Begins(r) \/ Proceeds(r)
    PROVE  [Abstract!Next]_(Abstract!ledgerVars)
<1>0. /\ TypeOK /\ OnePusher /\ FreshEmpty /\ op \in [Op -> OpRow]
      /\ items \in [Op -> SUBSET Row]
      /\ req \in [Req -> ReqState] /\ UNCHANGED tick
      /\ {"pc", "op"} \subseteq DOMAIN req[r]
  BY DEF IInv, Ledger, TypeOK, StoreTypeOK, IntakeTypeOK, ReqState, procVars
<1>1. /\ \A q \in Req \ {r} : req'[q] = req[q]
      /\ req'[r].pc = "push" => InsertOp(r)
      /\ req[r].pc = "push" => PushQueue(r) \/ KillRequest(r)
  BY <1>0, RequestLocals DEF TypeOK
<1>2. CASE PushQueue(r) \/ (KillRequest(r) /\ req[r].pc = "push")
  <2>1. UNCHANGED <<op, items, applied>> /\ req[r].pc = "push" /\ req'[r].pc # "push"
    BY <1>0, <1>2 DEF PushQueue, KillRequest, AtReq, Reply, GotoReq, IdleReq
  <2>2. \/ UNCHANGED queue
        \/ \E S \in SUBSET Entry : queue' = [queue EXCEPT ![req[r].op] = S]
    <3>1. 1..Len(scope[req[r].op]) \in SUBSET Entry
      <4>1. req[r].op \in Op
        BY <1>0, <2>1 DEF OnePusher
      <4>2. Len(scope[req[r].op]) \in Nat /\ Len(scope[req[r].op]) <= MaxScope
        BY <1>0, <4>1 DEF IInv, Lengths, TypeOK, StoreTypeOK
      <4> QED
        BY <4>2, Bounds DEF Entry
    <3> QED
      BY <1>2, <3>1 DEF PushQueue, KillRequest
  <2> QED
    BY <1>0, <1>1, <2>1, <2>2, LeavingPushFills
<1>3. \A p \in Op : TodoOf(p)' = TodoOf(p) /\ DoneOf(p)' = DoneOf(p)
  BY <1>0, TicksStill
<1>4. CASE InsertOp(r)
  <2>1. UNCHANGED <<queue, items, applied>>
    BY <1>4 DEF InsertOp
  <2> QED
    BY <1>0, <1>3, <1>4, <2>1, InsertKeepsOpen DEF Abstract!ledgerVars
<1>5. CASE Rollback(r)
  <2>1. PICK o : o = req[r].op
    OBVIOUS
  <2>2. UNCHANGED <<queue, applied>> /\ req[r].pc # "push" /\ req'[r].pc # "push"
    BY <1>0, <1>5 DEF Rollback, AtReq, Reply
  <2>3. \/ UNCHANGED <<op, items>>
        \/ /\ Exists(o) /\ op' = [op EXCEPT ![o].status = "DELETED"]
           /\ items' = [items EXCEPT ![o] = {}]
    BY <1>5, <2>1 DEF Rollback
  <2>4. SameOps
    BY <1>0, <2>3 DEF SameOps, OpRow, Exists, Active, Terminal, ActiveStatus,
       TerminalStatus
  <2>5. \A p \in Op : Unpushed(p)' = Unpushed(p)
    BY <1>1, <2>2, <2>4, OneRequestMoves
  <2>6. CASE UNCHANGED items
    BY <1>3, <2>2, <2>5, <2>6 DEF Abstract!ledgerVars
  <2>7. CASE items' # items
    <3>1. o \in Op /\ items' = [items EXCEPT ![o] = {}]
      BY <1>0, <2>3, <2>7
    <3>2. Abstract!Forget(o)
      BY <1>3, <2>2, <2>5, <3>1 DEF Abstract!Forget
    <3> QED
      BY <3>1, <3>2 DEF Abstract!Next
  <2> QED
    BY <2>6, <2>7
<1>6. CASE /\ ~InsertOp(r) /\ ~PushQueue(r) /\ ~Rollback(r)
           /\ ~(KillRequest(r) /\ req[r].pc = "push")
  <2>1. UNCHANGED <<queue, items, applied>>
    BY <1>6 DEF storeVars, Begins, Proceeds, BeginCreate, BeginRetry, BeginCancel,
       ConsumeToken, CheckQuota, Refetch, ReadRows, LookupRetry, SetCancel, KillRequest
  <2>2. SameOps
    <3>1. \/ UNCHANGED op
          \/ op' = [op EXCEPT ![req[r].op].cancelRequested = TRUE]
      BY <1>6 DEF storeVars, Begins, Proceeds, BeginCreate, BeginRetry, BeginCancel,
         ConsumeToken, CheckQuota, Refetch, ReadRows, LookupRetry, SetCancel, KillRequest
    <3> QED
      BY <1>0, <3>1 DEF SameOps, OpRow
  <2>3. \A p \in Op : Unpushed(p)' = Unpushed(p)
    BY <1>1, <1>6, <2>2, OneRequestMoves
  <2> QED
    BY <1>3, <2>1, <2>3 DEF Abstract!ledgerVars
<1> QED
  BY <1>2, <1>4, <1>5, <1>6

\* The cron jobs that are no tick.
LEMMA CronRefines ==
    ASSUME TypeOK, UNCHANGED intakeVars,
           LockExpires \/ Recover \/ \E o \in Op : PurgeItems(o) \/ PurgeOp(o)
    PROVE  [Abstract!Next]_(Abstract!ledgerVars)
<1>0. op \in [Op -> OpRow] /\ UNCHANGED <<queue, applied, tick, req>>
  BY DEF TypeOK, StoreTypeOK, LockExpires, Recover, PurgeItems, PurgeOp, storeVars,
         procVars, intakeVars
<1>1. SameOps
  <2> USE <1>0 DEF SameOps, OpRow
  <2>1. CASE LockExpires \/ \E o \in Op : PurgeItems(o)
    BY <2>1 DEF LockExpires, PurgeItems, storeVars
  <2>2. CASE Recover
    <3>1. PICK stale \in SUBSET {o \in Op : op[o].status = "RUNNING"} :
            op' = [o \in Op |-> IF o \in stale
                                THEN [op[o] EXCEPT !.status = "QUEUED"] ELSE op[o]]
      BY <2>2 DEF Recover
    <3> QED
      BY <3>1
  <2>3. CASE \E o \in Op : PurgeOp(o)
    BY <2>3 DEF PurgeOp, Forgotten, Terminal, TerminalStatus
  <2> QED
    BY <2>1, <2>2, <2>3
<1>2. CASE LockExpires \/ Recover
  <2>1. UNCHANGED items
    BY <1>2 DEF LockExpires, Recover, storeVars
  <2>2. \A p \in Op : /\ Unpushed(p)' = Unpushed(p)
                      /\ TodoOf(p)' = TodoOf(p) /\ DoneOf(p)' = DoneOf(p)
    BY <1>0, <1>1, SameOpsKeepOpen, TicksStill
  <2> QED
    BY <1>0, <2>1, <2>2 DEF Abstract!ledgerVars
<1>3. CASE \E o \in Op : PurgeItems(o) \/ PurgeOp(o)
  BY <1>0, <1>1, <1>3, ClearingForgets DEF PurgeItems, PurgeOp
<1> QED
  BY <1>2, <1>3

LEMMA TickRefines ==
    ASSUME IInv, HandsFree, UNCHANGED intakeVars, NEW s \in Tick,
           NEW outcome \in {"SUCCEEDED", "FAILED", "SKIPPED"}, NEW effect \in BOOLEAN,
           \/ AcquireLock(s) \/ SelectOp(s) \/ StartOp(s) \/ PopBatch(s)
           \/ ExecuteItem(s, outcome, effect) \/ CommitBatch(s) \/ Reread(s)
           \/ Finalize(s) \/ DrainPop(s) \/ DrainRecord(s) \/ CancelOp(s)
           \/ ReleaseLock(s) \/ TickThrows(s) \/ KillTick(s)
    PROVE  [Abstract!Next]_(Abstract!ledgerVars)
<1>0. TypeOK /\ AtWork /\ Exclusive
  BY DEF IInv, Ledger
<1>1. CASE PopBatch(s) \/ DrainPop(s)
  BY <1>0, <1>1, PopIsTake
<1>2. CASE ExecuteItem(s, outcome, effect)
  BY <1>0, <1>2, ExecuteIsHandle
<1>3. CASE CommitBatch(s)
  BY <1>0, <1>3, CommitIsRecord
<1>4. CASE DrainRecord(s)
  BY <1>0, <1>4, DrainIsCancel
<1>5. CASE \/ AcquireLock(s) \/ SelectOp(s) \/ StartOp(s) \/ Reread(s) \/ Finalize(s)
           \/ CancelOp(s) \/ ReleaseLock(s) \/ TickThrows(s) \/ KillTick(s)
  BY <1>0, <1>5, OtherTickSteps
<1> QED
  BY <1>1, <1>2, <1>3, <1>4, <1>5

-----------------------------------------------------------------------------
(* The refinement.                                                          *)

LEMMA InitRefines == Init => Abstract!Init
<1> SUFFICES ASSUME Init PROVE Abstract!Init
  OBVIOUS
<1>1. \A o \in Op : TodoOf(o) = {} /\ DoneOf(o) = {}
  BY DEF Init, ProcInit, IdleTick, TodoOf, DoneOf
<1>2. \A o \in Op : Unpushed(o) = TRUE
  BY DEF Init, StoreInit, AbsentOp, Unpushed
<1> QED
  BY <1>1, <1>2 DEF Init, StoreInit, Abstract!Init

LEMMA StepRefines ==
    IInv /\ HandsFree /\ [Next]_vars => [Abstract!Next]_(Abstract!ledgerVars)
<1> SUFFICES ASSUME IInv, HandsFree, [Next]_vars
             PROVE  [Abstract!Next]_(Abstract!ledgerVars)
  OBVIOUS
<1>0. TypeOK
  BY DEF IInv
<1>1. CASE \/ UNCHANGED vars
           \/ \E u \in User, t \in Token, ids \in Scope : ByRequest(Preview(u, t, ids))
           \/ \E t \in Token : ByRequest(ExpirePreview(t))
  <2>1. UNCHANGED <<op, queue, items, applied, req, tick>>
    BY <1>1 DEF vars, storeVars, intakeVars, procVars, ByRequest, Preview, ExpirePreview
  <2>2. \A p \in Op : /\ Unpushed(p)' = Unpushed(p)
                      /\ TodoOf(p)' = TodoOf(p) /\ DoneOf(p)' = DoneOf(p)
    BY <2>1, SameOpsKeepOpen, TicksStill DEF SameOps
  <2> QED
    BY <2>1, <2>2 DEF Abstract!ledgerVars
<1>2. ASSUME NEW r \in Req,
             \/ \E u \in User, k \in Key, t \in Token : ByRequest(BeginCreate(r, u, k, t))
             \/ \E u \in User, k \in Key, o \in Op : ByRequest(BeginRetry(r, u, k, o))
             \/ \E u \in User, o \in Op : ByRequest(BeginCancel(r, u, o))
             \/ ByRequest(ConsumeToken(r)) \/ ByRequest(CheckQuota(r))
             \/ ByRequest(InsertOp(r)) \/ ByRequest(Refetch(r))
             \/ ByRequest(PushQueue(r)) \/ ByRequest(Rollback(r))
             \/ ByRequest(ReadRows(r)) \/ ByRequest(LookupRetry(r))
             \/ ByRequest(SetCancel(r)) \/ ByRequest(KillRequest(r))
      PROVE  [Abstract!Next]_(Abstract!ledgerVars)
  <2>1. UNCHANGED procVars /\ (Begins(r) \/ Proceeds(r))
    BY <1>2 DEF ByRequest, Begins, Proceeds
  <2> QED
    BY <2>1, RequestRefines
<1>3. ASSUME NEW s \in Tick, NEW outcome \in {"SUCCEEDED", "FAILED", "SKIPPED"},
             NEW effect \in BOOLEAN,
             \/ ByCron(AcquireLock(s)) \/ ByCron(SelectOp(s)) \/ ByCron(StartOp(s))
             \/ ByCron(PopBatch(s)) \/ ByCron(ExecuteItem(s, outcome, effect))
             \/ ByCron(CommitBatch(s)) \/ ByCron(Reread(s)) \/ ByCron(Finalize(s))
             \/ ByCron(DrainPop(s)) \/ ByCron(DrainRecord(s)) \/ ByCron(CancelOp(s))
             \/ ByCron(ReleaseLock(s)) \/ ByCron(TickThrows(s)) \/ ByCron(KillTick(s))
      PROVE  [Abstract!Next]_(Abstract!ledgerVars)
  BY <1>3, TickRefines DEF ByCron
<1>4. CASE \/ ByCron(LockExpires) \/ ByCron(Recover)
           \/ \E o \in Op : ByCron(PurgeItems(o)) \/ ByCron(PurgeOp(o))
  BY <1>0, <1>4, CronRefines DEF ByCron
<1> QED
  BY <1>1, <1>2, <1>3, <1>4 DEF Next

\* The service and its cron jobs, with any number of requests, overlapping
\* ticks and crashes, implement the ledger: no entry is ever taken up, changed
\* or reported again once it has moved on.
THEOREM Refinement == Spec => ImplementsLedger
<1>1. Init => IInv /\ HandsFree /\ Abstract!Init
  BY InitIInv, InitHandsFree, InitRefines
<1>2. IInv /\ HandsFree /\ [Next]_vars => (IInv /\ HandsFree)'
  BY NextKeepsIInv, NextKeepsHands
<1>3. IInv /\ HandsFree /\ [Next]_vars => [Abstract!Next]_(Abstract!ledgerVars)
  BY StepRefines
<1> QED
  BY <1>1, <1>2, <1>3, PTL DEF Spec, ImplementsLedger, Abstract!Spec
=============================================================================
