---------------------------- MODULE BulkProcessor ----------------------------
(***************************************************************************)
(* bulk-operations.processor.ts: the cron jobs tick, recovery and          *)
(* retention, run by every backend instance.  An element of Tick is one    *)
(* running call of runTickOnce; each await of the call that touches shared *)
(* state is an action.  A tick may be killed with its process, and any of  *)
(* its database or Redis calls may fail.                                   *)
(***************************************************************************)
EXTENDS BulkStore

CONSTANTS
    Tick,            \* concurrent calls of runTickOnce
    LockOutlives,    \* TRUE: TICK_LOCK_TTL_S exceeds every live tick
    ExecuteAtomic    \* TRUE: an execute that throws has changed nothing

ASSUME ProcessorAssumption ==
    /\ None \notin Tick
    /\ {LockOutlives, ExecuteAtomic} \subseteq BOOLEAN

VARIABLES
    lock,    \* the Redis key `bulk-ops:tick`: the tick whose token it holds
    tick     \* the local state of each call

procVars == <<lock, tick>>

Pc == {"idle", "select", "start", "pop", "execute", "reread", "finalize",
       "drain", "record", "cancel", "release"}

\* todo: entries popped and not handled yet; done: handled, not committed;
\* verdict: the status finalize would write, from the row as last read;
\* drained: entries drained after a cancel.
TickState == [pc : Pc, op : 0..MaxOps, todo : SUBSET Entry,
              done : SUBSET [entry : Entry,
                             outcome : {"SUCCEEDED", "FAILED", "SKIPPED"}],
              verdict : Status, drained : Nat]

IdleTick == [pc |-> "idle", op |-> 0, todo |-> {}, done |-> {},
             verdict |-> "ABSENT", drained |-> 0]

ProcTypeOK ==
    /\ lock \in Tick \cup {None}
    /\ tick \in [Tick -> TickState]

ProcInit ==
    /\ lock = None
    /\ tick = [s \in Tick |-> IdleTick]

-----------------------------------------------------------------------------
At(s, pc)   == tick[s].pc = pc
Goto(s, pc) == tick' = [tick EXCEPT ![s].pc = pc]
\* The entries a tick has popped and not recorded.
Held(s)     == tick[s].todo \cup {d.entry : d \in tick[s].done}
\* Leave processOperationBatch, normally or with an exception: on to finally.
Leave(s)    == tick' = [tick EXCEPT ![s] = [IdleTick EXCEPT !.pc = "release"]]

\* NX: the key is not there.  Mutant: SET without NX.
AlwaysFree == TRUE
LockFree == lock = None

\* SET bulk-ops:tick NX EX.  A reply that is lost leaves the key set.
AcquireLock(s) ==
    /\ At(s, "idle") /\ LockFree
    /\ lock' = s
    /\ \/ Goto(s, "select") /\ UNCHANGED faults
       \/ Fault /\ UNCHANGED tick
    /\ UNCHANGED <<op, scope, queue, items, applied, late>>

\* What the row of the selected operation calls for.  Mutant: the cancel flag
\* is looked at only once the operation is running.
StartBeforeCancel(row) == IF row.status = "QUEUED" THEN "start"
                          ELSE IF row.cancelRequested THEN "drain" ELSE "pop"
FirstStep(row) == IF row.cancelRequested THEN "drain"
                  ELSE IF row.status = "QUEUED" THEN "start" ELSE "pop"

\* The oldest active operation.
SelectOp(s) ==
    /\ At(s, "select")
    /\ \/ /\ \A o \in Op : ~Active(o)
          /\ Leave(s)
       \/ \E o \in Op :
            /\ Active(o) /\ \A p \in Op : Active(p) => o <= p
            /\ tick' = [tick EXCEPT ![s] =
                 [IdleTick EXCEPT
                    !.op = o, !.verdict = FinalStatus(op[o]),
                    !.pc = FirstStep(op[o])]]
    /\ UNCHANGED <<storeVars, lock>>

\* QUEUED -> RUNNING, by id and whatever the status is by now.
StartOp(s) ==
    /\ At(s, "start")
    /\ LET o == tick[s].op IN
       \/ /\ Exists(o)
          /\ op' = [op EXCEPT ![o].status = "RUNNING"]
          /\ Goto(s, "pop")
       \/ /\ ~Exists(o)
          /\ Leave(s) /\ UNCHANGED op
    /\ UNCHANGED <<scope, queue, items, applied, late, faults, lock>>

\* LPOP a batch.  null (Redis down) ends the tick, and so does a reply lost
\* after Redis has removed the batch.
PopBatch(s) ==
    /\ At(s, "pop")
    /\ LET o == tick[s].op
           batch == Front(queue[o], BatchSize) IN
       \/ /\ queue[o] = {}
          /\ Goto(s, "finalize") /\ UNCHANGED <<queue, faults>>
       \/ /\ queue[o] # {}
          /\ Pop(o, batch)
          /\ \/ /\ tick' = [tick EXCEPT ![s].pc = "execute", ![s].todo = batch]
                /\ UNCHANGED faults
             \/ Fault /\ Leave(s)
       \/ Fault /\ Leave(s) /\ UNCHANGED queue
    /\ UNCHANGED <<op, scope, items, applied, late, lock>>

\* The body of the loop for the next entry: missing issue or preflight says
\* SKIPPED, or execute succeeds, finds a stale status (SKIPPED) or throws.
\* It commits the change and then writes its audit row, so a failure of the
\* second call throws after the effect.
ExecuteItem(s, outcome, effect) ==
    /\ At(s, "execute")
    /\ outcome = "SUCCEEDED" => effect
    /\ outcome = "SKIPPED" => ~effect
    /\ IF outcome = "FAILED" /\ effect THEN ~ExecuteAtomic /\ Fault
                                       ELSE UNCHANGED faults
    /\ LET o == tick[s].op IN
       \E k \in tick[s].todo :
         /\ \A j \in tick[s].todo : k <= j
         /\ tick' = [tick EXCEPT
              ![s].todo = @ \ {k},
              ![s].done = @ \cup {[entry |-> k, outcome |-> outcome]}]
         /\ applied' = IF effect THEN [applied EXCEPT ![o][k] = @ + 1]
                       ELSE applied
         /\ late' = IF effect /\ op[o].cancelRequested
                    THEN [late EXCEPT ![o] = @ + 1] ELSE late
    /\ UNCHANGED <<op, scope, queue, items, lock>>

\* itemsToInsert: failed and skipped entries only.  Mutant: succeeded ones too.
AllRows(done) == done
RowsToInsert(done) == {d \in done : d.outcome # "SUCCEEDED"}

\* The counters after a batch.  Mutant: a short last batch counts as a full one.
Counted(done, outcome) == Cardinality({d \in done : d.outcome = outcome})
CountFullBatch(row, done) ==
    [row EXCEPT !.processed = @ + BatchSize,
                !.succeeded = @ + Counted(done, "SUCCEEDED"),
                !.failed    = @ + Counted(done, "FAILED"),
                !.skipped   = @ + Counted(done, "SKIPPED")]
CountBatch(row, done) ==
    [row EXCEPT !.processed = @ + Cardinality(done),
                !.succeeded = @ + Counted(done, "SUCCEEDED"),
                !.failed    = @ + Counted(done, "FAILED"),
                !.skipped   = @ + Counted(done, "SKIPPED")]

\* The transaction: rows for failed and skipped entries, counters, heartbeat.
CommitBatch(s) ==
    /\ At(s, "execute") /\ tick[s].todo = {}
    /\ LET o == tick[s].op
           done == tick[s].done IN
       \/ /\ Exists(o)
          /\ items' = [items EXCEPT ![o] = @ \cup RowsToInsert(done)]
          /\ op' = [op EXCEPT ![o] = CountBatch(@, done)]
          /\ tick' = [tick EXCEPT ![s].pc = "reread", ![s].done = {}]
       \/ /\ ~Exists(o)
          /\ Leave(s) /\ UNCHANGED <<items, op>>
    /\ UNCHANGED <<scope, queue, applied, late, faults, lock>>

\* The test that ends an operation.  Mutant: off by one.
AlmostProcessed(row) == row.processed + 1 >= row.total
AllProcessed(row)    == row.processed >= row.total

\* finalize is called with the row just read.  Mutant: with the row as it was
\* when the tick selected it.
FinalizeStale(t, row) == [t EXCEPT !.pc = "finalize"]
FinalizeFresh(t, row) ==
    [t EXCEPT !.pc = "finalize", !.verdict = FinalStatus(row)]

\* findUniqueOrThrow: cancelled, all processed, or left to the next tick.
Reread(s) ==
    /\ At(s, "reread")
    /\ LET o == tick[s].op IN
       \/ /\ Exists(o) /\ op[o].cancelRequested
          /\ Goto(s, "drain")
       \/ /\ Exists(o) /\ ~op[o].cancelRequested
          /\ AllProcessed(op[o])
          /\ tick' = [tick EXCEPT ![s] = FinalizeFresh(@, op[o])]
       \/ /\ Exists(o) => ~op[o].cancelRequested /\ ~AllProcessed(op[o])
          /\ Leave(s)
    /\ UNCHANGED <<storeVars, lock>>

\* finalize: the status computed from the row last read, written by id.
Finalize(s) ==
    /\ At(s, "finalize")
    /\ LET o == tick[s].op IN
       op' = IF Exists(o) THEN [op EXCEPT ![o].status = tick[s].verdict] ELSE op
    /\ Leave(s)
    /\ UNCHANGED <<scope, queue, items, applied, late, faults, lock>>

\* finalizeCancelled: pop a chunk, until the list is empty, Redis is down
\* or MAX_DRAIN entries are drained.
DrainPop(s) ==
    /\ At(s, "drain")
    /\ LET o == tick[s].op
           chunk == Front(queue[o], BatchSize) IN
       \/ /\ tick[s].drained >= MaxDrain \/ queue[o] = {}
          /\ Goto(s, "cancel") /\ UNCHANGED <<queue, faults>>
       \/ /\ tick[s].drained < MaxDrain /\ queue[o] # {}
          /\ Pop(o, chunk)
          /\ \/ /\ tick' = [tick EXCEPT ![s].pc = "record", ![s].todo = chunk]
                /\ UNCHANGED faults
             \/ Fault /\ Goto(s, "cancel")
       \/ /\ tick[s].drained < MaxDrain
          /\ Fault /\ Goto(s, "cancel") /\ UNCHANGED queue
    /\ UNCHANGED <<op, scope, items, applied, late, lock>>

\* createMany of the chunk as CANCELLED_BY_USER.
DrainRecord(s) ==
    /\ At(s, "record")
    /\ LET o == tick[s].op
           chunk == tick[s].todo IN
       \/ /\ Exists(o)
          /\ items' = [items EXCEPT ![o] =
               @ \cup {[entry |-> k, outcome |-> "CANCELLED"] : k \in chunk}]
          /\ tick' = [tick EXCEPT ![s].pc = "drain", ![s].todo = {},
                                  ![s].drained = @ + Cardinality(chunk)]
       \/ /\ ~Exists(o)
          /\ Leave(s) /\ UNCHANGED items
    /\ UNCHANGED <<op, scope, queue, applied, late, faults, lock>>

\* The final update of finalizeCancelled, by id.
CancelOp(s) ==
    /\ At(s, "cancel")
    /\ LET o == tick[s].op IN
       op' = IF Exists(o)
             THEN [op EXCEPT ![o].status = "CANCELLED",
                             ![o].skipped = @ + tick[s].drained,
                             ![o].processed = @ + tick[s].drained]
             ELSE op
    /\ Leave(s)
    /\ UNCHANGED <<scope, queue, items, applied, late, faults, lock>>

\* releaseLock: compare-and-delete, so another tick's lock stays.
ReleaseLock(s) ==
    /\ At(s, "release")
    /\ tick' = [tick EXCEPT ![s] = IdleTick]
    /\ \/ /\ lock' = IF lock = s THEN None ELSE lock
          /\ UNCHANGED faults
       \/ Fault /\ UNCHANGED lock
    /\ UNCHANGED <<op, scope, queue, items, applied, late>>

\* A database call of the tick rejects: the locals are lost, finally runs.
TickThrows(s) ==
    /\ tick[s].pc \notin {"idle", "release"}
    /\ Fault /\ Leave(s)
    /\ UNCHANGED <<op, scope, queue, items, applied, late, lock>>

\* kill -9: the lock stays until its TTL runs out.
KillTick(s) ==
    /\ ~At(s, "idle")
    /\ Fault
    /\ tick' = [tick EXCEPT ![s] = IdleTick]
    /\ UNCHANGED <<op, scope, queue, items, applied, late, lock>>

\* Mutant of LockExpires: SET without EX.
LockStays == FALSE /\ UNCHANGED <<storeVars, lock, tick>>

\* The TTL of the lock runs out; under LockOutlives only for a dead holder.
LockExpires ==
    /\ lock # None
    /\ LockOutlives => At(lock, "idle")
    /\ lock' = None
    /\ UNCHANGED <<storeVars, tick>>

\* runRecoveryOnce: the RUNNING operations whose heartbeat is stale.
Recover ==
    /\ \E stale \in SUBSET {o \in Op : op[o].status = "RUNNING"} :
         /\ stale # {}
         /\ op' = [o \in Op |-> IF o \in stale
                                THEN [op[o] EXCEPT !.status = "QUEUED"]
                                ELSE op[o]]
    /\ UNCHANGED <<scope, queue, items, applied, late, faults, procVars>>

\* runRetentionOnce: rows older than 30 days, then finished operations older
\* than 90.  Operations that old are finished and no tick is still on them.
Forgotten(o) == Terminal(o) /\ \A s \in Tick : tick[s].op # o

PurgeItems(o) ==
    /\ Forgotten(o) /\ items[o] # {}
    /\ items' = [items EXCEPT ![o] = {}]
    /\ UNCHANGED <<op, scope, queue, applied, late, faults, procVars>>

PurgeOp(o) ==
    /\ Forgotten(o)
    /\ op' = [op EXCEPT ![o].status = "DELETED"]
    /\ items' = [items EXCEPT ![o] = {}]
    /\ UNCHANGED <<scope, queue, applied, late, faults, procVars>>

-----------------------------------------------------------------------------
\* What a tick does on its own account.
TickStep(s) ==
    \/ AcquireLock(s) \/ SelectOp(s) \/ StartOp(s) \/ PopBatch(s)
    \/ \E outcome \in {"SUCCEEDED", "FAILED", "SKIPPED"}, effect \in BOOLEAN :
         ExecuteItem(s, outcome, effect)
    \/ CommitBatch(s) \/ Reread(s) \/ Finalize(s)
    \/ DrainPop(s) \/ DrainRecord(s) \/ CancelOp(s) \/ ReleaseLock(s)
=============================================================================
