---------------------------- MODULE BulkOperations ----------------------------
(***************************************************************************)
(* The bulk-operations module as a whole: requests (BulkIntake) and cron   *)
(* jobs (BulkProcessor) that share Postgres and Redis (BulkStore).         *)
(***************************************************************************)
EXTENDS BulkIntake, BulkProcessor

vars == <<storeVars, intakeVars, procVars>>

Init == StoreInit /\ IntakeInit /\ ProcInit

\* Requests leave the cron jobs alone, and the other way round.
ByRequest(A) == A /\ UNCHANGED procVars
ByCron(A)    == A /\ UNCHANGED intakeVars

Next ==
    \/ \E u \in User, t \in Token, ids \in Scope : ByRequest(Preview(u, t, ids))
    \/ \E t \in Token : ByRequest(ExpirePreview(t))
    \/ \E r \in Req :
         \/ \E u \in User, k \in Key, t \in Token :
              ByRequest(BeginCreate(r, u, k, t))
         \/ ByRequest(ConsumeToken(r))
         \/ ByRequest(CheckQuota(r))
         \/ ByRequest(InsertOp(r))
         \/ ByRequest(Refetch(r))
         \/ ByRequest(PushQueue(r))
         \/ ByRequest(Rollback(r))
         \/ \E u \in User, k \in Key, o \in Op : ByRequest(BeginRetry(r, u, k, o))
         \/ ByRequest(ReadRows(r))
         \/ ByRequest(LookupRetry(r))
         \/ \E u \in User, o \in Op : ByRequest(BeginCancel(r, u, o))
         \/ ByRequest(SetCancel(r))
         \/ ByRequest(KillRequest(r))
    \/ \E s \in Tick :
         \/ ByCron(AcquireLock(s))
         \/ ByCron(SelectOp(s))
         \/ ByCron(StartOp(s))
         \/ ByCron(PopBatch(s))
         \/ \E outcome \in {"SUCCEEDED", "FAILED", "SKIPPED"}, effect \in BOOLEAN :
              ByCron(ExecuteItem(s, outcome, effect))
         \/ ByCron(CommitBatch(s))
         \/ ByCron(Reread(s))
         \/ ByCron(Finalize(s))
         \/ ByCron(DrainPop(s))
         \/ ByCron(DrainRecord(s))
         \/ ByCron(CancelOp(s))
         \/ ByCron(ReleaseLock(s))
         \/ ByCron(TickThrows(s))
         \/ ByCron(KillTick(s))
    \/ ByCron(LockExpires)
    \/ ByCron(Recover)
    \/ \E o \in Op : ByCron(PurgeItems(o))
    \/ \E o \in Op : ByCron(PurgeOp(o))

Spec == Init /\ [][Next]_vars

\* Every live instance runs the tick cron, an execution that has started goes
\* on unless it is killed, and Redis drops the lock of a dead tick at its TTL.
Fairness == /\ \A s \in Tick : WF_vars(ByCron(TickStep(s)))
            /\ WF_vars(ByCron(LockExpires))

FairSpec == Spec /\ Fairness

TypeOK == StoreTypeOK /\ IntakeTypeOK /\ ProcTypeOK

-----------------------------------------------------------------------------
(* Safety.                                                                  *)

\* However ticks overlap, crash or lose their lock, an entry of an operation
\* changes its issue at most once: LPOP hands each entry to one tick only.
AtMostOnce == \A o \in Op, k \in Entry : applied[o][k] <= 1

\* The report (bulk_operation_items) gets at most one row per entry: an entry
\* is not cancelled by one tick and executed by another, and an entry that is
\* still in the hands of a tick has no row yet.
OneRowPerEntry ==
    /\ \A o \in Op : \A r1, r2 \in items[o] : r1.entry = r2.entry => r1 = r2
    /\ \A s \in Tick : tick[s].op # 0 =>
         \A row \in items[tick[s].op] : row.entry \notin Held(s)

\* While an operation is active its counters agree with the report and with
\* the changes made to issues, whatever was lost on the way.
CountersMatchLedger ==
    \A o \in Op : Active(o) =>
        /\ op[o].failed = Cardinality(RowsOf(o, "FAILED"))
        /\ op[o].skipped >= Cardinality(RowsOf(o, "SKIPPED"))
        /\ op[o].succeeded <= Cardinality({k \in Entry : applied[o][k] > 0})
        /\ op[o].processed = op[o].succeeded + op[o].failed + op[o].skipped
        /\ op[o].processed <= op[o].total

\* A finished operation shows a status its counters bear out, and it is
\* CANCELLED only if its owner asked for it: finalize works on a row read
\* earlier, and this says that row was not stale.  PARTIAL is a mixed result or
\* one without successes and failures.  The latter is what the code makes of an
\* operation whose entries were all skipped (processor.ts:392-403);
\* docs/tz/TTBULK-1.md:552 calls that one SUCCEEDED.  The property takes no
\* side: it allows either status when nothing succeeded and nothing failed.
StatusAgreesWithCounters ==
    \A o \in Op :
        /\ op[o].status = "SUCCEEDED" => op[o].failed = 0
        /\ op[o].status = "FAILED"    => op[o].failed > 0 /\ op[o].succeeded = 0
        /\ op[o].status = "PARTIAL"   => (op[o].failed > 0 <=> op[o].succeeded > 0)
        /\ op[o].status = "CANCELLED" => op[o].cancelRequested

\* Once finished, an operation keeps its status and its counters until
\* retention purges it, although every write of the processor is by id only.
TerminalIsFinal ==
    [][\A o \in Op : Terminal(o) =>
         \/ op'[o].status = "DELETED"
         \/ [op'[o] EXCEPT !.cancelRequested = op[o].cancelRequested] = op[o]]_vars

\* cancel_requested is read between batches: after it is set at most one
\* batch of entries still changes issues, crashes and recovery included.
CancelBoundsWork == \A o \in Op : late[o] <= BatchSize

\* Without crashes and failures a finished operation has handled all of its
\* entries, or (when the tick outran RPUSH) none of them.
NothingLostWithoutFaults ==
    faults = 0 =>
      \A o \in Op : Terminal(o) => op[o].processed \in {0, op[o].total}

Duplicates(o) == \E i, j \in DOMAIN scope[o] : i # j /\ scope[o][i] = scope[o][j]

\* The entries of operation p whose change operation o has made once more.
Repeated(o, p) ==
    {e \in DOMAIN scope[p] :
       /\ applied[p][e] > 0
       /\ \E k \in DOMAIN scope[o] : scope[o][k] = scope[p][e] /\ applied[o][k] > 0}

\* A retry makes a change again only for an entry its source counts as failed,
\* one whose executor threw after its commit: entries that succeeded or were lost
\* with their tick are not taken over by retryFailed, and skipped ones have changed
\* nothing, whatever was killed, purged or rolled back since.
RetryRepeatsOnlyFailures ==
    \A o \in Op : op[o].retryOf # 0 =>
      LET p == op[o].retryOf IN
        ~Duplicates(p) => Cardinality(Repeated(o, p)) <= op[p].failed

\* A preview token pays for one operation, also when it is submitted twice
\* at the same time under different idempotency keys.
TokenSpentOnce ==
    \A o, p \in Op : op[o].token # None /\ op[o].token = op[p].token => o = p

\* Two requests of a user with one idempotency key that were answered with
\* an operation got the same one, unless that one was rolled back or purged.
SameKeySameOp ==
    \A r1, r2 \in Req :
      (/\ {req[r1].answer, req[r2].answer} \subseteq {200, 201}
       /\ req[r1].key # None
       /\ <<req[r1].user, req[r1].key>> = <<req[r2].user, req[r2].key>>)
      => \/ req[r1].op = req[r2].op
         \/ \E r \in {r1, r2} : op[req[r].op].status = "DELETED"

\* A user never has more active operations than the setting allows.
QuotaRespected == \A u \in User : ActiveOf(u) <= MaxConcurrent

-----------------------------------------------------------------------------
(* Refinement.                                                              *)

\* The entries in the hands of all ticks on an operation.
TodoOf(o) == UNION {tick[s].todo : s \in {t \in Tick : tick[t].op = o}}
DoneOf(o) == UNION {tick[s].done : s \in {t \in Tick : tick[t].op = o}}

\* The RPUSH of the operation is still to come.
Unpushed(o) == \/ op[o].status = "ABSENT"
               \/ \E r \in Req : AtReq(r, "push") /\ req[r].op = o

Abstract == INSTANCE BulkLedger WITH
    open    <- [o \in Op |-> Unpushed(o)],
    waiting <- queue,
    todo    <- [o \in Op |-> TodoOf(o)],
    done    <- [o \in Op |-> DoneOf(o)],
    rows    <- items

\* Postgres, Redis, overlapping ticks and their crashes together are one ledger
\* in which every entry of an operation only moves forward: no failure makes
\* the processor take up, change or report an entry a second time.
ImplementsLedger == Abstract!Spec

-----------------------------------------------------------------------------
(* What comments and the specification of the feature say, and the code     *)
(* does not keep in every interleaving.                                     *)

\* SUCCEEDED only once all items are processed, a killed instance included.
SucceededMeansComplete ==
    \A o \in Op : op[o].status = "SUCCEEDED" => op[o].processed = op[o].total

\* Retrying an operation changes no issue that it has changed.
RetryChangesNothingTwice ==
    \A o \in Op : op[o].retryOf # 0 =>
      LET p == op[o].retryOf IN ~Duplicates(p) => Repeated(o, p) = {}

\* PARTIAL means that entries failed or were skipped, not that none was seen.
PartialMeansHandled ==
    \A o \in Op : op[o].status = "PARTIAL" => op[o].processed > 0

\* Repeating a create with the same key and token is answered with the
\* existing operation, never with PREVIEW_EXPIRED.
DuplicateGetsExisting ==
    \A r \in Req, o \in Op :
      req[r].answer = 409 /\ req[r].token # None
        => ~(/\ Exists(o) /\ op[o].owner = req[r].user
             /\ op[o].key = req[r].key /\ op[o].token = req[r].token)

-----------------------------------------------------------------------------
(* Liveness.                                                                *)

\* Every operation that becomes active is finished (or rolled back) in the
\* end, although each instance may crash in the middle of a batch.
EventuallyFinished == \A o \in Op : Active(o) ~> ~Active(o)
=============================================================================
