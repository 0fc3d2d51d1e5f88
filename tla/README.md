# TLA+ models of tasktime-mvp

TaskTime is a task tracker: an Express/Prisma backend with several instances
behind one Postgres and one Redis, a second service for staging batches of
pull requests (`pipeline-service`), and a React frontend.  Most of the code is
CRUD with validation, one transaction per request.  This directory models the
parts that are protocols: several processes, two stores without a common
transaction, crashes, locks with a TTL, retries.

Four parts are modelled, checked and, where it matters most, proved: bulk
operations, the event outbox with its consumers, releases with their checkpoints,
and the staging batches of `pipeline-service`.  The plan at the end says what is
left.

## Inventory

| part | state it keeps | operations | hard behaviour | what makes it correct |
|---|---|---|---|---|
| **bulk operations: service** `modules/bulk-operations/bulk-operations.service.ts` | rows of `bulk_operations`; Redis keys `bulk-op:preview:{token}`, lists `bulk-op:{id}:pending` | preview, create, retry-failed, cancel (and reads) | INSERT and RPUSH are two stores; duplicate requests; check-then-insert quota; lost replies of Redis | a token pays once, a key names one operation, a retry repeats no change but of failed entries |
| **bulk operations: processor** `bulk-operations.processor.ts` | counters and status of `bulk_operations`, rows of `bulk_operation_items`, lock `bulk-ops:tick` | tick (every 5 s on each instance), recovery (every minute), retention (daily) | kills between LPOP and commit, lock expiry, overlapping ticks, cancel in mid-batch, recovery of a slow tick's operation | each entry handled and reported at most once, counters agree with the report, a finished operation stays as it is, every operation ends |
| bulk operations: executors | issues, comments, audit log | preflight, execute | change committed before its audit row | an exception leaves no change behind (documented, not kept) |
| event outbox and event bus `shared/outbox`, `shared/eventbus` | `event_outbox`, `processed_messages`, Redpanda topics | enqueue, relay poll (FOR UPDATE SKIP LOCKED), consume | crash between send and mark; handler runs before its message is marked processed; a group without a committed offset starts at the end | from the group's first commit on nothing committed is lost and no offset passes a message that was not handled; a message is repeated only after a failure |
| release checkpoints `modules/releases/checkpoints` | evaluations, violation events, Redis locks of the scheduler | recompute, cron scan, webhook | concurrent recomputes work from stale copies; rows removed under them; webhook sent once only | one open violation event per violation; rows follow issues, dates and deadlines |
| releases and their workflow `modules/releases` | release status, release items | transition, add/remove items | status checked, then written | the audit log is the chain of transitions; no item enters a closed release |
| workflow engine `modules/workflow-engine` | issue status | `executeTransition` | transition checked against a status read earlier, update by id | each change of status is a transition of the workflow |
| `pipeline-service` | staging batches, PR snapshots, deploy events | collect, add PRs, merge, deploy, sync | batch state checked, then written by id; callbacks that name a batch and not a deploy; a poll from a stale list | one running deploy per batch and target; released only after it was passed |
| sprints, time, issues, auth | their tables, sessions in Redis | CRUD, timers, token rotation | check-then-write races | one running timer per user, one active sprint |
| Redis helper `shared/redis.ts` | one client per instance | lists, GETDEL, SET NX EX, compare-and-delete | `null` on failure, whether or not the command ran | modelled as used by bulk operations |
| administration, workflow schemes, fields, roles, search, AI, MCP, frontend, scripts | tables | CRUD, pure computation, adapters | none across processes | not modelled |

How they interact: HTTP requests and cron jobs of all instances share Postgres
and Redis.  Bulk operations call the workflow engine and the issue tables
through the executors.  Requests that change issues or releases name the releases
concerned in their request context, which is flushed into recomputes of the
checkpoints after the response (`shared/middleware/request-context.ts`); the
scheduler recomputes as well.  The outbox stands apart: the relay publishes what
`publishInTx` wrote and `EventBusConsumer` is there to handle it, but at this commit
only tests call the one, nothing constructs the other, and the one subscriber in
`src/` is the script `events-tail.ts`.  Both are modelled as the helpers they are,
used as `docs/architecture/event-bus.md` asks, with `fromBeginning` at its default.
`pipeline-service` has a database of its own and talks to GitHub.

`PROJECT.json` has the full list of components and, under `hazards`, what in
this code is hard to test, each at its line.

## Modules

| module | models |
|---|---|
| `BulkStore` | what the services share: the two tables, the pending lists, the effects on issues |
| `BulkIntake` | the service: requests, one action per await that touches Postgres or Redis |
| `BulkProcessor` | the cron jobs tick, recovery, retention, and the lock |
| `BulkOperations` | both over the shared store; `Next`, fairness, the properties |
| `BulkOperationsProofs` | types and the custody of entries: at most once, one row each |
| `BulkIntakeProofs` | the custody of tokens and keys; what a retry is made of |
| `BulkCountersProofs` | the counters, with any number of ticks at work |
| `BulkLockProofs` | what the tick lock gives while it outlives the ticks |
| `BulkLedger` | the abstract promise: an operation is filled once; an entry waits, is taken up, handled, recorded, may get lost, never goes back |
| `BulkRefinementProofs` | `BulkOperations` implements `BulkLedger` |
| `MCBulkOperations` | item lists and symmetry for TLC |
| `Outbox` | `event_outbox`, relays, the log of Kafka, a consumer group; properties |
| `EventDelivery` | the abstract promise: an event is committed, logged, settled or handled, processed, passed, never a later stage before an earlier one; or skipped, by a group that has passed none of its stream |
| `OutboxProofs`, `MCOutbox` | theorems, `Outbox` implements `EventDelivery`; the partition function for TLC |
| `ReleaseStore` | a release, items, issues, checkpoint rows, events; the pure evaluation of a checkpoint |
| `ReleaseRequests` | transitions of the release and of issues, items, a new planned date |
| `ReleaseCheckpoints` | apply, remove, synchronise, recompute, the scheduler |
| `Releases` | the two over the shared store; `Next`, kills, fairness, the properties |
| `ReleaseProofs`, `MCReleases` | theorems; the workflows for TLC |
| `StagingBatches` | batches, pull requests, deploys, callbacks, the poll of workflow runs |
| `StagingProofs` | a batch is released only after it was passed; n overlapping handlers run at most n deploys per target |

The components share no module: what one takes from another (an executor that
changes an issue, an event that triggers a recompute) is an action of the module
that needs it, with any outcome the other may give.

### Bulk operations: state and code

* `op[o]` is a row of `bulk_operations`; `o` is the number of its INSERT, so
  "oldest" (ORDER BY createdAt) is the least `o`.  `ABSENT` is not inserted yet,
  `DELETED` is rolled back or purged.  `token` and `retryOf` are history: they
  say where the item list came from.
* `scope[o]` is the list of issue ids and never changes.  A position in it is an
  *entry*.  Neither `resolveScope` nor preview removes duplicates, so two entries
  may name one issue; TLC runs with such a list.
* `queue[o]` is the Redis list, as the set of entries still in it: it is pushed
  once and then only popped from the left.
* `items[o]` are the report rows of failed, skipped and cancelled entries (the
  processor writes none for successes).
* `applied[o][k]` counts committed changes of entry `k` to its issue, `late[o]`
  those committed after `cancel_requested` was set.
* `preview` are the tokens; `req[r]` and `tick[s]` are the local variables of a
  request and of one `runTickOnce`, with a program counter for the await it is at.
  `lock` is the Redis key `bulk-ops:tick`.

### Bulk operations: actions and code

Requests: `Preview`, `ExpirePreview`; create is `BeginCreate` (key lookup),
`ConsumeToken` (GETDEL and checks), `CheckQuota`, `InsertOp` (or P2002 and
`Refetch`), `PushQueue`, `Rollback`; retry-failed is `BeginRetry`, `ReadRows`,
`LookupRetry` and then create's tail from the quota on; cancel is `BeginCancel`
and `SetCancel`.  `KillRequest` ends any of them.

A tick is `AcquireLock`, `SelectOp`, `StartOp`, `PopBatch`, `ExecuteItem` for each
entry, `CommitBatch`, `Reread`, `Finalize`; or `DrainPop`, `DrainRecord`, `CancelOp`
for a cancelled operation; and `ReleaseLock`.  `TickThrows` is a rejected database
call (the `finally` runs), `KillTick` is kill -9 (it does not), `LockExpires` the
TTL.  `Recover` is `runRecoveryOnce`; `PurgeItems` and `PurgeOp` are
`runRetentionOnce`.

Failures: a Redis command may fail before or after the server ran it (both give
`null` in `shared/redis.ts`); a database call rejects without effect.  All of
them, and kills, count against `MaxFaults`.

### Outbox and consumers: state, actions and code

A message is the number of its row in the order of `created_at`; rows may be
committed in any order (`Publish` is the commit of a caller's transaction).
`relay[w]` is one call of `runOnce`: `Poll` opens the transaction and locks a
batch (FOR UPDATE SKIP LOCKED), `Send` is `sendEnvelope`, `MarkSent` and
`MarkFailed` the updates inside the transaction, `CommitBatch` the COMMIT.
`TxTimeout` is Prisma's transaction timeout: marks and locks go, the worker is
still in its loop and notices at its next mark.  `Cleanup` is `cleanupSentBefore`.

Kafka is external and modelled as the code uses it: per partition a log, a
committed offset and an owner.  `Fetch`, `Handle`, `MarkProcessed` are the three
awaits of a consumer's `eachMessage`: `hasProcessedMessage`, the handler,
`markProcessedOnce`.  `Rebalance` gives a partition away while its former owner
may be in its handler, `KillConsumer` restarts one.  Both begin at the committed
offset or, while the group has none for the partition (`NoOffset`), at the end of
the log: `fromBeginning` is false (`consumer.ts:63`), and a group that exists but has
not committed is no better off than a new one.  A crash in the first handler run of
a partition therefore skips the message, although `event-bus.md:70` calls the bus
at-least-once.  `origin[p]` is history and says where the group began to read; it
moves until the first commit and never after.  What is promised of consumers below
is promised from there on.

A send that rejects may have reached the broker.  `KillRelay` is the death of a
relay, and also a database call of its poll that rejects: the code goes on to
`markFailed`, which the aborted transaction rejects too.  The contents of envelopes are left out, but for a row whose envelope the
schema rejects at each attempt (`Malformed`).

### Releases and checkpoints: state, actions and code

`proc[p]` is one handler: a request with the recompute that follows its response,
or a tick of the scheduler.  `row[c]` is a `release_checkpoints` row, `open[c][i]`
counts its violation events without `resolvedAt`, `audit` is the audit log of the
release.  A record in `proc[p]` carries what the code holds in local variables:
the edge of a transition, the loaded issues (`st`), the copies of the rows, the
evaluated result.

Requests: `OpenTransition`, `CheckItems` (ALL_ITEMS_IN_STATUS_CATEGORY), `Move`
(update guarded by the status read, audit row); `OpenIssue`, `MoveIssue` (by id),
`Resolve`; `OpenItems`, `WriteItems`; `OpenReplan`, `Replan`, `ReadDeadlines`,
`Redate`.  Checkpoints: `OpenApply`, `Upsert`; `OpenRemove`, `Delete`; `OpenSync`,
`Sync`.  A recompute is `Load` and `ReadRows` (issues given by the caller) or
`ReadRowsFirst` and `LoadLast`, then per row `EvaluateRow` or `TtqlFails`,
`UpdateRow` and `Commit`.  The scheduler is `StartTick` (SET NX), `SelectRelease`,
a recompute, and the release of its key; `LockExpires` is the TTL, under a live
tick too.  `Tomorrow` is midnight, `Kill` the death of a process.

The scheduler takes a release only while it is active and planned within
`CHECKPOINTS_EVAL_WINDOW_DAYS` of now, and at most 500 such, in no order
(`checkpoint-scheduler.service.ts:111-123`): `Window`, and `Crowded`, which says that
more match, so that the release may be left out each time.  Outside the window,
and in a crowd, nothing makes up for a recompute that was killed or failed but
another request; `RowsConverge` is about the releases that are watched
(`Watched`).  A checkpoint is a row id: `Checkpoint` are the ids, `TypeOf` their
types.  A removed row is `Gone`; applying its type again makes a row with another id, and a
recompute that still holds the old one throws (P2025) at its update.  In TLC's
instance two requests are too few to remove a checkpoint and apply it again; the
proofs cover that.  A query that never compiles (`INVALID`) or is missing
(`MISSING`) fails at each evaluation, `TtqlFails` is one that fails once.

Abstracted: criteria are a verdict per issue status, the condition of TTQL is the
set of statuses it matches, `violationsHash` is the violation set (the hash is
taken to be injective; issue key and title are not in it).  Offsets are 0, so a
deadline is the planned date, which is always set; every issue has a status
(the loader drops those without).  Two events of one issue and checkpoint with
different reasons are one, as in `reconcileViolationEvents`, which looks at the
issue only.  Webhooks, burndown snapshots, `releaseDate` and response caches are
left out.

### Staging batches: state, actions and code

`batch[b]` is the state of a row, `home[p]` the `staging_batch_id` of a pull
request, `event[e]` a row of `deploy_events` and `run[e]` the GitHub run it was
dispatched for.  `req[r]` is a handler between its accesses to the database.
`BeginTransition`/`WriteTransition` are PATCH state; `BeginDeploy`, `CheckRunning`,
`InsertEvent`, `Dispatch`, `Revert` the two deploy routes; `BeginCancel`,
`WriteCancel`, `BeginCallback`, `WriteCallback` the routes of these names;
`BeginMembers`, `WriteMembers` move pull requests between batches in one statement,
`CollectMerged` opens a sync, and `ConnectNext` its loop, which connects them one at
a time; `FetchRuns` and `SyncRun` are `syncDeployRuns`.  GitHub (`StartRun`, `EndRun`) runs
one workflow per target at a time and may lose a callback.  `RunIdsFit` says that
run ids fit the 32-bit column `workflow_run_id`; they do not today, so that
callbacks and polls are rejected, and both values are covered by the theorem.
`passed` is history.

### Bulk operations: abstractions, and what they hide

* An execute is skip, success, failure without effect or failure with effect.
  `ExecuteAtomic = TRUE` rules the last one out, to separate the questions; in
  `bulk_intake` and `bulk_retry`, and in the theorems, it may happen.
* `LockOutlives = TRUE` says `TICK_LOCK_TTL_S` (90 s) exceeds any live tick, as
  `bulk-operations.processor.ts:54-60` says; the comment at 438-442 admits that a
  long drain may take longer than the 300 s after which recovery resets an operation,
  hence than the lock.  `FALSE` lets the lock go at any time.  Both are checked.
* `Recover` may pick any RUNNING operation, so the heartbeat (300 s) is not
  trusted for anything.
* Settings are constants: a change of the limits while requests run, and the
  60 s cache of settings, are not modelled.
* Redis failures are transient; the `connecting` promise of `redis.ts` that is
  never reset is listed as a hazard only.
* `items[o]` is a set: two rows of one entry *with the same outcome* would be one
  element.  `OneRowPerEntry` therefore also says that an entry in the hands of a
  tick has no row yet, and `CountersMatchLedger` counts.
* Retention acts on finished operations no tick is at work on: 30 and 90 days are
  longer than any tick.  The code deletes report rows by their own `processedAt`,
  one by one, whatever the state of their operation
  (`bulk-operations.processor.ts:526-528`); `PurgeItems` deletes those of an
  operation at once.
* An operation of which every entry was skipped ends PARTIAL, as
  `bulk-operations.processor.ts:392-403` has it ("misleading as SUCCEEDED");
  `docs/tz/TTBULK-1.md:552` says SUCCEEDED whenever none failed, skips allowed.  The
  two disagree, and `FinalStatus` follows the code.  `StatusAgreesWithCounters` takes
  no side: it allows either status when nothing succeeded and nothing failed, so it
  passes without showing that the code does what the document says.
* SSE events, metrics and log lines change no state and are left out.

## Runs

| run | question | bounds |
|---|---|---|
| `bulk_core` | Do work, report, counters and status stay together, and does the operation end, with cancel, kills, lost replies and failed calls? | one operation of three entries over two issues, batches of two, two ticks, two requests, two faults; liveness, so no symmetry |
| `bulk_expiry` | The same entries when the lock expires under a live tick. | as above, one fault |
| `bulk_intake` | Racing creates, duplicates, retries, cancels, with executors that may throw after their commit. | three requests, two keys, two tokens, two operations, one fault |
| `outbox` | Is nothing repeated without cause between a commit and a handler, and, once the group has committed, nothing lost and everything handled? | three messages, one of them malformed, two relays with batches of two, two consumers, two attempts, one fault; liveness |
| `releases` | Do rows, events, audit log and status stay together, and do rows converge while the scheduler watches? | one issue, one checkpoint of mode COMBINED or with a query that does not compile, a window of one day, two handlers, two days, two requests, one kill or failed query; liveness |
| `checkpoint_matrix` | Do the lists the matrix is drawn from converge as well? | one handler at a time, no fault |
| `staging_race` | Is there one running deploy per batch and target? | two handlers, one batch, two deploys |
| `bulk_killed`, `bulk_early_tick`, `bulk_quota`, `bulk_duplicate`, `bulk_retry` | one statement of the documents each, which the code does not keep | the smallest bounds that show it |

Why the bounds are enough to be of interest: three entries in batches of two
give a full and a short batch, so there is a point between batches for cancel,
recovery and another tick; the third entry names the issue of the first; two
faults allow a crash during the recovery from another; two ticks overlap on one
operation.  In `bulk_intake` two keys and two tokens give each combination of
same/other key and token, and a third request can retry or cancel what the first
two made; one fault is an executor that throws after its commit, or a crash.  The theorems below have no bound on users, keys, tokens, issues,
requests, ticks or faults.

What each property says is in the comment above it in `BulkOperations.tla`.
Each has a mutant of the code in `PROJECT.json` that TLC finds to violate it.

`bulk_core` also checks `ImplementsLedger`, the refinement of `BulkLedger`: what
the abstract operation may not do (an entry handled twice, an operation filled
twice, an entry that comes back) no step of the detailed one does.

`outbox`: with three messages and batches of two a batch is full while a row is
left for the other relay, and a malformed row holds a place in it; one fault is
enough for each cause of a repetition, and `DuplicatesNeedFaults` counts them: it
allows no more copies than failures.  Two attempts with one fault let a row fail
once and be sent; a malformed row is given up at the limit, which is why liveness
speaks of the others.

`outbox` also checks `ImplementsDelivery`, the refinement of `EventDelivery`: the
sets of events that are committed, logged, marked sent, handled, marked processed
and passed by the offset only grow, and each draws from the one before.  A
repetition (a second copy, a second run of a handler) is a stutter there;
`DuplicatesNeedFaults` counts them.  An event may be skipped instead, as long as the
group has passed none of its partition: the fault is a crash or a rebalance before
the first commit.  `CommittedIsProcessed` and `EveryEventHandled` are about what lies
behind the point where the group began, or comes after its first commit.

`releases`: two requests, two handlers and the scheduler give each overlap of a
recompute with a write it has not seen; the second day makes a pending checkpoint
a violated one without a request, and a release planned for the first day leave the
scheduler's window.  A second checkpoint makes the instance too
large for liveness; the safety properties are proved for any number.

Deadlock is checked in the runs of bulk operations: whatever has happened, an
instance can still take the lock, find nothing to do and release it.  It is not in
`outbox`, where nothing is left to do once all is published and handled, and in the
runs of `Releases`, where the scheduler ignores a closed release and the bound on
requests is reached.

### What the violation runs show

* `bulk_killed`: LPOP removes a batch before it is executed and the counters are
  committed after it.  A kill in between loses the entries: the operation ends as
  SUCCEEDED with `processed < total`, while TTBULK-1 promises that it resumes.
* `bulk_early_tick`: a tick between INSERT and RPUSH finds an empty list and
  finalizes the operation as PARTIAL; its entries are never handled.
* `bulk_quota`: COUNT, then INSERT: concurrent creates pass the quota.
* `bulk_duplicate`: a duplicate create that overlaps the first is answered 409
  PREVIEW_EXPIRED and not with the operation of its key.
* `bulk_retry`: an executor that throws after its commit leaves a FAILED row, and
  retry-failed makes the change again.

* `checkpoint_matrix`: a row is not written again when its state and violations
  are unchanged, but the lists of applicable and passed issues change without
  either: an issue added to a release and passing at once never appears.
* `staging_race`: a transaction at READ COMMITTED that checks and then inserts
  excludes nobody; two deploys of one batch run.  (With run ids that fit, TLC finds
  a second way with one handler: the poll writes the status it fetched before a
  callback, and a finished deploy is running again.)

### Fairness

`FairSpec` has weak fairness for each step of a tick, the one that takes the lock
included, and for `LockExpires`.  Every live instance schedules `runTickOnce` by
cron, an async function that was started goes on unless its process is killed,
and Redis drops a key at its TTL.  Kills and failures are not fair: they may
happen, `MaxFaults` times.  Requests, recovery and retention need no fairness:
nothing obliges a client to act, and a tick takes RUNNING operations as well as
QUEUED ones.  Without a bound on failures an operation need not end: a Redis
that never answers ends every tick at its first LPOP.

`Outbox`: weak fairness of each relay's and each consumer's steps.  `setInterval`
polls every 500 ms on each instance, a loop that was started goes on unless it is
killed, and kafkajs delivers what is in the log.  Producers, cleanup and the
commit of offsets are not obliged.

`Releases`: weak fairness of the steps of a handler that has begun, of *some*
instance beginning a tick of the scheduler (one that is busy or dead need not), and
of the TTL of its key.  Requests are not obliged, time need not pass.

## Proofs

`BulkOperationsProofs` proves for all values of the constants, under
`StoreAssumption` (the bounds are naturals, batches are not empty, item lists are
no longer than `MaxScope`, and `MaxScope <= MaxDrain`, as 10 000 <= 20 000 in the
code) and `ProcessorAssumption`:

* `TypeCorrect == Spec => []TypeOK`
* `ExecutedAtMostOnce == Spec => []AtMostOnce`
* `ReportedOnce == Spec => []OneRowPerEntry`
* `LedgerInvariant == Spec => []IInv`, from which they follow.

`AtMostOnce` is not inductive: a tick about to execute an entry says nothing of
who else holds that entry.  `IInv` adds *custody*: an entry is in at most one of
the pending list, the hands of one tick, and the past.  An entry in the list is
untouched (`QueueCustody`); one a tick has still to do is untouched, and one it
has done but not committed has no row (`TickCustody`); two ticks never hold the
same entry of one operation (`Exclusive`); an operation that is not pushed yet has
an empty list and untouched entries, and exactly one request may push it
(`FreshEmpty`, `OnePusher`), so that an entry never comes back.  None of it
mentions the lock: the theorems hold with the lock expiring at any time, and the
proof shows that LPOP alone keeps ticks apart.

The proof takes the actions one by one.  Each action's lemma reduces to a few
lemmas about what it touches: nothing of the ledger, only status fields, a pop,
the hands of one tick.  `NextKeepsIInv` assembles them.

`BulkRefinementProofs` proves `Refinement == Spec => ImplementsLedger`: the
initial states map to initial ones and each step to a step of `BulkLedger` or to a
stutter.  The mapping forgets tables, lists, locks and handlers and keeps per
operation its entries and whether it is open; the proof rests on `IInv`, without
which a pop could map to an entry that is handled already.

`BulkIntakeProofs` proves for all values of the constants:

* `TokenSpentOnceTheorem == Spec => []TokenSpentOnce`
* `SameKeySameOpTheorem == Spec => []SameKeySameOp`
* `RetryTheorem == Spec => []RetryRepeatsOnlyFailures`

For the first two the operations made so far say nothing of a request that has
taken a token and not yet inserted.  `TokenCustody` says that a token whose bearer
is between GETDEL and INSERT is gone from Redis, has paid for nothing and has no
other bearer; `KeyCustody` that no two existing operations share owner and key (the
unique index) and that a request answered with 200 or 201 holds an operation of
its own user and key, whether it inserted it or found it after P2002.
`RetryTheorem` has no condition: executors may throw after their commit, which
`bulk_retry` shows to repeat a change.  It says that this is the only way: a retry
repeats at most as many changes as its source counts failures.  An entry that
succeeded, or was lost with a tick that had changed its issue, has no report row and
is never taken over.  `RetryCustody` says that an entry with a row, or with a result
in the hands of a tick, is over: nobody will execute it any more; that its issue was
not changed if it was skipped; that a report never shows more failures than the
operation counts; and that of the entries a retry carries, from the SELECT of the
rows on, no more were changed than its source counts failures, whatever is purged
or rolled back in between.  (Lists that name an issue twice are left out, as a retry
cannot tell the two entries apart.)

`BulkCountersProofs` proves `CountersTheorem == Spec => []CountersMatchLedger`,
without a condition on the lock.  The property relates numbers and is not
inductive: a tick that adds its local counts to a row that another tick has just
changed must add what no one has added.  `CountInv` puts sets behind the numbers:
for each operation the set of results that were counted, and for each tick the
rows it has drained but not counted yet, disjoint from that set and from what other
ticks drained.  A result in the hands of a tick is in no set.  `CommitBatch` and
`CancelOp` then join disjoint sets, whose cardinalities add.

`BulkLockProofs` proves under `LockOutlives`:

* `StatusTheorem`: `Spec => []StatusAgreesWithCounters` (a status the final counters
  bear out, though it was computed from a row read earlier)
* `CancelTheorem`: `Spec => []CancelBoundsWork`
* `TerminalTheorem`: `Spec => TerminalIsFinal`, an action property
* `NothingLostTheorem`: `Spec => []NothingLostWithoutFaults`.

The condition is the comment at `TICK_LOCK_TTL_S` (`bulk-operations.processor.ts`
54-60): 90 s are to be more than the worst batch and the worst drain.  The code does not
renew the lock nor check it before it writes, and writes by id: with the lock
expiring under a live tick TLC finds each of the four violated.  `LockInv` says
that only the holder works, that the row a tick has read is not stale where it
decides by it, and that the operation was not finished under it; `cancelRequested`
is the one field that requests may still change.  For the last theorem `Faultless`
adds an account: until something fails, the entries counted, those in the list and
those in the hands of the one tick at work add up to the total, from RPUSH on; an
operation finished before its RPUSH has handled none.

`OutboxProofs` proves, for any number of messages, relays, consumers, partitions
and faults, under `OutboxAssumption`:

* `SentOnlyIfLogged == Spec => []SentIsLogged`
* `NoOffsetPastUnprocessed == Spec => []CommittedIsProcessed`
* `AttemptsWithinLimit == Spec => []AttemptsBounded`, `OutboxTypeCorrect`.

The first needs that what a relay has sent in its transaction is in the log, the
second that a consumer's position, and not only the committed offset, has nothing
unprocessed between it and the point where the group began to read (`origin`, which
moves to the end of the log at each start until the first commit), the third that rows of two open transactions are disjoint
(SKIP LOCKED) and that a relay counts only rows below the limit.

* `DuplicatesTheorem == Spec => []DuplicatesNeedFaults`
* `DeliveryRefinement == Spec => ImplementsDelivery`.

The first is an account (`AccountsInvariant`): for a message, the copies in the
log, plus the workers that may still add one although their transaction is gone,
plus the copy its row is still due, are at most one more than the failures.  A
timeout, which rolls the marks back under a worker that goes on, pays for what it
makes possible; a send moves one from due, or from loose, to a copy.  The runs of the
handler have the same account, in which a rebalance, a crash or a failed mark
is what pays.  It needs that a copy sits in the partition of its message
and that a partition has one owner.  The refinement maps each action to a step of
`EventDelivery` or a stutter, one lemma per action; it rests on `IInv` and
`StagesOK` (the rows of a relay's batch are committed, the message a consumer holds
is in the log, and one it is about to mark has been handled).

`ReleaseProofs` proves for any number of issues, checkpoints, handlers, requests,
days and faults, under `StoreAssumption`:

* `EventsFollowRows == Spec => []EventsMatchRow`
* `AuditIsComplete == Spec => []AuditChains`, `ReleaseTypeCorrect`.

`EventsMatchRow` is not inductive: between the update of a row and its events they
disagree inside a transaction.  `RowCustody` adds that the transaction in between
is the only one of its row, that the row is still there, and that the open events
are those it found: the UPDATE that comes first locks the row against all others.

`StagingProofs` proves, with no condition, `ReleasedAfterPassed == Spec =>
[]ReleasedWasPassed` and `StagingTypeCorrect`.  A callback sets the state by the
target of the event it finds and not by the state of the batch, so the invariant
says of whatever may lead to RELEASED (a handler that is to write it, a handler or
an event of a production deploy) that its batch has been PASSED.

`RunningDeploysBounded` says what the race of `staging_race` can cost: with any
finite number of handlers, overlapping in any way, and run ids that do not fit (so
that callbacks and the poll write nothing), a batch has at most as many running
deploys per target as there are handlers (`OneDeployPerHandler`).  The invariant
(`Bounded`) counts running deploys together with the handlers that have passed the check and
not yet inserted: a handler joins them only when it found none running, and each
insert takes one away.  With run ids that fit this is false even for one handler, as
the poll brings finished deploys back.  They do not fit today, by accident.

No safety property of a passing run is left without a theorem.  Liveness
(`EventuallyFinished`, `EveryEventHandled`, `RowsConverge`) stays with TLC: fairness
and ENABLED are beyond the prover used here.  What the violation runs state does not
hold, so there is nothing to prove but the conditions under which it would.

## Plan

1. *(done)* `BulkStore`, `BulkIntake`, `BulkProcessor`, `BulkOperations`, runs,
   findings, type correctness and the custody theorems.
2. *(done)* `BulkLedger` and its refinement, checked and proved.
3. *(done)* `Outbox` and its refinement of `EventDelivery`, checked and proved.
4. *(done)* `ReleaseStore`, `ReleaseCheckpoints`, `ReleaseRequests`, `Releases`:
   checkpoints, release and issue transitions, items, dates.
5. *(done)* `StagingBatches` against its callbacks and its poll.
6. *(done)* Proofs of the custody of tokens and keys, retries, counters, what the
   tick lock gives, duplicates of the outbox.  Next: an abstract specification of a
   checkpoint and its events that `Releases` implements; conditions under which the
   statements of the violation runs hold, or what their failure can cost, as in
   `RunningDeploysBounded`.
7. Offsets and cleared planned dates in `Releases`; webhooks with their cap and
   stale previous state.
8. The races of timers, sprints and token rotation: one check-then-write each,
   listed as hazards; worth a module only together with what they race with.

## Not modelled

CRUD modules, administration, authorisation rules, search (a pure compiler from a
query language to SQL), AI and webhook adapters, the MCP tools, the frontend,
seeds, scripts and deployment: they keep no state across awaits, or only read.
They are most of the repository's lines; a model of them would restate single
statements.

Of modelled components: webhooks and burndown snapshots of checkpoints; conditions
of release transitions other than the one on items; creating, cloning and deleting
releases; validators, screens and post-functions of issue transitions; snapshots of
open pull requests.  `docs/architecture/event-bus.md` says that `processed_messages`
gives one successful handler run per group and message; the handler is outside that
transaction and may run again, which `DuplicatesNeedFaults` bounds by the failures.
The same paragraph's "at-least-once" does not hold before a group's first commit on
a partition; see the section on the outbox.

## Running

    tlc -workers 2 -config BulkCore.cfg MCBulkOperations
    tlc -workers 2 -config Outbox.cfg MCOutbox
    tlc -workers 2 -config Releases.cfg MCReleases
    tlc -workers 2 -config Staging.cfg StagingBatches
    tlapm BulkOperationsProofs.tla

The passing runs take between one and three minutes each, the proofs of each
module a few minutes.
