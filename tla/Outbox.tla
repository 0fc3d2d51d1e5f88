-------------------------------- MODULE Outbox --------------------------------
(***************************************************************************)
(* The transactional outbox (shared/outbox) and the consumers of the event *)
(* bus (shared/eventbus).  Producers insert rows of event_outbox inside    *)
(* their own transaction; relay workers publish them to Kafka and mark     *)
(* them in one transaction per batch; the consumers of a group handle the  *)
(* records and remember them in processed_messages.                        *)
(*                                                                         *)
(* A message is the number of its row in the order of created_at, which is *)
(* not the order of commits.  Kafka is external: per partition a log, the  *)
(* offset the group has committed, if any, and the consumer it assigned.   *)
(***************************************************************************)
EXTENDS Naturals, Sequences, FiniteSets

CONSTANTS
    MaxMsgs,      \* bound: messages ever published
    Malformed,    \* messages whose envelope eventEnvelopeSchema rejects
    Relay,        \* relay processes
    Consumer,     \* consumers of one group
    Partition,    \* partitions of the topic
    PartOf,       \* the partition Kafka chooses for a messageId
    BatchSize,    \* OUTBOX_RELAY_BATCH_SIZE
    MaxAttempts,  \* OUTBOX_RELAY_MAX_ATTEMPTS
    NoOffset,     \* the group has not committed an offset yet
    MaxFaults     \* bound: crashes, timeouts, failed calls and rebalances

Msg == 1..MaxMsgs

ASSUME OutboxAssumption ==
    /\ {MaxMsgs, MaxFaults} \subseteq Nat
    /\ {BatchSize, MaxAttempts} \subseteq Nat \ {0}
    /\ Malformed \subseteq Msg
    /\ PartOf \in [Msg -> Partition]
    /\ Consumer # {}
    /\ NoOffset \notin Nat

VARIABLES
    row,        \* event_outbox: is sent_at set, is the row gone
    attempts,   \* event_outbox.attempts
    relay,      \* the batch each relay works on
    log,        \* the records of each partition
    offset,     \* the offset the group has committed, or NoOffset
    origin,     \* history: where the group last began to read without an offset
    owner,      \* the consumer each partition is assigned to
    pos,        \* the next record each consumer fetches
    consumer,   \* what each consumer is doing
    processed,  \* processed_messages of the group
    runs,       \* history: successful runs of the handler, per message
    faults

relayVars == <<row, attempts, relay>>
groupVars == <<offset, origin, owner, pos, consumer, processed, runs>>
vars == <<relayVars, log, groupVars, faults>>

\* batch: rows locked by the transaction; todo: of those, not worked on yet;
\* sent, failed: marks of the transaction; open: it was not rolled back.
RelayState == [pc : {"idle", "send", "mark", "fail"}, open : BOOLEAN,
               batch : SUBSET Msg, todo : SUBSET Msg,
               sent : SUBSET Msg, failed : SUBSET Msg]

IdleRelay == [pc |-> "idle", open |-> FALSE, batch |-> {}, todo |-> {},
              sent |-> {}, failed |-> {}]

\* A row of a batch is still to do, or marked sent, or marked failed.
BatchOK(r) ==
    /\ r.batch = r.todo \cup r.sent \cup r.failed
    /\ r.todo \cap (r.sent \cup r.failed) = {} /\ r.sent \cap r.failed = {}

IdleConsumer == [pc |-> "idle", msg |-> 0]

ConsumerState == {IdleConsumer} \cup [pc : {"handle", "mark"}, msg : Msg]

TypeOK ==
    /\ row \in [Msg -> {"absent", "pending", "sent", "purged"}]
    /\ attempts \in [Msg -> Nat]
    /\ relay \in [Relay -> RelayState] /\ \A w \in Relay : BatchOK(relay[w])
    /\ log \in [Partition -> Seq(Msg)]
    /\ offset \in [Partition -> Nat \cup {NoOffset}]
    /\ origin \in [Partition -> Nat]
    /\ owner \in [Partition -> Consumer]
    /\ pos \in [Consumer -> [Partition -> Nat]]
    /\ consumer \in [Consumer -> ConsumerState]
    /\ processed \subseteq Msg
    /\ runs \in [Msg -> Nat]
    /\ faults \in 0..MaxFaults

Init ==
    /\ row       = [m \in Msg |-> "absent"]
    /\ attempts  = [m \in Msg |-> 0]
    /\ relay     = [w \in Relay |-> IdleRelay]
    /\ log       = [p \in Partition |-> << >>]
    /\ offset    = [p \in Partition |-> NoOffset]
    /\ origin    = [p \in Partition |-> 0]
    \* Which consumer Kafka begins with does not matter: they are alike.
    /\ owner     = [p \in Partition |-> CHOOSE c \in Consumer : TRUE]
    /\ pos       = [c \in Consumer |-> [p \in Partition |-> 0]]
    /\ consumer  = [c \in Consumer |-> IdleConsumer]
    /\ processed = {}
    /\ runs      = [m \in Msg |-> 0]
    /\ faults    = 0

Fault == faults < MaxFaults /\ faults' = faults + 1

-----------------------------------------------------------------------------
(* Producers and relays.                                                    *)

\* publishInTx, as its caller's transaction commits.
Publish(m) ==
    /\ row[m] = "absent"
    /\ row' = [row EXCEPT ![m] = "pending"]
    /\ UNCHANGED <<attempts, relay, log, groupVars, faults>>

\* Rows locked by an open transaction.  Mutant: SELECT without FOR UPDATE.
NoRowLocks == {}
Locked == UNION {relay[v].batch : v \in {u \in Relay : relay[u].open}}

\* WHERE sent_at IS NULL AND attempts < maxAttempts.  Mutant: off by one.
OneAttemptLess == {m \in Msg : row[m] = "pending" /\ attempts[m] + 1 < MaxAttempts}
Unsent == {m \in Msg : row[m] = "pending" /\ attempts[m] < MaxAttempts}

\* SKIP LOCKED.
Available == Unsent \ Locked

\* ORDER BY created_at LIMIT batchSize.
Oldest(S, n) == {m \in S : Cardinality({k \in S : k < m}) < n}

\* A tick of the relay opens the transaction and locks a batch; `running`
\* keeps a worker from a second one.
Poll(w) ==
    /\ relay[w].pc = "idle" /\ Available # {}
    /\ LET batch == Oldest(Available, BatchSize) IN
       relay' = [relay EXCEPT ![w] =
         [IdleRelay EXCEPT !.pc = "send", !.open = TRUE,
                           !.batch = batch, !.todo = batch]]
    /\ UNCHANGED <<row, attempts, log, groupVars, faults>>

\* The row the loop of runOnce is at.
Current(w, m) == m \in relay[w].todo /\ \A k \in relay[w].todo : m <= k

Record(m) == log' = [log EXCEPT ![PartOf[m]] = Append(@, m)]

\* sendEnvelope.  A send that rejects may have reached the broker.
Send(w) ==
    /\ relay[w].pc = "send"
    /\ \E m \in Msg :
         /\ Current(w, m)
         /\ \/ /\ m \in Malformed
               /\ relay' = [relay EXCEPT ![w].pc = "fail"]
               /\ UNCHANGED <<log, faults>>
            \/ /\ m \notin Malformed
               /\ Record(m)
               /\ relay' = [relay EXCEPT ![w].pc = "mark"]
               /\ UNCHANGED faults
            \/ /\ m \notin Malformed
               /\ Fault
               /\ Record(m) \/ UNCHANGED log
               /\ relay' = [relay EXCEPT ![w].pc = "fail"]
    /\ UNCHANGED <<row, attempts, groupVars>>

\* markSent, inside the transaction; when that was rolled back the call
\* rejects, so does markFailed after it, and runOnce ends.
MarkSent(w) ==
    /\ relay[w].pc = "mark"
    /\ \/ /\ relay[w].open
          /\ \E m \in Msg :
               /\ Current(w, m)
               /\ relay' = [relay EXCEPT ![w].pc = "send", ![w].todo = @ \ {m},
                                         ![w].sent = @ \cup {m}]
       \/ /\ ~relay[w].open
          /\ relay' = [relay EXCEPT ![w] = IdleRelay]
    /\ UNCHANGED <<row, attempts, log, groupVars, faults>>

\* What markFailed leaves in the transaction.  Mutants: it marks the row sent; the
\* loop does not go on to the next row.
FailedStays(r, m)  == [r EXCEPT !.pc = "send", !.failed = @ \cup {m}]
FailedAsSent(r, m) == [r EXCEPT !.pc = "send", !.todo = @ \ {m},
                                !.sent = @ \cup {m}]
FailedOnce(r, m)   == [r EXCEPT !.pc = "send", !.todo = @ \ {m},
                                !.failed = @ \cup {m}]

MarkFailed(w) ==
    /\ relay[w].pc = "fail"
    /\ \/ /\ relay[w].open
          /\ \E m \in Msg :
               /\ Current(w, m)
               /\ relay' = [relay EXCEPT ![w] = FailedOnce(@, m)]
       \/ /\ ~relay[w].open
          /\ relay' = [relay EXCEPT ![w] = IdleRelay]
    /\ UNCHANGED <<row, attempts, log, groupVars, faults>>

CountAttempts(r) == [m \in Msg |-> IF m \in r.failed THEN attempts[m] + 1 ELSE attempts[m]]

\* The loop is done: COMMIT, which a rolled-back transaction rejects.
CommitBatch(w) ==
    /\ relay[w].pc = "send" /\ relay[w].todo = {}
    /\ relay' = [relay EXCEPT ![w] = IdleRelay]
    /\ IF relay[w].open
       THEN /\ row' = [m \in Msg |-> IF m \in relay[w].sent THEN "sent" ELSE row[m]]
            /\ attempts' = CountAttempts(relay[w])
       ELSE UNCHANGED <<row, attempts>>
    /\ UNCHANGED <<log, groupVars, faults>>

\* OUTBOX_RELAY_TRANSACTION_TIMEOUT_MS: Postgres rolls back and unlocks while
\* the worker is still in its loop.
TxTimeout(w) ==
    /\ relay[w].open
    /\ Fault
    /\ relay' = [relay EXCEPT ![w].open = FALSE]
    /\ UNCHANGED <<row, attempts, log, groupVars>>

\* The process dies, or a database call of the transaction rejects: Postgres has
\* aborted the transaction then, and the markFailed that follows rejects as well.
KillRelay(w) ==
    /\ relay[w].pc # "idle"
    /\ Fault
    /\ relay' = [relay EXCEPT ![w] = IdleRelay]
    /\ UNCHANGED <<row, attempts, log, groupVars>>

\* cleanupSentBefore: rows sent long enough ago.
Cleanup(S) ==
    /\ S # {} /\ \A m \in S : row[m] = "sent"
    /\ row' = [m \in Msg |-> IF m \in S THEN "purged" ELSE row[m]]
    /\ UNCHANGED <<attempts, relay, log, groupVars, faults>>

-----------------------------------------------------------------------------
(* Consumers.                                                               *)

\* A record is next for a consumer; hasProcessedMessage skips it or lets the
\* handler run.
NotProcessed(m) == m \notin processed

Fetch(c, p) ==
    /\ consumer[c].pc = "idle" /\ owner[p] = c
    /\ pos[c][p] < Len(log[p])
    /\ LET m == log[p][pos[c][p] + 1] IN
       IF NotProcessed(m)
       THEN /\ consumer' = [consumer EXCEPT ![c] = [pc |-> "handle", msg |-> m]]
            /\ UNCHANGED pos
       ELSE /\ pos' = [pos EXCEPT ![c][p] = @ + 1]
            /\ UNCHANGED consumer
    /\ UNCHANGED <<relayVars, log, offset, origin, owner, processed, runs, faults>>

\* What the consumer fetches after the handler threw.  Mutant: the next record.
SkipOnThrow(c, p) == [pos EXCEPT ![c][p] = @ + 1]
PosAfterThrow(c, p) == pos

\* A handler that throws ends processKafkaMessage.  Mutant: the error is caught,
\* and the message marked processed.
ThrowIgnored(c) == [consumer[c] EXCEPT !.pc = "mark"]
AfterThrow(c) == IdleConsumer

\* The handler resolves, or throws, and kafkajs delivers the record again.
Handle(c) ==
    /\ consumer[c].pc = "handle"
    /\ \/ /\ runs' = [runs EXCEPT ![consumer[c].msg] = @ + 1]
          /\ consumer' = [consumer EXCEPT ![c].pc = "mark"]
          /\ UNCHANGED <<pos, faults>>
       \/ /\ Fault
          /\ consumer' = [consumer EXCEPT ![c] = AfterThrow(c)]
          /\ pos' = PosAfterThrow(c, PartOf[consumer[c].msg])
          /\ UNCHANGED runs
    /\ UNCHANGED <<relayVars, log, offset, origin, owner, processed>>

\* markProcessedOnce (a duplicate key is no error), then the record is
\* resolved, if the partition is still the consumer's; or the INSERT rejects.
MarkProcessed(c) ==
    /\ consumer[c].pc = "mark"
    /\ LET m == consumer[c].msg
           p == PartOf[m] IN
       \/ /\ processed' = processed \cup {m}
          /\ pos' = IF owner[p] = c /\ pos[c][p] < Len(log[p])
                                    /\ log[p][pos[c][p] + 1] = m
                    THEN [pos EXCEPT ![c][p] = @ + 1] ELSE pos
          /\ UNCHANGED faults
       \/ Fault /\ UNCHANGED <<processed, pos>>
    /\ consumer' = [consumer EXCEPT ![c] = IdleConsumer]
    /\ UNCHANGED <<relayVars, log, offset, origin, owner, runs>>

\* Up to where the group is through with a partition.
Through(p) == IF offset[p] = NoOffset THEN origin[p] ELSE offset[p]

\* kafkajs commits the resolved offset, if a record was resolved since; the
\* broker fences former owners.
CommitOffset(c, p) ==
    /\ owner[p] = c /\ pos[c][p] > Through(p)
    /\ offset' = [offset EXCEPT ![p] = pos[c][p]]
    /\ UNCHANGED <<relayVars, log, origin, owner, pos, consumer, processed, runs, faults>>

\* Where a consumer starts a partition, with fromBeginning = FALSE: at the
\* committed offset, and at the end of the log as long as there is none.
\* Mutant: always at the end.
StartAtLatest(p) == Len(log[p])
StartPos(p) == IF offset[p] = NoOffset THEN Len(log[p]) ELSE offset[p]

Begin(c, P) ==
    /\ pos' = [pos EXCEPT ![c] = [p \in Partition |-> IF p \in P THEN StartPos(p) ELSE @[p]]]
    /\ origin' = [p \in Partition |-> IF p \in P /\ offset[p] = NoOffset
                                      THEN Len(log[p]) ELSE origin[p]]

\* The group rebalances: the new owner starts anew, the former one may still be
\* in its handler.
Rebalance(c, p) ==
    /\ owner[p] # c
    /\ Fault
    /\ owner' = [owner EXCEPT ![p] = c]
    /\ Begin(c, {p})
    /\ UNCHANGED <<relayVars, log, offset, consumer, processed, runs>>

\* A consumer dies and comes back; kafkajs also restarts one whose handler keeps
\* throwing.
KillConsumer(c) ==
    /\ Fault
    /\ consumer' = [consumer EXCEPT ![c] = IdleConsumer]
    /\ Begin(c, {p \in Partition : owner[p] = c})
    /\ UNCHANGED <<relayVars, log, offset, owner, processed, runs>>

-----------------------------------------------------------------------------
RelayStep(w) == Poll(w) \/ Send(w) \/ MarkSent(w) \/ MarkFailed(w) \/ CommitBatch(w)
ConsumerStep(c) == \/ \E p \in Partition : Fetch(c, p)
                   \/ Handle(c) \/ MarkProcessed(c)

Next ==
    \/ \E m \in Msg : Publish(m)
    \/ \E S \in SUBSET Msg : Cleanup(S)
    \/ \E w \in Relay :
         \/ Poll(w) \/ Send(w) \/ MarkSent(w) \/ MarkFailed(w) \/ CommitBatch(w)
         \/ TxTimeout(w) \/ KillRelay(w)
    \/ \E c \in Consumer :
         \/ \E p \in Partition : Fetch(c, p) \/ CommitOffset(c, p) \/ Rebalance(c, p)
         \/ Handle(c) \/ MarkProcessed(c) \/ KillConsumer(c)

Spec == Init /\ [][Next]_vars

\* setInterval polls every 500 ms, a loop that was started goes on unless it
\* is killed, and kafkajs delivers what is in the log.
Fairness == /\ \A w \in Relay : WF_vars(RelayStep(w))
            /\ \A c \in Consumer : WF_vars(ConsumerStep(c))

FairSpec == Spec /\ Fairness

-----------------------------------------------------------------------------
(* Properties.                                                              *)

Logged == UNION {{log[p][i] : i \in DOMAIN log[p]} : p \in Partition}
Copies(m) == Cardinality({i \in DOMAIN log[PartOf[m]] : log[PartOf[m]][i] = m})

\* sent_at is set, and later the row deleted, only when Kafka has the message:
\* not after a failed send, not by a batch that was rolled back.
SentIsLogged == \A m \in Msg : row[m] \in {"sent", "purged"} => m \in Logged

\* Behind the point where the group began to read, no offset is ever committed
\* past a message that is not processed, through crashes and rebalances in the
\* middle of a handler.  That point moves, and leaves messages out, only as long as
\* the group has not committed.
CommittedIsProcessed ==
    \A p \in Partition :
      /\ origin[p] <= Through(p) /\ Through(p) <= Len(log[p])
      /\ \A i \in origin[p] + 1 .. Through(p) : log[p][i] \in processed

\* A message is published and handled once, and once more per failure at most:
\* overlapping relays, a timed-out transaction and two copies in the log add
\* nothing to that.
DuplicatesNeedFaults ==
    \A m \in Msg : Copies(m) <= 1 + faults /\ runs[m] <= 1 + faults

\* Two relays never count one failure limit twice: a row is tried and marked
\* failed at most MaxAttempts times.
AttemptsBounded == \A m \in Msg : attempts[m] <= MaxAttempts

\* The stages an event has reached, read off the tables, the log and the offsets.
Committed == {m \in Msg : row[m] # "absent"}
Settled   == {m \in Msg : row[m] \in {"sent", "purged"}}
Ran       == {m \in Msg : runs[m] > 0}
Passed    == UNION {{log[p][i] : i \in origin[p] + 1 .. Through(p)} : p \in Partition}
Skipped   == UNION {{log[p][i] : i \in 1..origin[p]} : p \in Partition}

Delivery == INSTANCE EventDelivery WITH
    Event <- Msg, Stream <- PartOf, committed <- Committed, logged <- Logged,
    settled <- Settled, handled <- Ran, processed <- processed, passed <- Passed,
    skipped <- Skipped

\* Delivery at least once from the first commit on: every step, also of a worker or
\* a handler that was overtaken, moves messages one stage on, no message leaves out
\* a stage, and none is skipped once the group has passed one of its partition.
ImplementsDelivery == Delivery!Spec

\* What the group, having committed on a partition, will be given from it.
Awaited(m) ==
    LET p == PartOf[m] IN
    /\ offset[p] # NoOffset
    /\ \/ row[m] = "pending" /\ m \notin Logged
       \/ \E i \in DOMAIN log[p] : i > offset[p] /\ log[p][i] = m

\* Every message of a committed transaction is handled in the end, as long as
\* there are fewer failures than MaxAttempts, although some rows of its batch
\* never can be sent.  Before the group has committed on its partition that is
\* not so: a consumer that dies then starts behind the message.
EveryEventHandled == \A m \in Msg \ Malformed : Awaited(m) ~> m \in processed
=============================================================================
