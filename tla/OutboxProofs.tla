----------------------------- MODULE OutboxProofs -----------------------------
(***************************************************************************)
(* Proofs about Outbox, for any number of messages, relays, consumers,     *)
(* partitions and failures: types, no row is marked sent that Kafka does   *)
(* not have, from where the group began to read no offset is committed     *)
(* past a message not processed, no row is tried more often than           *)
(* MaxAttempts, no message is published or handled twice without a         *)
(* failure, and Outbox implements EventDelivery.                           *)
(***************************************************************************)
EXTENDS Outbox, FiniteSetTheorems, TLAPS

\* What an open transaction will mark as sent is in the log already, the row
\* just published included.
MarksAreLogged ==
    \A w \in Relay :
      /\ relay[w].sent \subseteq Logged
      /\ relay[w].pc = "mark" => \A m \in relay[w].todo : Current(w, m) => m \in Logged

\* The rows of an open transaction are pending, may be tried once more, and are
\* in no other open transaction.
LocksAreExclusive ==
    \A w \in Relay : relay[w].open =>
      /\ \A m \in relay[w].batch : row[m] = "pending" /\ attempts[m] < MaxAttempts
      /\ \A v \in Relay \ {w} : relay[v].open => relay[v].batch \cap relay[w].batch = {}

\* The first n records of a partition exist, and are processed from where the
\* group began to read.
PrefixDone(p, n) ==
    n <= Len(log[p]) /\ \A i \in origin[p] + 1 .. n : log[p][i] \in processed

\* Both the position of a consumer and the committed offset are such a prefix.
PositionsAreProcessed ==
    \A p \in Partition : /\ origin[p] <= Through(p) /\ PrefixDone(p, Through(p))
                         /\ \A c \in Consumer : PrefixDone(p, pos[c][p])

IInv == /\ TypeOK /\ SentIsLogged /\ AttemptsBounded
        /\ MarksAreLogged /\ LocksAreExclusive /\ PositionsAreProcessed

-----------------------------------------------------------------------------
(* Types.                                                                   *)

LEMMA IdleRelayType == IdleRelay \in RelayState /\ BatchOK(IdleRelay)
BY DEF IdleRelay, RelayState, BatchOK

LEMMA InitType == Init => TypeOK
<1>. SUFFICES ASSUME Init PROVE TypeOK  OBVIOUS
<1>. USE OutboxAssumption DEF Init
<1>1. (CHOOSE c \in Consumer : TRUE) \in Consumer  OBVIOUS
<1>2. relay \in [Relay -> RelayState] /\ \A w \in Relay : BatchOK(relay[w])
  BY IdleRelayType
<1>3. consumer \in [Consumer -> ConsumerState]
  BY DEF ConsumerState
<1>. QED  BY <1>1, <1>2, <1>3 DEF TypeOK, Msg

\* The relays change their rows and, in Send, the log.
RelayTypes == /\ row \in [Msg -> {"absent", "pending", "sent", "purged"}]
              /\ attempts \in [Msg -> Nat]
              /\ relay \in [Relay -> RelayState] /\ \A w \in Relay : BatchOK(relay[w])

GroupTypes == /\ offset \in [Partition -> Nat \cup {NoOffset}]
              /\ origin \in [Partition -> Nat]
              /\ owner \in [Partition -> Consumer]
              /\ pos \in [Consumer -> [Partition -> Nat]]
              /\ consumer \in [Consumer -> ConsumerState]
              /\ processed \subseteq Msg
              /\ runs \in [Msg -> Nat]

LogType == log \in [Partition -> Seq(Msg)]

LEMMA TypeParts == TypeOK <=> RelayTypes /\ GroupTypes /\ LogType /\ faults \in 0..MaxFaults
BY DEF TypeOK, RelayTypes, GroupTypes, LogType

LEMMA SetRelayType ==
  ASSUME RelayTypes, NEW w \in Relay, NEW r \in RelayState, BatchOK(r),
         relay' = [relay EXCEPT ![w] = r]
  PROVE  relay' \in [Relay -> RelayState] /\ \A v \in Relay : BatchOK(relay'[v])
BY DEF RelayTypes

\* One lemma for what a relay's row of local variables can become.
LEMMA NextOfBatch ==
  ASSUME NEW r \in RelayState, BatchOK(r), NEW m \in r.todo
  PROVE  /\ [r EXCEPT !.pc = "fail"] \in RelayState /\ BatchOK([r EXCEPT !.pc = "fail"])
         /\ [r EXCEPT !.pc = "mark"] \in RelayState /\ BatchOK([r EXCEPT !.pc = "mark"])
         /\ LET s == [r EXCEPT !.pc = "send", !.todo = @ \ {m}, !.sent = @ \cup {m}]
            IN  s \in RelayState /\ BatchOK(s)
         /\ FailedOnce(r, m) \in RelayState /\ BatchOK(FailedOnce(r, m))
BY DEF RelayState, BatchOK, FailedOnce

LEMMA RecordType ==
  ASSUME LogType, NEW m \in Msg, Record(m)
  PROVE  LogType'
BY OutboxAssumption DEF LogType, Record

LEMMA FaultType ==
  ASSUME faults \in 0..MaxFaults, Fault
  PROVE  faults' \in 0..MaxFaults
BY OutboxAssumption DEF Fault

\* A consumer moves in one partition.
LEMMA SetPosType ==
  ASSUME NEW c \in Consumer, NEW p \in Partition, NEW n \in Nat,
         NEW P \in [Consumer -> [Partition -> Nat]]
  PROVE  [P EXCEPT ![c][p] = n] \in [Consumer -> [Partition -> Nat]]
<1>1. [P[c] EXCEPT ![p] = n] \in [Partition -> Nat]  OBVIOUS
<1>. QED  BY <1>1

\* What a consumer that starts anew does to positions.
LEMMA BeginTypes ==
  ASSUME GroupTypes, LogType, NEW c \in Consumer, NEW P \in SUBSET Partition, Begin(c, P)
  PROVE  pos' \in [Consumer -> [Partition -> Nat]] /\ origin' \in [Partition -> Nat]
<1>1. \A p \in Partition : Len(log[p]) \in Nat  BY DEF LogType
<1>2. \A p \in Partition : StartPos(p) \in Nat  BY <1>1 DEF StartPos, GroupTypes
<1>. QED  BY <1>1, <1>2 DEF Begin, GroupTypes

LEMMA TypeStep == TypeOK /\ [Next]_vars => TypeOK'
<1>. SUFFICES ASSUME TypeOK, [Next]_vars
              PROVE  RelayTypes' /\ GroupTypes' /\ LogType' /\ (faults \in 0..MaxFaults)'
  BY DEF TypeOK, RelayTypes, GroupTypes, LogType
<1>t. RelayTypes /\ GroupTypes /\ LogType /\ faults \in 0..MaxFaults
  BY TypeParts
<1>0. CASE UNCHANGED vars
  BY <1>0, <1>t DEF vars, relayVars, groupVars, RelayTypes, GroupTypes, LogType, BatchOK
<1>1. ASSUME NEW m \in Msg, Publish(m) PROVE RelayTypes' /\ GroupTypes' /\ LogType' /\ (faults \in 0..MaxFaults)'
  BY <1>1, <1>t DEF Publish, groupVars, RelayTypes, GroupTypes, LogType, BatchOK
<1>2. ASSUME NEW S \in SUBSET Msg, Cleanup(S) PROVE RelayTypes' /\ GroupTypes' /\ LogType' /\ (faults \in 0..MaxFaults)'
  BY <1>2, <1>t DEF Cleanup, groupVars, RelayTypes, GroupTypes, LogType, BatchOK
<1>3. ASSUME NEW w \in Relay, Poll(w) PROVE RelayTypes' /\ GroupTypes' /\ LogType' /\ (faults \in 0..MaxFaults)'
  <2>1. PICK r \in RelayState : BatchOK(r) /\ relay' = [relay EXCEPT ![w] = r]
    <3>. DEFINE b == Oldest(Available, BatchSize)
                r == [IdleRelay EXCEPT !.pc = "send", !.open = TRUE, !.batch = b, !.todo = b]
    <3>1. b \subseteq Msg  BY DEF Oldest, Available, Unsent
    <3>2. r \in RelayState /\ BatchOK(r)  BY <3>1 DEF RelayState, BatchOK, IdleRelay
    <3>3. relay' = [relay EXCEPT ![w] = r]  BY <1>3 DEF Poll
    <3>. QED  BY <3>2, <3>3
  <2>2. relay' \in [Relay -> RelayState] /\ \A v \in Relay : BatchOK(relay'[v])
    BY <2>1, <1>t, SetRelayType
  <2>. QED  BY <1>3, <1>t, <2>2 DEF Poll, groupVars, RelayTypes, GroupTypes, LogType, BatchOK
<1>4. ASSUME NEW w \in Relay, Send(w) PROVE RelayTypes' /\ GroupTypes' /\ LogType' /\ (faults \in 0..MaxFaults)'
  <2>1. relay[w] \in RelayState /\ BatchOK(relay[w])  BY <1>t DEF RelayTypes
  <2>2. PICK m \in relay[w].todo :
          /\ m \in Msg
          /\ \/ relay' = [relay EXCEPT ![w].pc = "fail"]
             \/ relay' = [relay EXCEPT ![w].pc = "mark"]
          /\ Record(m) \/ UNCHANGED log
    BY <1>4 DEF Send, Current
  <2>3. PICK r \in RelayState : BatchOK(r) /\ relay' = [relay EXCEPT ![w] = r]
    BY <2>1, <2>2, NextOfBatch
  <2>4. relay' \in [Relay -> RelayState] /\ \A v \in Relay : BatchOK(relay'[v])
    BY <2>3, <1>t, SetRelayType
  <2>5. LogType'  BY <2>2, <1>t, RecordType DEF LogType
  <2>6. faults' \in 0..MaxFaults  BY <1>4, <1>t, FaultType DEF Send
  <2>. QED  BY <1>4, <1>t, <2>4, <2>5, <2>6 DEF Send, groupVars, RelayTypes, GroupTypes, BatchOK
<1>5. ASSUME NEW w \in Relay, MarkSent(w) \/ MarkFailed(w) PROVE RelayTypes' /\ GroupTypes' /\ LogType' /\ (faults \in 0..MaxFaults)'
  <2>1. relay[w] \in RelayState /\ BatchOK(relay[w])  BY <1>t DEF RelayTypes
  <2>. DEFINE Sent(m) == [relay[w] EXCEPT !.pc = "send", !.todo = @ \ {m},
                                          !.sent = @ \cup {m}]
  <2>2. \/ relay' = [relay EXCEPT ![w] = IdleRelay]
        \/ \E m \in relay[w].todo : \/ relay' = [relay EXCEPT ![w] = Sent(m)]
                                    \/ relay' = [relay EXCEPT ![w] = FailedOnce(relay[w], m)]
    <3>1. CASE MarkSent(w) /\ relay[w].open
      <4>1. PICK m \in Msg : /\ Current(w, m)
                             /\ relay' = [relay EXCEPT ![w].pc = "send", ![w].todo = @ \ {m},
                                                       ![w].sent = @ \cup {m}]
        BY <3>1 DEF MarkSent
      <4>2. relay' = [relay EXCEPT ![w] = Sent(m)]
        BY <4>1, <2>1, <1>t DEF RelayTypes, RelayState
      <4>. QED  BY <4>1, <4>2 DEF Current
    <3>2. CASE MarkFailed(w) /\ relay[w].open
      BY <3>2 DEF MarkFailed, Current
    <3>. QED  BY <1>5, <3>1, <3>2 DEF MarkSent, MarkFailed
  <2>3. PICK r \in RelayState : BatchOK(r) /\ relay' = [relay EXCEPT ![w] = r]
    <3>1. \A m \in relay[w].todo : Sent(m) \in RelayState /\ BatchOK(Sent(m))
      BY <2>1, NextOfBatch
    <3>2. \A m \in relay[w].todo : /\ FailedOnce(relay[w], m) \in RelayState
                                   /\ BatchOK(FailedOnce(relay[w], m))
      BY <2>1, NextOfBatch
    <3>. QED  BY <2>2, <3>1, <3>2, IdleRelayType
  <2>4. relay' \in [Relay -> RelayState] /\ \A v \in Relay : BatchOK(relay'[v])
    BY <2>3, <1>t, SetRelayType
  <2>. QED  BY <1>5, <1>t, <2>4 DEF MarkSent, MarkFailed, groupVars, RelayTypes, GroupTypes, LogType, BatchOK
<1>6. ASSUME NEW w \in Relay, CommitBatch(w) PROVE RelayTypes' /\ GroupTypes' /\ LogType' /\ (faults \in 0..MaxFaults)'
  <2>1. relay' \in [Relay -> RelayState] /\ \A v \in Relay : BatchOK(relay'[v])
    BY <1>6, <1>t, SetRelayType, IdleRelayType DEF CommitBatch
  <2>2. /\ row' \in [Msg -> {"absent", "pending", "sent", "purged"}]
        /\ attempts' \in [Msg -> Nat]
    BY <1>6, <1>t DEF CommitBatch, CountAttempts, RelayTypes
  <2>. QED  BY <1>6, <1>t, <2>1, <2>2 DEF CommitBatch, groupVars, RelayTypes, GroupTypes, LogType, BatchOK
<1>7. ASSUME NEW w \in Relay, TxTimeout(w) PROVE RelayTypes' /\ GroupTypes' /\ LogType' /\ (faults \in 0..MaxFaults)'
  <2>1. relay' \in [Relay -> RelayState] /\ \A v \in Relay : BatchOK(relay'[v])
    <3>1. relay' = [relay EXCEPT ![w] = [relay[w] EXCEPT !.open = FALSE]]
      BY <1>7, <1>t DEF TxTimeout, RelayTypes
    <3>2. relay[w] \in RelayState /\ BatchOK(relay[w])  BY <1>t DEF RelayTypes
    <3>3. /\ [relay[w] EXCEPT !.open = FALSE] \in RelayState
          /\ BatchOK([relay[w] EXCEPT !.open = FALSE])
      BY <3>2 DEF RelayState, BatchOK
    <3>. QED  BY <3>1, <3>3, <1>t, SetRelayType
  <2>2. faults' \in 0..MaxFaults  BY <1>7, <1>t, FaultType DEF TxTimeout
  <2>. QED  BY <1>7, <1>t, <2>1, <2>2 DEF TxTimeout, groupVars, RelayTypes, GroupTypes, LogType, BatchOK
<1>8. ASSUME NEW w \in Relay, KillRelay(w) PROVE RelayTypes' /\ GroupTypes' /\ LogType' /\ (faults \in 0..MaxFaults)'
  <2>1. relay' \in [Relay -> RelayState] /\ \A v \in Relay : BatchOK(relay'[v])
    BY <1>8, <1>t, SetRelayType, IdleRelayType DEF KillRelay
  <2>2. faults' \in 0..MaxFaults  BY <1>8, <1>t, FaultType DEF KillRelay
  <2>. QED  BY <1>8, <1>t, <2>1, <2>2 DEF KillRelay, groupVars, RelayTypes, GroupTypes, LogType, BatchOK
<1>9. ASSUME NEW c \in Consumer, NEW p \in Partition, Fetch(c, p) PROVE RelayTypes' /\ GroupTypes' /\ LogType' /\ (faults \in 0..MaxFaults)'
  <2>1. log[p][pos[c][p] + 1] \in Msg  BY <1>9, <1>t DEF Fetch, LogType, GroupTypes
  <2>2. [pc |-> "handle", msg |-> log[p][pos[c][p] + 1]] \in ConsumerState
    BY <2>1 DEF ConsumerState
  <2>3. consumer' \in [Consumer -> ConsumerState] /\ pos' \in [Consumer -> [Partition -> Nat]]
    <3>1. pos[c][p] + 1 \in Nat  BY <1>t DEF GroupTypes
    <3>2. [pos EXCEPT ![c][p] = pos[c][p] + 1] \in [Consumer -> [Partition -> Nat]]
      BY <3>1, <1>t, SetPosType DEF GroupTypes
    <3>3. consumer' = consumer
          \/ consumer' = [consumer EXCEPT ![c] = [pc |-> "handle", msg |-> log[p][pos[c][p] + 1]]]
      BY <1>9 DEF Fetch
    <3>4. pos' = pos \/ pos' = [pos EXCEPT ![c][p] = pos[c][p] + 1]
      BY <1>9 DEF Fetch
    <3>5. consumer' \in [Consumer -> ConsumerState]
      BY <1>t, <2>2, <3>3 DEF GroupTypes
    <3>6. pos' \in [Consumer -> [Partition -> Nat]]
      BY <1>t, <3>2, <3>4 DEF GroupTypes
    <3>. QED  BY <3>5, <3>6
  <2>. QED  BY <1>9, <1>t, <2>3 DEF Fetch, relayVars, RelayTypes, GroupTypes, LogType, BatchOK
<1>10. ASSUME NEW c \in Consumer, Handle(c) PROVE RelayTypes' /\ GroupTypes' /\ LogType' /\ (faults \in 0..MaxFaults)'
  <2>1. consumer' \in [Consumer -> ConsumerState]
    <3>1. consumer[c] \in [pc : {"handle", "mark"}, msg : Msg]
      BY <1>10, <1>t DEF Handle, GroupTypes, ConsumerState, IdleConsumer
    <3>2. [consumer[c] EXCEPT !.pc = "mark"] \in ConsumerState
      BY <3>1 DEF ConsumerState
    <3>3. IdleConsumer \in ConsumerState  BY DEF ConsumerState
    <3>. QED  BY <1>10, <1>t, <3>2, <3>3 DEF Handle, AfterThrow, GroupTypes
  <2>2. runs' \in [Msg -> Nat] /\ pos' \in [Consumer -> [Partition -> Nat]]
    BY <1>10, <1>t DEF Handle, GroupTypes, PosAfterThrow
  <2>3. faults' \in 0..MaxFaults  BY <1>10, <1>t, FaultType DEF Handle
  <2>. QED  BY <1>10, <1>t, <2>1, <2>2, <2>3 DEF Handle, relayVars, RelayTypes, GroupTypes, LogType, BatchOK
<1>11. ASSUME NEW c \in Consumer, MarkProcessed(c) PROVE RelayTypes' /\ GroupTypes' /\ LogType' /\ (faults \in 0..MaxFaults)'
  <2>1. consumer' \in [Consumer -> ConsumerState]
    BY <1>11, <1>t DEF MarkProcessed, GroupTypes, ConsumerState
  <2>2. processed' \subseteq Msg /\ pos' \in [Consumer -> [Partition -> Nat]]
    <3>1. consumer[c].msg \in Msg
      BY <1>11, <1>t DEF MarkProcessed, GroupTypes, ConsumerState, IdleConsumer
    <3>. DEFINE q == PartOf[consumer[c].msg]
    <3>2. q \in Partition  BY <3>1, OutboxAssumption
    <3>3. pos[c][q] + 1 \in Nat  BY <3>2, <1>t DEF GroupTypes
    <3>4. [pos EXCEPT ![c][q] = pos[c][q] + 1] \in [Consumer -> [Partition -> Nat]]
      BY <3>2, <3>3, <1>t, SetPosType DEF GroupTypes
    <3>. QED  BY <1>11, <1>t, <3>1, <3>4 DEF MarkProcessed, GroupTypes
  <2>3. faults' \in 0..MaxFaults  BY <1>11, <1>t, FaultType DEF MarkProcessed
  <2>. QED  BY <1>11, <1>t, <2>1, <2>2, <2>3 DEF MarkProcessed, relayVars, RelayTypes, GroupTypes, LogType, BatchOK
<1>12. ASSUME NEW c \in Consumer, NEW p \in Partition, CommitOffset(c, p) \/ Rebalance(c, p) PROVE RelayTypes' /\ GroupTypes' /\ LogType' /\ (faults \in 0..MaxFaults)'
  <2>1. faults' \in 0..MaxFaults  BY <1>12, <1>t, FaultType DEF CommitOffset, Rebalance
  <2>2. CASE CommitOffset(c, p)
    <3>1. pos[c][p] \in Nat  BY <1>t DEF GroupTypes
    <3>2. GroupTypes'  BY <1>t, <2>2, <3>1 DEF CommitOffset, GroupTypes
    <3>. QED  BY <1>t, <2>1, <2>2, <3>2 DEF CommitOffset, relayVars, RelayTypes, LogType, BatchOK
  <2>3. CASE Rebalance(c, p)
    <3>1. /\ pos' \in [Consumer -> [Partition -> Nat]] /\ origin' \in [Partition -> Nat]
      BY <1>t, <2>3, BeginTypes DEF Rebalance
    <3>2. GroupTypes'  BY <1>t, <2>3, <3>1 DEF Rebalance, GroupTypes
    <3>. QED  BY <1>t, <2>1, <2>3, <3>2 DEF Rebalance, relayVars, RelayTypes, LogType, BatchOK
  <2>. QED  BY <1>12, <2>2, <2>3
<1>13. ASSUME NEW c \in Consumer, KillConsumer(c) PROVE RelayTypes' /\ GroupTypes' /\ LogType' /\ (faults \in 0..MaxFaults)'
  <2>1. pos' \in [Consumer -> [Partition -> Nat]] /\ origin' \in [Partition -> Nat]
    BY <1>13, <1>t, BeginTypes DEF KillConsumer
  <2>2. consumer' \in [Consumer -> ConsumerState]
    BY <1>13, <1>t DEF KillConsumer, GroupTypes, ConsumerState
  <2>3. faults' \in 0..MaxFaults  BY <1>13, <1>t, FaultType DEF KillConsumer
  <2>4. GroupTypes'  BY <1>13, <1>t, <2>1, <2>2 DEF KillConsumer, GroupTypes
  <2>. QED  BY <1>13, <1>t, <2>3, <2>4 DEF KillConsumer, relayVars, RelayTypes, LogType, BatchOK
<1>. QED
  BY <1>0, <1>1, <1>2, <1>3, <1>4, <1>5, <1>6, <1>7, <1>8, <1>9, <1>10, <1>11, <1>12, <1>13 DEF Next

-----------------------------------------------------------------------------
(* The log only grows.                                                      *)

LEMMA LogGrows ==
  ASSUME LogType, NEW m \in Msg, Record(m)
  PROVE  /\ Logged \subseteq Logged' /\ m \in Logged'
         /\ \A p \in Partition : /\ Len(log[p]) <= Len(log'[p])
                                 /\ \A i \in 1..Len(log[p]) : log'[p][i] = log[p][i]
<1>. DEFINE q == PartOf[m]
<1>1. q \in Partition  BY OutboxAssumption
<1>2. log' = [log EXCEPT ![q] = Append(log[q], m)]  BY DEF Record
<1>3. ASSUME NEW p \in Partition
      PROVE  /\ Len(log[p]) <= Len(log'[p])
             /\ \A i \in 1..Len(log[p]) : log'[p][i] = log[p][i]
  <2>1. CASE p = q  BY <1>1, <1>2, <2>1 DEF LogType
  <2>2. CASE p # q  BY <1>1, <1>2, <2>2 DEF LogType
  <2>. QED  BY <2>1, <2>2
<1>4. m \in Logged'
  <2>1. log'[q] = Append(log[q], m) /\ log[q] \in Seq(Msg)  BY <1>1, <1>2 DEF LogType
  <2>2. Len(log[q]) + 1 \in DOMAIN log'[q] /\ log'[q][Len(log[q]) + 1] = m  BY <2>1
  <2>. QED  BY <1>1, <2>2 DEF Logged
<1>5. ASSUME NEW k \in Logged PROVE k \in Logged'
  <2>1. PICK p \in Partition : \E i \in DOMAIN log[p] : k = log[p][i]
    BY <1>5 DEF Logged
  <2>2. PICK i \in DOMAIN log[p] : k = log[p][i]  BY <2>1
  <2>3. log[p] \in Seq(Msg) /\ log'[p] \in Seq(Msg)  BY RecordType DEF LogType
  <2>4. i \in 1..Len(log[p]) /\ i \in DOMAIN log'[p]  BY <1>3, <2>2, <2>3
  <2>5. log'[p][i] = k  BY <1>3, <2>2, <2>4
  <2>. QED  BY <2>4, <2>5 DEF Logged
<1>. QED  BY <1>3, <1>4, <1>5

LEMMA PrefixGrows ==
  ASSUME NEW p \in Partition, NEW n \in Nat, PrefixDone(p, n), LogType,
         origin[p] \in Nat, origin'[p] \in Nat, origin[p] <= origin'[p],
         processed \subseteq processed', UNCHANGED log \/ \E m \in Msg : Record(m)
  PROVE  PrefixDone(p, n)'
<1>1. Len(log[p]) \in Nat /\ Len(log'[p]) \in Nat
  BY RecordType DEF LogType
<1>2. Len(log[p]) <= Len(log'[p]) /\ \A i \in 1..Len(log[p]) : log'[p][i] = log[p][i]
  BY LogGrows, <1>1
<1>. QED  BY <1>1, <1>2 DEF PrefixDone

-----------------------------------------------------------------------------
(* The invariant.                                                           *)

RelayInv == SentIsLogged /\ AttemptsBounded /\ MarksAreLogged /\ LocksAreExclusive

LEMMA InitInv == Init => IInv
<1>. SUFFICES ASSUME Init PROVE IInv  OBVIOUS
<1>1. TypeOK  BY InitType
<1>2. SentIsLogged  BY DEF Init, SentIsLogged
<1>3. AttemptsBounded  BY OutboxAssumption DEF Init, AttemptsBounded
<1>4. MarksAreLogged /\ LocksAreExclusive
  BY DEF Init, IdleRelay, MarksAreLogged, LocksAreExclusive
<1>5. PositionsAreProcessed  BY DEF Init, PositionsAreProcessed, PrefixDone, Through
<1>. QED  BY <1>1, <1>2, <1>3, <1>4, <1>5 DEF IInv

\* Steps of the consumers leave the relays alone.
LEMMA RelayFrame ==
  RelayInv /\ UNCHANGED <<row, attempts, relay, log>> => RelayInv'
BY DEF RelayInv, SentIsLogged, AttemptsBounded, MarksAreLogged, LocksAreExclusive,
       Logged, Current

\* Steps of producers and relays change nothing of the group but the log.
LEMMA GroupFrame ==
  ASSUME TypeOK, PositionsAreProcessed, UNCHANGED groupVars,
         UNCHANGED log \/ \E m \in Msg : Record(m)
  PROVE  PositionsAreProcessed'
<1>1. \A p \in Partition : /\ Through(p) \in Nat /\ origin[p] \in Nat
                           /\ \A c \in Consumer : pos[c][p] \in Nat
  BY DEF TypeOK, Through
<1>2. /\ processed \subseteq processed' /\ origin' = origin /\ pos' = pos
      /\ \A p \in Partition : Through(p)' = Through(p)
  BY DEF groupVars, Through
<1>3. LogType  BY TypeParts
<1>4. ASSUME NEW p \in Partition, NEW n \in Nat, PrefixDone(p, n) PROVE PrefixDone(p, n)'
  BY <1>1, <1>2, <1>3, <1>4, PrefixGrows
<1>5. ASSUME NEW p \in Partition
      PROVE  origin'[p] <= Through(p)' /\ PrefixDone(p, Through(p))'
  <2>1. PrefixDone(p, Through(p)) /\ origin[p] <= Through(p)  BY DEF PositionsAreProcessed
  <2>2. Through(p) <= Len(log'[p]) /\ \A i \in origin'[p] + 1 .. Through(p) : log'[p][i] \in processed'
    BY <1>1, <1>4, <2>1 DEF PrefixDone
  <2>. QED  BY <1>2, <2>1, <2>2 DEF PrefixDone
<1>6. ASSUME NEW p \in Partition, NEW c \in Consumer PROVE PrefixDone(p, pos[c][p])'
  <2>1. PrefixDone(p, pos[c][p])  BY DEF PositionsAreProcessed
  <2>2. pos[c][p] <= Len(log'[p]) /\ \A i \in origin'[p] + 1 .. pos[c][p] : log'[p][i] \in processed'
    BY <1>1, <1>4, <2>1 DEF PrefixDone
  <2>. QED  BY <1>2, <2>2 DEF PrefixDone
<1>. QED  BY <1>5, <1>6 DEF PositionsAreProcessed

\* A relay that forgets or keeps its batch and marks no more keeps the invariant.
LEMMA ReleaseKeepsInv ==
  ASSUME TypeOK, RelayInv, NEW w \in Relay, NEW r \in RelayState,
         r.open => relay[w].open /\ r.batch = relay[w].batch,
         r.sent \subseteq Logged, r.pc # "mark",
         relay' = [relay EXCEPT ![w] = r], UNCHANGED <<row, attempts, log>>
  PROVE  RelayInv'
<1>1. relay'[w] = r /\ \A v \in Relay \ {w} : relay'[v] = relay[v]  BY DEF TypeOK
<1>2. SentIsLogged' /\ AttemptsBounded'
  BY DEF RelayInv, SentIsLogged, AttemptsBounded, Logged
<1>3. MarksAreLogged'
  BY <1>1 DEF RelayInv, MarksAreLogged, Logged, Current
<1>4. LocksAreExclusive'
  BY <1>1 DEF RelayInv, LocksAreExclusive
<1>. QED  BY <1>2, <1>3, <1>4 DEF RelayInv

LEMMA PublishKeepsInv ==
  ASSUME TypeOK, RelayInv, NEW m \in Msg, Publish(m)
  PROVE  RelayInv'
<1>1. row' = [row EXCEPT ![m] = "pending"] /\ UNCHANGED <<attempts, relay, log>>
  BY DEF Publish
<1>2. \A w \in Relay : relay[w].open => m \notin relay[w].batch
  BY DEF Publish, RelayInv, LocksAreExclusive
<1>3. \A w \in Relay : relay[w].batch \subseteq Msg  BY DEF TypeOK, RelayState
<1>4. SentIsLogged' /\ AttemptsBounded'
  BY <1>1 DEF RelayInv, SentIsLogged, AttemptsBounded, Logged, TypeOK
<1>5. MarksAreLogged'
  BY <1>1 DEF RelayInv, MarksAreLogged, Logged, Current
<1>6. LocksAreExclusive'
  BY <1>1, <1>2, <1>3 DEF RelayInv, LocksAreExclusive, TypeOK
<1>. QED  BY <1>4, <1>5, <1>6 DEF RelayInv

LEMMA CleanupKeepsInv ==
  ASSUME TypeOK, RelayInv, NEW S \in SUBSET Msg, Cleanup(S)
  PROVE  RelayInv'
<1>1. /\ row' = [m \in Msg |-> IF m \in S THEN "purged" ELSE row[m]]
      /\ \A m \in S : row[m] = "sent"
      /\ UNCHANGED <<attempts, relay, log>>
  BY DEF Cleanup
<1>2. \A w \in Relay : relay[w].batch \subseteq Msg  BY DEF TypeOK, RelayState
<1>3. SentIsLogged' /\ AttemptsBounded' /\ MarksAreLogged'
  BY <1>1 DEF RelayInv, SentIsLogged, AttemptsBounded, MarksAreLogged, Logged, Current
<1>4. LocksAreExclusive'
  BY <1>1, <1>2 DEF RelayInv, LocksAreExclusive
<1>. QED  BY <1>3, <1>4 DEF RelayInv

LEMMA PollKeepsInv ==
  ASSUME TypeOK, RelayInv, NEW w \in Relay, Poll(w)
  PROVE  RelayInv'
<1>. DEFINE b == Oldest(Available, BatchSize)
            r == [IdleRelay EXCEPT !.pc = "send", !.open = TRUE, !.batch = b, !.todo = b]
<1>1. relay' = [relay EXCEPT ![w] = r] /\ UNCHANGED <<row, attempts, log>>  BY DEF Poll
<1>2. relay'[w] = r /\ \A v \in Relay \ {w} : relay'[v] = relay[v]  BY <1>1 DEF TypeOK
<1>3. r.pc = "send" /\ r.sent = {} /\ r.batch = b /\ r.open  BY DEF IdleRelay
<1>4. b \subseteq Available  BY DEF Oldest
<1>5. \A m \in b : /\ row[m] = "pending" /\ attempts[m] < MaxAttempts
                   /\ \A v \in Relay : relay[v].open => m \notin relay[v].batch
  BY <1>4 DEF Available, Unsent, Locked
<1>6. SentIsLogged' /\ AttemptsBounded'
  BY <1>1 DEF RelayInv, SentIsLogged, AttemptsBounded, Logged
<1>7. MarksAreLogged'
  BY <1>1, <1>2, <1>3 DEF RelayInv, MarksAreLogged, Logged, Current
<1>8. LocksAreExclusive'
  <2>1. \A m \in b : /\ row'[m] = "pending" /\ attempts'[m] < MaxAttempts
                     /\ \A v \in Relay \ {w} : relay'[v].open => m \notin relay'[v].batch
    BY <1>1, <1>2, <1>5
  <2>2. relay'[w].batch = b  BY <1>2, <1>3
  <2>. HIDE DEF b, r
  <2>. QED  BY <1>1, <1>2, <2>1, <2>2 DEF RelayInv, LocksAreExclusive
<1>. QED  BY <1>6, <1>7, <1>8 DEF RelayInv

LEMMA SendKeepsInv ==
  ASSUME TypeOK, RelayInv, NEW w \in Relay, Send(w)
  PROVE  RelayInv'
<1>1. PICK m \in Msg :
        /\ Current(w, m)
        /\ \/ relay' = [relay EXCEPT ![w].pc = "fail"] /\ (Record(m) \/ UNCHANGED log)
           \/ relay' = [relay EXCEPT ![w].pc = "mark"] /\ Record(m)
  BY DEF Send
<1>2. UNCHANGED <<row, attempts>>  BY DEF Send
<1>3. /\ \A v \in Relay : /\ relay'[v].open = relay[v].open /\ relay'[v].sent = relay[v].sent
                          /\ relay'[v].batch = relay[v].batch /\ relay'[v].todo = relay[v].todo
      /\ \A v \in Relay \ {w} : relay'[v].pc = relay[v].pc
      /\ relay'[w].pc = "mark" => Record(m)
  <2>1. relay \in [Relay -> RelayState] /\ relay[w] \in RelayState  BY DEF TypeOK
  <2>2. PICK q \in {"fail", "mark"} :
          relay' = [relay EXCEPT ![w].pc = q] /\ (q = "mark" => Record(m))
    BY <1>1
  <2>3. relay'[w] = [relay[w] EXCEPT !.pc = q] /\ \A v \in Relay \ {w} : relay'[v] = relay[v]
    BY <2>1, <2>2
  <2>4. /\ relay'[w].open = relay[w].open /\ relay'[w].sent = relay[w].sent
        /\ relay'[w].batch = relay[w].batch /\ relay'[w].todo = relay[w].todo
        /\ relay'[w].pc = q
    BY <2>1, <2>3 DEF RelayState
  <2>. QED  BY <2>2, <2>3, <2>4
<1>4. Logged \subseteq Logged' /\ (Record(m) => m \in Logged')
  BY <1>1, LogGrows, TypeParts DEF Logged
<1>5. SentIsLogged' /\ AttemptsBounded'
  BY <1>2, <1>4 DEF RelayInv, SentIsLogged, AttemptsBounded
<1>6. MarksAreLogged'
  <2>. SUFFICES ASSUME NEW v \in Relay
                PROVE  /\ relay'[v].sent \subseteq Logged'
                       /\ relay'[v].pc = "mark" =>
                            \A k \in relay'[v].todo : Current(v, k)' => k \in Logged'
    BY DEF MarksAreLogged
  <2>1. relay'[v].sent \subseteq Logged'
    BY <1>3, <1>4 DEF RelayInv, MarksAreLogged
  <2>2. ASSUME relay'[v].pc = "mark", NEW k \in relay'[v].todo, Current(v, k)'
        PROVE  k \in Logged'
    <3>1. Current(v, k)  BY <1>3, <2>2 DEF Current
    <3>2. CASE v = w
      <4>1. k \in Nat /\ m \in Nat /\ k <= m /\ m <= k
        BY <1>1, <1>3, <3>1, <3>2, <2>2 DEF Current, TypeOK, RelayState, Msg
      <4>. QED  BY <1>3, <1>4, <2>2, <3>2, <4>1
    <3>3. CASE v # w
      BY <1>3, <1>4, <2>2, <3>1, <3>3 DEF RelayInv, MarksAreLogged
    <3>. QED  BY <3>2, <3>3
  <2>. QED  BY <2>1, <2>2
<1>7. LocksAreExclusive'
  BY <1>2, <1>3 DEF RelayInv, LocksAreExclusive
<1>. QED  BY <1>5, <1>6, <1>7 DEF RelayInv

LEMMA MarkKeepsInv ==
  ASSUME TypeOK, RelayInv, NEW w \in Relay, MarkSent(w) \/ MarkFailed(w)
  PROVE  RelayInv'
<1>1. relay[w] \in RelayState /\ BatchOK(relay[w]) /\ UNCHANGED <<row, attempts, log>>
  BY DEF TypeOK, MarkSent, MarkFailed
<1>2. CASE relay' = [relay EXCEPT ![w] = IdleRelay]
  <2>1. ~IdleRelay.open /\ IdleRelay.sent = {} /\ IdleRelay.pc # "mark"  BY DEF IdleRelay
  <2>. QED  BY <1>1, <1>2, <2>1, IdleRelayType, ReleaseKeepsInv
<1>3. CASE MarkSent(w) /\ relay[w].open
  <2>1. PICK m \in Msg : /\ Current(w, m)
                         /\ relay' = [relay EXCEPT ![w].pc = "send", ![w].todo = @ \ {m},
                                                   ![w].sent = @ \cup {m}]
    BY <1>3 DEF MarkSent
  <2>. DEFINE r == [relay[w] EXCEPT !.pc = "send", !.todo = @ \ {m}, !.sent = @ \cup {m}]
  <2>2. relay' = [relay EXCEPT ![w] = r]  BY <2>1, <1>1 DEF TypeOK, RelayState
  <2>3. r \in RelayState  BY <1>1, <2>1, NextOfBatch DEF Current
  <2>4. r.pc # "mark" /\ r.batch = relay[w].batch /\ r.sent = relay[w].sent \cup {m}
    BY <1>1 DEF RelayState
  <2>5. r.sent \subseteq Logged
    BY <1>3, <2>1, <2>4 DEF RelayInv, MarksAreLogged, MarkSent, Current
  <2>6. r.open => relay[w].open /\ r.batch = relay[w].batch  BY <1>3, <2>4
  <2>. HIDE DEF r
  <2>. QED  BY <1>1, <2>2, <2>3, <2>4, <2>5, <2>6, ReleaseKeepsInv
<1>4. CASE MarkFailed(w) /\ relay[w].open
  <2>1. PICK m \in Msg : Current(w, m) /\ relay' = [relay EXCEPT ![w] = FailedOnce(relay[w], m)]
    BY <1>4 DEF MarkFailed
  <2>. DEFINE r == FailedOnce(relay[w], m)
  <2>2. r \in RelayState  BY <1>1, <2>1, NextOfBatch DEF Current
  <2>3. r.pc # "mark" /\ r.batch = relay[w].batch /\ r.sent = relay[w].sent
    BY <1>1 DEF RelayState, FailedOnce
  <2>4. r.sent \subseteq Logged  BY <2>3 DEF RelayInv, MarksAreLogged
  <2>. HIDE DEF r
  <2>. QED  BY <1>1, <1>4, <2>1, <2>2, <2>3, <2>4, ReleaseKeepsInv DEF r
<1>. QED  BY <1>2, <1>3, <1>4 DEF MarkSent, MarkFailed

LEMMA CommitKeepsInv ==
  ASSUME TypeOK, RelayInv, NEW w \in Relay, CommitBatch(w)
  PROVE  RelayInv'
<1>. DEFINE r == relay[w]
<1>1. r \in RelayState /\ BatchOK(r)  BY DEF TypeOK
<1>2. relay' = [relay EXCEPT ![w] = IdleRelay] /\ UNCHANGED log  BY DEF CommitBatch
<1>3. CASE ~r.open
  <2>1. UNCHANGED <<row, attempts>>  BY <1>3 DEF CommitBatch
  <2>. QED  BY <1>2, <2>1, IdleRelayType, ReleaseKeepsInv DEF IdleRelay
<1>4. CASE r.open
  <2>1. /\ row' = [m \in Msg |-> IF m \in r.sent THEN "sent" ELSE row[m]]
        /\ attempts' = [m \in Msg |-> IF m \in r.failed THEN attempts[m] + 1 ELSE attempts[m]]
    BY <1>4 DEF CommitBatch, CountAttempts
  <2>2. /\ relay'[w] = IdleRelay /\ ~relay'[w].open
        /\ \A v \in Relay \ {w} : relay'[v] = relay[v]
    BY <1>2 DEF TypeOK, IdleRelay
  <2>3. r.sent \subseteq r.batch /\ r.failed \subseteq r.batch  BY <1>1 DEF BatchOK
  <2>4. SentIsLogged'
    BY <1>2, <2>1 DEF RelayInv, SentIsLogged, MarksAreLogged, Logged
  <2>5. AttemptsBounded'
    <3>1. \A m \in r.failed : attempts[m] < MaxAttempts
      BY <1>4, <2>3 DEF RelayInv, LocksAreExclusive
    <3>2. MaxAttempts \in Nat /\ \A m \in Msg : attempts[m] \in Nat
      BY OutboxAssumption DEF TypeOK
    <3>. QED  BY <2>1, <3>1, <3>2 DEF RelayInv, AttemptsBounded
  <2>6. MarksAreLogged'
    BY <1>2, <2>2 DEF RelayInv, MarksAreLogged, Logged, Current, IdleRelay
  <2>7. LocksAreExclusive'
    <3>1. \A v \in Relay \ {w} : relay[v].open =>
            /\ relay[v].batch \cap r.batch = {} /\ relay[v].batch \subseteq Msg
      BY <1>4 DEF RelayInv, LocksAreExclusive, TypeOK, RelayState
    <3>2. \A v \in Relay \ {w} : relay[v].open =>
            \A m \in relay[v].batch : row'[m] = row[m] /\ attempts'[m] = attempts[m]
      BY <2>1, <2>3, <3>1
    <3>. QED  BY <2>2, <3>2 DEF RelayInv, LocksAreExclusive
  <2>. QED  BY <2>4, <2>5, <2>6, <2>7 DEF RelayInv
<1>. QED  BY <1>3, <1>4

LEMMA DropKeepsInv ==
  ASSUME TypeOK, RelayInv, NEW w \in Relay, TxTimeout(w) \/ KillRelay(w)
  PROVE  RelayInv'
<1>1. relay[w] \in RelayState /\ UNCHANGED <<row, attempts, log>>
  BY DEF TypeOK, TxTimeout, KillRelay
<1>2. CASE KillRelay(w)
  BY <1>1, <1>2, IdleRelayType, ReleaseKeepsInv DEF KillRelay, IdleRelay
<1>3. CASE TxTimeout(w)
  <2>1. /\ \A v \in Relay : /\ relay'[v].pc = relay[v].pc /\ relay'[v].sent = relay[v].sent
                            /\ relay'[v].batch = relay[v].batch /\ relay'[v].todo = relay[v].todo
                            /\ relay'[v].open => relay[v].open
    BY <1>3 DEF TxTimeout, TypeOK, RelayState
  <2>2. SentIsLogged' /\ AttemptsBounded'
    BY <1>1 DEF RelayInv, SentIsLogged, AttemptsBounded, Logged
  <2>3. MarksAreLogged'
    BY <1>1, <2>1 DEF RelayInv, MarksAreLogged, Logged, Current
  <2>4. LocksAreExclusive'
    BY <1>1, <2>1 DEF RelayInv, LocksAreExclusive
  <2>. QED  BY <2>2, <2>3, <2>4 DEF RelayInv
<1>. QED  BY <1>2, <1>3

LEMMA RelaySideKeepsInv ==
  ASSUME IInv, \/ \E m \in Msg : Publish(m)
               \/ \E S \in SUBSET Msg : Cleanup(S)
               \/ \E w \in Relay : \/ RelayStep(w) \/ TxTimeout(w) \/ KillRelay(w)
  PROVE  RelayInv' /\ PositionsAreProcessed'
<1>. USE DEF IInv
<1>1. RelayInv  BY DEF RelayInv
<1>2. RelayInv'
  BY <1>1, PublishKeepsInv, CleanupKeepsInv, PollKeepsInv, SendKeepsInv, MarkKeepsInv,
     CommitKeepsInv, DropKeepsInv DEF RelayStep
<1>3. UNCHANGED groupVars /\ (UNCHANGED log \/ \E m \in Msg : Record(m))
  BY DEF Publish, Cleanup, RelayStep, Poll, Send, MarkSent, MarkFailed, CommitBatch,
         TxTimeout, KillRelay
<1>. QED  BY <1>2, <1>3, GroupFrame

\* MarkProcessed is the only step of the group that moves a position on a message
\* not known to be processed, and it makes it so.
LEMMA ConsumerSideKeepsInv ==
  ASSUME IInv, NEW c \in Consumer,
         \/ \E p \in Partition : Fetch(c, p) \/ CommitOffset(c, p) \/ Rebalance(c, p)
         \/ Handle(c) \/ MarkProcessed(c) \/ KillConsumer(c)
  PROVE  RelayInv' /\ PositionsAreProcessed'
<1>. USE DEF IInv
<1>1. RelayInv'
  BY RelayFrame DEF RelayInv, Fetch, CommitOffset, Rebalance, Handle, MarkProcessed,
                    KillConsumer, relayVars
<1>2. UNCHANGED log /\ processed \subseteq processed'
  BY DEF Fetch, CommitOffset, Rebalance, Handle, MarkProcessed, KillConsumer
<1>3. /\ LogType /\ GroupTypes /\ pos \in [Consumer -> [Partition -> Nat]]
      /\ \A p \in Partition : /\ Through(p) \in Nat /\ origin[p] \in Nat
                              /\ Len(log[p]) \in Nat
  BY TypeParts DEF GroupTypes, LogType, Through
<1>o. \/ \E q \in Partition : CommitOffset(c, q)
      \/ \E P \in SUBSET Partition : Begin(c, P) /\ UNCHANGED offset
      \/ UNCHANGED <<offset, origin>> /\ ( \/ \E p \in Partition : Fetch(c, p)
                                           \/ Handle(c) \/ MarkProcessed(c))
  BY DEF Fetch, Rebalance, Handle, MarkProcessed, KillConsumer
<1>b. ASSUME NEW P \in SUBSET Partition, Begin(c, P), NEW p \in Partition
      PROVE  /\ origin'[p] = IF p \in P /\ offset[p] = NoOffset THEN Len(log[p]) ELSE origin[p]
             /\ \A d \in Consumer : \/ pos'[d][p] = pos[d][p]
                                    \/ p \in P /\ pos'[d][p] = StartPos(p)
  BY <1>3, <1>b DEF Begin
<1>h. ASSUME NEW p \in Partition
      PROVE  /\ origin[p] <= Through(p) /\ Through(p) <= Len(log[p])
             /\ origin'[p] \in Nat /\ origin[p] <= origin'[p]
  <2>1. origin[p] <= Through(p) /\ Through(p) <= Len(log[p])
    BY DEF PositionsAreProcessed, PrefixDone
  <2>2. origin'[p] = origin[p] \/ origin'[p] = Len(log[p])
    BY <1>o, <1>b DEF CommitOffset
  <2>. QED  BY <1>3, <2>1, <2>2
<1>. DEFINE DoneNow(p, n) == /\ n <= Len(log'[p])
                             /\ \A i \in origin'[p] + 1 .. n : log'[p][i] \in processed'
<1>4. ASSUME NEW p \in Partition, NEW n \in Nat, PrefixDone(p, n)
      PROVE  DoneNow(p, n)
  BY <1>2, <1>3, <1>4, <1>h, PrefixGrows DEF PrefixDone
<1>5. ASSUME NEW p \in Partition, NEW n \in Nat, DoneNow(p, n), n < Len(log[p]),
             log[p][n + 1] \in processed'
      PROVE  DoneNow(p, n + 1)
  BY <1>2, <1>3, <1>5, <1>h
<1>6. \A p \in Partition : /\ DoneNow(p, Through(p))
                           /\ \A d \in Consumer : DoneNow(p, pos[d][p])
  <2>. HIDE DEF DoneNow
  <2>. QED  BY <1>3, <1>4 DEF PositionsAreProcessed
\* A consumer that begins without an offset has nothing behind it.
<1>e. ASSUME NEW p \in Partition, origin'[p] = Len(log[p])
      PROVE  DoneNow(p, Len(log[p]))
  BY <1>2, <1>3, <1>e
<1>7. ASSUME NEW p \in Partition PROVE origin'[p] <= Through(p)' /\ DoneNow(p, Through(p)')
  <2>. HIDE DEF DoneNow
  <2>1. CASE Through(p)' = Through(p) /\ origin'[p] = origin[p]
    BY <1>6, <1>h, <2>1
  <2>2. CASE Through(p)' = origin'[p] /\ origin'[p] = Len(log[p])
    BY <1>3, <1>e, <2>2
  <2>3. CASE \E q \in Partition : CommitOffset(c, q)
    <3>1. PICK q \in Partition : CommitOffset(c, q)  BY <2>3
    <3>2. CASE p = q
      <4>1. pos[c][p] > Through(p) /\ offset'[p] = pos[c][p] /\ origin'[p] = origin[p]
        BY <1>3, <3>1, <3>2 DEF CommitOffset, GroupTypes
      <4>2. pos[c][p] \in Nat /\ Through(p)' = pos[c][p]
        BY <1>3, <4>1, OutboxAssumption DEF Through
      <4>. QED  BY <1>3, <1>6, <1>h, <4>1, <4>2
    <3>3. CASE p # q
      BY <1>3, <2>1, <3>1, <3>3 DEF CommitOffset, Through, GroupTypes
    <3>. QED  BY <3>2, <3>3
  <2>4. CASE \E P \in SUBSET Partition : Begin(c, P) /\ UNCHANGED offset
    BY <1>b, <2>1, <2>2, <2>4 DEF Through
  <2>5. CASE UNCHANGED <<offset, origin>>
    BY <2>1, <2>5 DEF Through
  <2>. QED  BY <1>o, <2>3, <2>4, <2>5
<1>8. ASSUME NEW p \in Partition, NEW d \in Consumer PROVE DoneNow(p, pos'[d][p])
  <2>. HIDE DEF DoneNow
  <2>. DEFINE n == pos[d][p]
  <2>0. n \in Nat  BY <1>3
  <2>1. CASE pos'[d][p] = n  BY <1>6, <2>1
  <2>3. CASE /\ pos'[d][p] = n + 1 /\ n < Len(log[p])
             /\ log[p][n + 1] \in processed'
    BY <1>5, <1>6, <2>0, <2>3
  <2>4. CASE \E q \in Partition : CommitOffset(c, q)
    BY <2>1, <2>4 DEF CommitOffset
  <2>5. CASE \E P \in SUBSET Partition : Begin(c, P)
    <3>1. PICK P \in SUBSET Partition : Begin(c, P)  BY <2>5
    <3>2. CASE p \in P /\ pos'[d][p] = StartPos(p) /\ offset[p] = NoOffset
      BY <1>b, <1>e, <3>1, <3>2 DEF StartPos
    <3>3. CASE pos'[d][p] = StartPos(p) /\ offset[p] # NoOffset
      BY <1>6, <3>3 DEF StartPos, Through
    <3>. QED  BY <1>b, <2>1, <3>1, <3>2, <3>3
  <2>6. CASE Handle(c)
    BY <2>1, <2>6 DEF Handle, PosAfterThrow
  <2>7. CASE \E q \in Partition : Fetch(c, q)
    <3>1. PICK q \in Partition : Fetch(c, q)  BY <2>7
    <3>2. CASE pos' = pos  BY <2>1, <3>2
    <3>3. CASE /\ pos' = [pos EXCEPT ![c][q] = @ + 1]
               /\ pos[c][q] < Len(log[q]) /\ log[q][pos[c][q] + 1] \in processed
      BY <1>2, <1>3, <2>1, <2>3, <3>3
    <3>. QED  BY <3>1, <3>2, <3>3 DEF Fetch, NotProcessed
  <2>8. CASE MarkProcessed(c)
    <3>. DEFINE m == consumer[c].msg
                q == PartOf[m]
    <3>1. CASE pos' = pos  BY <2>1, <3>1
    <3>2. CASE /\ pos' = [pos EXCEPT ![c][q] = @ + 1] /\ processed' = processed \cup {m}
               /\ pos[c][q] < Len(log[q]) /\ log[q][pos[c][q] + 1] = m
      BY <1>3, <2>1, <2>3, <3>2
    <3>. QED  BY <2>8, <3>1, <3>2 DEF MarkProcessed
  <2>. QED  BY <1>o, <2>4, <2>5, <2>6, <2>7, <2>8
<1>. QED  BY <1>1, <1>7, <1>8 DEF PositionsAreProcessed, PrefixDone

LEMMA NextKeepsIInv == IInv /\ [Next]_vars => IInv'
<1>. SUFFICES ASSUME IInv, [Next]_vars PROVE IInv'  OBVIOUS
<1>1. TypeOK'  BY TypeStep DEF IInv
<1>2. RelayInv' /\ PositionsAreProcessed'
  <2>1. CASE UNCHANGED vars
    <3>1. RelayInv'  BY <2>1, RelayFrame DEF RelayInv, IInv, vars, relayVars
    <3>2. PositionsAreProcessed'  BY <2>1, GroupFrame DEF IInv, vars
    <3>. QED  BY <3>1, <3>2
  <2>2. CASE Next
    BY <2>2, RelaySideKeepsInv, ConsumerSideKeepsInv DEF Next, RelayStep
  <2>. QED  BY <2>1, <2>2
<1>. QED  BY <1>1, <1>2 DEF IInv, RelayInv

\* The invariant holds in every reachable state.
THEOREM OutboxInvariant == Spec => []IInv
<1>. QED  BY InitInv, NextKeepsIInv, PTL DEF Spec

\* Rows, locks, logs, positions and handlers keep their types, and a row of a
\* batch is to do, or marked sent, or marked failed.
THEOREM OutboxTypeCorrect == Spec => []TypeOK
<1>1. IInv => TypeOK  BY DEF IInv
<1>. QED  BY <1>1, OutboxInvariant, PTL

\* What is marked sent, and may be purged, is in the log of Kafka.
THEOREM SentOnlyIfLogged == Spec => []SentIsLogged
<1>1. IInv => SentIsLogged  BY DEF IInv
<1>. QED  BY <1>1, OutboxInvariant, PTL

\* From where the group began to read, every message below a committed offset was
\* marked processed.
THEOREM NoOffsetPastUnprocessed == Spec => []CommittedIsProcessed
<1>1. IInv => CommittedIsProcessed
  BY DEF IInv, PositionsAreProcessed, PrefixDone, CommittedIsProcessed
<1>. QED  BY <1>1, OutboxInvariant, PTL

\* The row locks keep the count of attempts exact.
THEOREM AttemptsWithinLimit == Spec => []AttemptsBounded
<1>1. IInv => AttemptsBounded  BY DEF IInv
<1>. QED  BY <1>1, OutboxInvariant, PTL

-----------------------------------------------------------------------------
(* Duplicates.  Each copy of a message in the log, each worker that may     *)
(* still add one although its transaction is gone, and the copy the row is  *)
(* due is paid for by the first publication or by a failure; the same       *)
(* account is kept for the runs of the handler.                             *)

\* The message is sent and the transaction that will say so is alive.
HasSent(w, m) ==
    /\ relay[w].open
    /\ m \in relay[w].sent \/ (relay[w].pc = "mark" /\ Current(w, m))

\* Workers about to send the message for a transaction that timed out.
Loose(m) == {w \in Relay : ~relay[w].open /\ relay[w].pc = "send" /\ Current(w, m)}

\* The row still calls for a copy.
CopyDue(m) == row[m] \in {"absent", "pending"} /\ \A w \in Relay : ~HasSent(w, m)
Due(m) == IF CopyDue(m) THEN 1 ELSE 0

IdleIsClosed == \A w \in Relay : relay[w].pc = "idle" => ~relay[w].open

CopiesPaid(m) == /\ IsFiniteSet(Loose(m))
                 /\ Copies(m) + Cardinality(Loose(m)) + Due(m) <= 1 + faults

SendsInv == IdleIsClosed /\ \A m \in Msg : CopiesPaid(m)

\* Consumers in the handler, former owners of the partition included.
Handling(m) == {c \in Consumer : consumer[c].pc = "handle" /\ consumer[c].msg = m}

\* The owner has not begun with the message and will not skip it.
RunDue(m) == m \notin processed /\ consumer[owner[PartOf[m]]].msg # m
DueRun(m) == IF RunDue(m) THEN 1 ELSE 0

RunsPaid(m) == /\ IsFiniteSet(Handling(m))
               /\ runs[m] + Cardinality(Handling(m)) + DueRun(m) <= 1 + faults

\* A record is in the partition of its message.
Placed == \A p \in Partition : \A i \in 1..Len(log[p]) : PartOf[log[p][i]] = p

RunsInv == Placed /\ \A m \in Msg : RunsPaid(m)

\* A set gains or loses one element, or the set stays.
LEMMA OneElement ==
  ASSUME NEW S, NEW T, NEW x, IsFiniteSet(S), T \ {x} = S \ {x}
  PROVE  /\ IsFiniteSet(T) /\ Cardinality(S) \in Nat /\ Cardinality(T) \in Nat
         /\ (x \in T <=> x \in S) => Cardinality(T) = Cardinality(S)
         /\ (x \in S /\ x \notin T) => Cardinality(T) = Cardinality(S) - 1
         /\ (x \notin S /\ x \in T) => Cardinality(T) = Cardinality(S) + 1
<1>1. CASE x \in T <=> x \in S
  <2>1. T = S  BY <1>1
  <2>. QED  BY <1>1, <2>1, FS_CardinalityType
<1>2. CASE x \in S /\ x \notin T
  <2>1. T = S \ {x}  BY <1>2
  <2>2. IsFiniteSet(T) /\ Cardinality(T) = Cardinality(S) - 1
    BY <1>2, <2>1, FS_RemoveElement
  <2>. QED  BY <1>2, <2>2, FS_CardinalityType
<1>3. CASE x \notin S /\ x \in T
  <2>1. T = S \cup {x}  BY <1>3
  <2>2. IsFiniteSet(T) /\ Cardinality(T) = Cardinality(S) + 1
    BY <1>3, <2>1, FS_AddElement
  <2>. QED  BY <1>3, <2>2, FS_CardinalityType
<1>. QED  BY <1>1, <1>2, <1>3

LEMMA CopiesType ==
  ASSUME LogType, NEW m \in Msg
  PROVE  /\ IsFiniteSet({i \in DOMAIN log[PartOf[m]] : log[PartOf[m]][i] = m})
         /\ Copies(m) \in Nat
<1>. DEFINE q == PartOf[m]
            S == {i \in DOMAIN log[q] : log[q][i] = m}
<1>1. log[q] \in Seq(Msg)  BY OutboxAssumption DEF LogType
<1>2. DOMAIN log[q] = 1..Len(log[q]) /\ Len(log[q]) \in Nat  BY <1>1
<1>3. IsFiniteSet(DOMAIN log[q])  BY <1>2, FS_Interval
<1>4. IsFiniteSet(S)
  <2>1. S \in SUBSET (DOMAIN log[q])  OBVIOUS
  <2>. HIDE DEF S
  <2>. QED  BY <1>3, <2>1, FS_Subset
<1>. QED  BY <1>4, FS_CardinalityType DEF Copies

\* A publication adds one copy of its message and none of the others.
LEMMA CopiesStep ==
  ASSUME LogType, NEW m \in Msg, Record(m), NEW k \in Msg
  PROVE  Copies(k)' = IF k = m THEN Copies(k) + 1 ELSE Copies(k)
<1>. DEFINE q == PartOf[k]
            S == {i \in DOMAIN log[q] : log[q][i] = k}
            T == {i \in DOMAIN log'[q] : log'[q][i] = k}
            n == Len(log[q]) + 1
<1>1. q \in Partition /\ log[q] \in Seq(Msg)  BY OutboxAssumption DEF LogType
<1>2. log' = [log EXCEPT ![PartOf[m]] = Append(log[PartOf[m]], m)]  BY DEF Record
<1>3. IsFiniteSet(S) /\ Copies(k) = Cardinality(S) /\ Copies(k)' = Cardinality(T)
  BY CopiesType DEF Copies
<1>4. CASE q # PartOf[m]
  <2>1. log'[q] = log[q]  BY <1>1, <1>2, <1>4 DEF LogType
  <2>. QED  BY <1>3, <1>4, <2>1
<1>5. CASE q = PartOf[m]
  <2>1. log'[q] = Append(log[q], m)  BY <1>1, <1>2, <1>5 DEF LogType
  <2>2. /\ DOMAIN log[q] = 1..Len(log[q]) /\ Len(log[q]) \in Nat
        /\ DOMAIN log'[q] = 1..n /\ log'[q][n] = m
        /\ \A i \in 1..Len(log[q]) : log'[q][i] = log[q][i]
    BY <1>1, <2>1
  <2>3. T \ {n} = S \ {n} /\ n \notin S /\ (n \in T <=> k = m)  BY <2>2
  <2>. HIDE DEF S, T, n
  <2>4. /\ k = m => Cardinality(T) = Cardinality(S) + 1
        /\ k # m => Cardinality(T) = Cardinality(S)
    BY <1>3, <2>3, OneElement
  <2>. QED  BY <1>3, <2>4
<1>. QED  BY <1>4, <1>5

LEMMA CurrentIsUnique ==
  ASSUME TypeOK, NEW w \in Relay, NEW m \in Msg, NEW k \in Msg, Current(w, m), Current(w, k)
  PROVE  m = k
BY DEF Current, Msg

\* What a step of one relay does to the account of a message.
LEMMA RelayAccount ==
  ASSUME NEW m \in Msg, NEW w \in Relay, IsFiniteSet(Loose(m)),
         \A v \in Relay \ {w} : relay'[v] = relay[v]
  PROVE  /\ IsFiniteSet(Loose(m)')
         /\ Cardinality(Loose(m)) \in Nat /\ Cardinality(Loose(m)') \in Nat
         /\ (w \in Loose(m)' <=> w \in Loose(m))
               => Cardinality(Loose(m)') = Cardinality(Loose(m))
         /\ (w \in Loose(m) /\ w \notin Loose(m)')
               => Cardinality(Loose(m)') = Cardinality(Loose(m)) - 1
         /\ (w \notin Loose(m) /\ w \in Loose(m)')
               => Cardinality(Loose(m)') = Cardinality(Loose(m)) + 1
         /\ (row'[m] = row[m] /\ (HasSent(w, m)' <=> HasSent(w, m))) => Due(m)' = Due(m)
<1>1. \A v \in Relay \ {w} : /\ HasSent(v, m)' <=> HasSent(v, m)
                             /\ v \in Loose(m)' <=> v \in Loose(m)
  BY DEF HasSent, Loose, Current
<1>2. Loose(m)' \ {w} = Loose(m) \ {w}  BY <1>1 DEF Loose
<1>3. (row'[m] = row[m] /\ (HasSent(w, m)' <=> HasSent(w, m)))
        => (CopyDue(m)' <=> CopyDue(m))
  BY <1>1 DEF CopyDue
<1>4. (row'[m] = row[m] /\ (HasSent(w, m)' <=> HasSent(w, m))) => Due(m)' = Due(m)
  BY <1>3 DEF Due
<1>. QED  BY <1>2, <1>4, OneElement

\* A committed row is due one copy, as it was before.
LEMMA PublishPays ==
  ASSUME TypeOK, SendsInv, NEW k \in Msg, Publish(k)
  PROVE  SendsInv'
<1>1. relay' = relay /\ log' = log /\ faults' = faults /\ row[k] = "absent"
      /\ row' = [row EXCEPT ![k] = "pending"]
  BY DEF Publish
<1>2. IdleIsClosed'  BY <1>1 DEF SendsInv, IdleIsClosed
<1>3. ASSUME NEW m \in Msg PROVE CopiesPaid(m)'
  <2>1. Loose(m)' = Loose(m) /\ Copies(m)' = Copies(m)
    BY <1>1 DEF Loose, Current, Copies
  <2>2. CopyDue(m)' <=> CopyDue(m)
    BY <1>1 DEF CopyDue, HasSent, Current, TypeOK
  <2>3. Due(m)' = Due(m)  BY <2>2 DEF Due
  <2>. QED  BY <1>1, <2>1, <2>3 DEF SendsInv, CopiesPaid
<1>. QED  BY <1>2, <1>3 DEF SendsInv

LEMMA CleanupPays ==
  ASSUME TypeOK, SendsInv, NEW S \in SUBSET Msg, Cleanup(S)
  PROVE  SendsInv'
<1>1. /\ relay' = relay /\ log' = log /\ faults' = faults
      /\ row' = [m \in Msg |-> IF m \in S THEN "purged" ELSE row[m]]
      /\ \A m \in S : row[m] = "sent"
  BY DEF Cleanup
<1>2. IdleIsClosed'  BY <1>1 DEF SendsInv, IdleIsClosed
<1>3. ASSUME NEW m \in Msg PROVE CopiesPaid(m)'
  <2>1. Loose(m)' = Loose(m) /\ Copies(m)' = Copies(m)
    BY <1>1 DEF Loose, Current, Copies
  <2>2. CopyDue(m)' <=> CopyDue(m)
    BY <1>1 DEF CopyDue, HasSent, Current
  <2>3. Due(m)' = Due(m)  BY <2>2 DEF Due
  <2>. QED  BY <1>1, <2>1, <2>3 DEF SendsInv, CopiesPaid
<1>. QED  BY <1>2, <1>3 DEF SendsInv

LEMMA PollPays ==
  ASSUME TypeOK, SendsInv, NEW w \in Relay, Poll(w)
  PROVE  SendsInv'
<1>. DEFINE b == Oldest(Available, BatchSize)
<1>1. /\ relay[w].pc = "idle" /\ UNCHANGED <<row, log, faults>>
      /\ relay' = [relay EXCEPT ![w] = [IdleRelay EXCEPT !.pc = "send", !.open = TRUE,
                                                         !.batch = b, !.todo = b]]
  BY DEF Poll
<1>2. /\ relay'[w].pc = "send" /\ relay'[w].open /\ relay'[w].sent = {}
      /\ \A v \in Relay \ {w} : relay'[v] = relay[v]
  BY <1>1 DEF TypeOK, IdleRelay
<1>3. ~relay[w].open  BY <1>1 DEF SendsInv, IdleIsClosed
<1>4. IdleIsClosed'  BY <1>2 DEF SendsInv, IdleIsClosed
<1>5. ASSUME NEW m \in Msg PROVE CopiesPaid(m)'
  <2>1. ~HasSent(w, m) /\ ~HasSent(w, m)'  BY <1>2, <1>3 DEF HasSent
  <2>2. w \notin Loose(m) /\ w \notin Loose(m)'  BY <1>1, <1>2 DEF Loose
  <2>3. Copies(m)' = Copies(m)  BY <1>1 DEF Copies
  <2>4. CopiesPaid(m)  BY DEF SendsInv
  <2>5. Cardinality(Loose(m)') = Cardinality(Loose(m)) /\ IsFiniteSet(Loose(m)') /\ Due(m)' = Due(m)
    BY <1>1, <1>2, <2>1, <2>2, <2>4, RelayAccount DEF CopiesPaid
  <2>. QED  BY <1>1, <2>3, <2>4, <2>5 DEF CopiesPaid
<1>. QED  BY <1>4, <1>5 DEF SendsInv

\* The next copy of an open transaction is the one its row was due; that of a
\* transaction that timed out was counted with its worker.
LEMMA SendPays ==
  ASSUME TypeOK, LocksAreExclusive, SendsInv, NEW w \in Relay, Send(w)
  PROVE  SendsInv'
<1>1. PICK n \in Msg :
        /\ Current(w, n)
        /\ \/ relay' = [relay EXCEPT ![w].pc = "fail"] /\ UNCHANGED <<log, faults>>
           \/ relay' = [relay EXCEPT ![w].pc = "mark"] /\ Record(n) /\ UNCHANGED faults
           \/ relay' = [relay EXCEPT ![w].pc = "fail"] /\ Fault /\ (Record(n) \/ UNCHANGED log)
  BY DEF Send
<1>2. relay[w].pc = "send" /\ row' = row  BY DEF Send
<1>3. PICK q \in {"fail", "mark"} :
        /\ relay' = [relay EXCEPT ![w].pc = q]
        /\ q = "mark" => Record(n) /\ faults' = faults
        /\ q = "fail" => \/ log' = log /\ (faults' = faults \/ Fault)
                         \/ Record(n) /\ Fault
  BY <1>1
<1>4. /\ relay'[w].pc = q /\ relay'[w].open = relay[w].open
      /\ relay'[w].sent = relay[w].sent /\ relay'[w].todo = relay[w].todo
      /\ \A v \in Relay \ {w} : relay'[v] = relay[v]
  <2>1. relay \in [Relay -> RelayState] /\ relay[w] \in RelayState  BY DEF TypeOK
  <2>2. relay'[w] = [relay[w] EXCEPT !.pc = q]  BY <2>1, <1>3
  <2>. QED  BY <2>1, <2>2, <1>3 DEF RelayState
<1>5. IdleIsClosed'  BY <1>4 DEF SendsInv, IdleIsClosed
<1>6. LogType /\ faults \in Nat /\ MaxFaults \in Nat
  BY TypeParts, OutboxAssumption DEF TypeOK
<1>7. ASSUME NEW m \in Msg PROVE CopiesPaid(m)'
  <2>0. CopiesPaid(m)  BY DEF SendsInv
  <2>1. IsFiniteSet(Loose(m))  BY <2>0 DEF CopiesPaid
  <2>2. w \notin Loose(m)'  BY <1>4 DEF Loose
  <2>3. Current(w, m) <=> m = n  BY <1>1, CurrentIsUnique
  <2>4. Current(w, m)' <=> Current(w, m)  BY <1>4 DEF Current
  <2>5. w \in Loose(m) <=> ~relay[w].open /\ m = n  BY <1>2, <2>3 DEF Loose
  <2>6. HasSent(w, m)' <=> \/ HasSent(w, m)
                           \/ relay[w].open /\ q = "mark" /\ m = n
    BY <1>2, <1>4, <2>3, <2>4 DEF HasSent
  <2>7. Copies(m) \in Nat /\ (Record(n) => Copies(m)' = IF m = n THEN Copies(m) + 1 ELSE Copies(m))
        /\ (log' = log => Copies(m)' = Copies(m))
    BY <1>6, CopiesType, CopiesStep DEF Copies
  <2>8. Due(m) \in {0, 1} /\ Due(m)' \in {0, 1}  BY DEF Due
  <2>9. /\ IsFiniteSet(Loose(m)')
        /\ Cardinality(Loose(m)) \in Nat /\ Cardinality(Loose(m)') \in Nat
        /\ w \in Loose(m) => Cardinality(Loose(m)') = Cardinality(Loose(m)) - 1
        /\ w \notin Loose(m) => Cardinality(Loose(m)') = Cardinality(Loose(m))
        /\ (HasSent(w, m)' <=> HasSent(w, m)) => Due(m)' = Due(m)
    BY <1>2, <1>4, <2>1, <2>2, RelayAccount
  <2>10. Copies(m) + Cardinality(Loose(m)) + Due(m) <= 1 + faults  BY <2>0 DEF CopiesPaid
  <2>11. CASE q = "fail"
    <3>1. Due(m)' = Due(m)  BY <2>6, <2>9, <2>11
    <3>2. CASE faults' = faults /\ log' = log
      BY <1>6, <2>5, <2>7, <2>8, <2>9, <2>10, <3>1, <3>2 DEF CopiesPaid
    <3>3. CASE faults' = faults + 1
      <4>1. Copies(m)' = Copies(m) \/ Copies(m)' = Copies(m) + 1  BY <1>3, <2>7, <2>11
      <4>. QED  BY <1>6, <2>7, <2>8, <2>9, <2>10, <3>1, <3>3, <4>1 DEF CopiesPaid
    <3>. QED  BY <1>3, <2>11, <3>2, <3>3 DEF Fault
  <2>12. CASE q = "mark" /\ m # n
    <3>1. Due(m)' = Due(m)  BY <2>6, <2>9, <2>12
    <3>. QED  BY <1>3, <1>6, <2>5, <2>7, <2>9, <2>10, <2>12, <3>1 DEF CopiesPaid
  <2>13. CASE q = "mark" /\ m = n /\ ~relay[w].open
    <3>1. Due(m)' = Due(m)  BY <2>6, <2>9, <2>13
    <3>. QED  BY <1>3, <1>6, <2>5, <2>7, <2>8, <2>9, <2>10, <2>13, <3>1 DEF CopiesPaid
  <2>14. CASE q = "mark" /\ m = n /\ relay[w].open
    <3>1. m \in relay[w].todo /\ BatchOK(relay[w])  BY <2>3, <2>14 DEF Current, TypeOK
    <3>2. m \in relay[w].batch /\ m \notin relay[w].sent  BY <3>1 DEF BatchOK
    <3>3. row[m] = "pending"  BY <2>14, <3>2 DEF LocksAreExclusive
    <3>4. ASSUME NEW v \in Relay PROVE ~HasSent(v, m)
      <4>1. CASE v = w  BY <1>2, <3>2, <4>1 DEF HasSent
      <4>2. CASE v # w
        <5>1. HasSent(v, m) => relay[v].open /\ m \in relay[v].batch
          BY DEF HasSent, Current, TypeOK, BatchOK
        <5>. QED  BY <2>14, <3>2, <4>2, <5>1 DEF LocksAreExclusive
      <4>. QED  BY <4>1, <4>2
    <3>5. CopyDue(m) /\ ~CopyDue(m)'  BY <2>6, <2>14, <3>3, <3>4 DEF CopyDue
    <3>6. Due(m) = 1 /\ Due(m)' = 0  BY <3>5 DEF Due
    <3>. QED  BY <1>3, <1>6, <2>5, <2>7, <2>9, <2>10, <2>14, <3>6 DEF CopiesPaid
  <2>. QED  BY <2>11, <2>12, <2>13, <2>14
<1>. QED  BY <1>5, <1>7 DEF SendsInv

\* Marking a row, or giving it up, changes neither what is sent nor what may be.
LEMMA MarkPays ==
  ASSUME TypeOK, SendsInv, NEW w \in Relay, MarkSent(w) \/ MarkFailed(w)
  PROVE  SendsInv'
<1>1. relay \in [Relay -> RelayState] /\ relay[w] \in RelayState  BY DEF TypeOK
<1>2. relay[w].pc \in {"mark", "fail"} /\ UNCHANGED <<row, log, faults>>
  BY DEF MarkSent, MarkFailed
<1>3. CASE relay' = [relay EXCEPT ![w] = IdleRelay] /\ ~relay[w].open
  <2>1. /\ relay'[w].pc = "idle" /\ ~relay'[w].open
        /\ \A v \in Relay \ {w} : relay'[v] = relay[v]
    BY <1>1, <1>3 DEF IdleRelay
  <2>2. IdleIsClosed'  BY <2>1 DEF SendsInv, IdleIsClosed
  <2>3. ASSUME NEW m \in Msg PROVE CopiesPaid(m)'
    <3>1. ~HasSent(w, m) /\ ~HasSent(w, m)'  BY <1>3, <2>1 DEF HasSent
    <3>2. w \notin Loose(m) /\ w \notin Loose(m)'  BY <1>2, <2>1 DEF Loose
    <3>3. Copies(m)' = Copies(m) /\ CopiesPaid(m)  BY <1>2 DEF Copies, SendsInv
    <3>. QED  BY <1>2, <2>1, <3>1, <3>2, <3>3, RelayAccount DEF CopiesPaid
  <2>. QED  BY <2>2, <2>3 DEF SendsInv
<1>4. CASE relay[w].open
  <2>1. PICK n \in Msg :
          /\ Current(w, n)
          /\ \/ /\ relay[w].pc = "mark"
                /\ relay' = [relay EXCEPT ![w].pc = "send", ![w].todo = @ \ {n},
                                          ![w].sent = @ \cup {n}]
             \/ /\ relay[w].pc = "fail"
                /\ relay' = [relay EXCEPT ![w] = FailedOnce(@, n)]
    BY <1>4 DEF MarkSent, MarkFailed
  <2>2. /\ relay'[w].pc = "send" /\ relay'[w].open
        /\ relay[w].pc = "mark" => relay'[w].sent = relay[w].sent \cup {n}
        /\ relay[w].pc = "fail" => relay'[w].sent = relay[w].sent
        /\ \A v \in Relay \ {w} : relay'[v] = relay[v]
    <3>1. CASE relay' = [relay EXCEPT ![w].pc = "send", ![w].todo = @ \ {n},
                                      ![w].sent = @ \cup {n}]
               /\ relay[w].pc = "mark"
      <4>1. relay'[w] = [relay[w] EXCEPT !.pc = "send", !.todo = @ \ {n},
                                         !.sent = @ \cup {n}]
        BY <1>1, <3>1 DEF RelayState
      <4>. QED  BY <1>1, <1>4, <3>1, <4>1 DEF RelayState
    <3>2. CASE relay' = [relay EXCEPT ![w] = FailedOnce(@, n)] /\ relay[w].pc = "fail"
      <4>1. relay'[w] = FailedOnce(relay[w], n)  BY <1>1, <3>2
      <4>. QED  BY <1>1, <1>4, <3>2, <4>1 DEF RelayState, FailedOnce
    <3>. QED  BY <2>1, <3>1, <3>2
  <2>3. IdleIsClosed'  BY <2>2 DEF SendsInv, IdleIsClosed
  <2>4. ASSUME NEW m \in Msg PROVE CopiesPaid(m)'
    <3>1. Current(w, m) <=> m = n  BY <2>1, CurrentIsUnique
    <3>2. HasSent(w, m)' <=> HasSent(w, m)
      BY <1>2, <1>4, <2>2, <3>1 DEF HasSent
    <3>3. w \notin Loose(m) /\ w \notin Loose(m)'  BY <1>4, <2>2 DEF Loose
    <3>4. Copies(m)' = Copies(m) /\ CopiesPaid(m)  BY <1>2 DEF Copies, SendsInv
    <3>. QED  BY <1>2, <2>2, <3>2, <3>3, <3>4, RelayAccount DEF CopiesPaid
  <2>. QED  BY <2>3, <2>4 DEF SendsInv
<1>. QED  BY <1>3, <1>4 DEF MarkSent, MarkFailed

\* The rows of the batch that are due no copy any more are the ones marked sent.
LEMMA CommitPays ==
  ASSUME TypeOK, SendsInv, NEW w \in Relay, CommitBatch(w)
  PROVE  SendsInv'
<1>1. /\ relay[w].pc = "send" /\ relay[w].todo = {} /\ UNCHANGED <<log, faults>>
      /\ relay' = [relay EXCEPT ![w] = IdleRelay]
      /\ row' = IF relay[w].open
                THEN [m \in Msg |-> IF m \in relay[w].sent THEN "sent" ELSE row[m]]
                ELSE row
  BY DEF CommitBatch
<1>2. /\ relay'[w].pc = "idle" /\ ~relay'[w].open
      /\ \A v \in Relay \ {w} : relay'[v] = relay[v]
  BY <1>1 DEF IdleRelay, TypeOK
<1>3. IdleIsClosed'  BY <1>2 DEF SendsInv, IdleIsClosed
<1>4. ASSUME NEW m \in Msg PROVE CopiesPaid(m)'
  <2>1. ~HasSent(w, m)'  BY <1>2 DEF HasSent
  <2>2. w \notin Loose(m) /\ w \notin Loose(m)'  BY <1>1, <1>2 DEF Loose, Current
  <2>3. Copies(m)' = Copies(m) /\ CopiesPaid(m)  BY <1>1 DEF Copies, SendsInv
  <2>4. IsFiniteSet(Loose(m)') /\ Cardinality(Loose(m)') = Cardinality(Loose(m))
        /\ Cardinality(Loose(m)) \in Nat
    BY <1>2, <2>2, <2>3, RelayAccount DEF CopiesPaid
  <2>5. HasSent(w, m) => Due(m)' = 0
    BY <1>1 DEF HasSent, Due, CopyDue
  <2>6. ~HasSent(w, m) => row'[m] = row[m] \/ Due(m)' = 0
    BY <1>1 DEF Due, CopyDue
  <2>7. Due(m)' = Due(m) \/ Due(m)' = 0
    BY <1>2, <2>1, <2>3, <2>5, <2>6, RelayAccount DEF CopiesPaid
  <2>8. Due(m) \in {0, 1} /\ Copies(m) \in Nat /\ faults \in Nat
    <3>1. LogType /\ faults \in Nat  BY TypeParts
    <3>. QED  BY <3>1, CopiesType DEF Due
  <2>. QED  BY <1>1, <2>3, <2>4, <2>7, <2>8 DEF CopiesPaid
<1>. QED  BY <1>3, <1>4 DEF SendsInv

\* A rollback makes rows due again that were sent, or leaves a worker that has
\* not sent its row yet: one copy per message, and never both.
LEMMA DropPays ==
  ASSUME TypeOK, SendsInv, NEW w \in Relay, TxTimeout(w) \/ KillRelay(w)
  PROVE  SendsInv'
<1>1. relay \in [Relay -> RelayState] /\ relay[w] \in RelayState /\ BatchOK(relay[w])
  BY DEF TypeOK
<1>2. UNCHANGED <<row, log>> /\ faults' = faults + 1 /\ faults \in Nat
  BY DEF TxTimeout, KillRelay, Fault, TypeOK
<1>3. /\ ~relay'[w].open
      /\ \/ /\ relay[w].open /\ relay'[w].pc = relay[w].pc /\ relay'[w].todo = relay[w].todo
            /\ relay[w].pc # "idle"
         \/ relay'[w].pc = "idle"
      /\ \A v \in Relay \ {w} : relay'[v] = relay[v]
  <2>1. CASE TxTimeout(w)
    <3>1. relay'[w] = [relay[w] EXCEPT !.open = FALSE] /\ relay[w].open
      BY <1>1, <2>1 DEF TxTimeout
    <3>2. relay[w].pc # "idle"  BY <3>1 DEF SendsInv, IdleIsClosed
    <3>. QED  BY <1>1, <2>1, <3>1, <3>2 DEF TxTimeout, RelayState
  <2>2. CASE KillRelay(w)
    BY <1>1, <2>2 DEF KillRelay, IdleRelay
  <2>. QED  BY <2>1, <2>2
<1>4. IdleIsClosed'  BY <1>3 DEF SendsInv, IdleIsClosed
<1>5. ASSUME NEW m \in Msg PROVE CopiesPaid(m)'
  <2>1. ~HasSent(w, m)'  BY <1>3 DEF HasSent
  <2>2. Copies(m)' = Copies(m) /\ CopiesPaid(m)  BY <1>2 DEF Copies, SendsInv
  <2>3. Due(m) \in {0, 1} /\ Due(m)' \in {0, 1} /\ Copies(m) \in Nat
    BY CopiesType, TypeParts DEF Due
  <2>4. /\ IsFiniteSet(Loose(m)')
        /\ Cardinality(Loose(m)) \in Nat /\ Cardinality(Loose(m)') \in Nat
        /\ Cardinality(Loose(m)') <= Cardinality(Loose(m)) + 1
        /\ ~(w \notin Loose(m) /\ w \in Loose(m)')
              => Cardinality(Loose(m)') <= Cardinality(Loose(m))
        /\ ~HasSent(w, m) => Due(m)' = Due(m)
    BY <1>2, <1>3, <2>1, <2>2, RelayAccount DEF CopiesPaid
  <2>5. (w \notin Loose(m) /\ w \in Loose(m)') => ~HasSent(w, m)
    BY <1>1, <1>3 DEF Loose, HasSent, Current, BatchOK
  <2>. QED  BY <1>2, <2>2, <2>3, <2>4, <2>5 DEF CopiesPaid
<1>. QED  BY <1>4, <1>5 DEF SendsInv

LEMMA InitSends == Init => SendsInv
<1>. SUFFICES ASSUME Init PROVE SendsInv  OBVIOUS
<1>1. IdleIsClosed  BY DEF Init, IdleRelay, IdleIsClosed
<1>2. ASSUME NEW m \in Msg PROVE CopiesPaid(m)
  <2>1. Loose(m) = {}  BY DEF Loose, Init, IdleRelay
  <2>2. {i \in DOMAIN log[PartOf[m]] : log[PartOf[m]][i] = m} = {}
    BY OutboxAssumption DEF Init
  <2>3. IsFiniteSet(Loose(m)) /\ Cardinality(Loose(m)) = 0 /\ Copies(m) = 0
    BY <2>1, <2>2, FS_EmptySet DEF Copies
  <2>4. Due(m) \in {0, 1} /\ faults = 0  BY DEF Due, Init
  <2>. QED  BY <2>3, <2>4 DEF CopiesPaid
<1>. QED  BY <1>1, <1>2 DEF SendsInv

LEMMA NextKeepsSends == TypeOK /\ LocksAreExclusive /\ SendsInv /\ [Next]_vars => SendsInv'
<1>. SUFFICES ASSUME TypeOK, LocksAreExclusive, SendsInv, [Next]_vars PROVE SendsInv'
  OBVIOUS
\* The consumers leave the account alone, but for the failures they add.
<1>1. ASSUME UNCHANGED <<row, relay, log>>, faults' = faults \/ faults' = faults + 1
      PROVE  SendsInv'
  <2>1. IdleIsClosed'  BY <1>1 DEF SendsInv, IdleIsClosed
  <2>2. ASSUME NEW m \in Msg PROVE CopiesPaid(m)'
    <3>1. Loose(m)' = Loose(m) /\ Copies(m)' = Copies(m) /\ Due(m)' = Due(m)
      BY <1>1 DEF Loose, Copies, Current, Due, CopyDue, HasSent
    <3>2. CopiesPaid(m) /\ Due(m) \in {0, 1}  BY DEF SendsInv, Due
    <3>3. Copies(m) \in Nat /\ Cardinality(Loose(m)) \in Nat /\ faults \in Nat
      <4>1. LogType /\ faults \in Nat  BY TypeParts
      <4>. QED  BY <3>2, <4>1, CopiesType, FS_CardinalityType DEF CopiesPaid
    <3>. QED  BY <1>1, <3>1, <3>2, <3>3 DEF CopiesPaid
  <2>. QED  BY <2>1, <2>2 DEF SendsInv
<1>2. CASE UNCHANGED vars  BY <1>1, <1>2 DEF vars, relayVars
<1>3. ASSUME NEW c \in Consumer,
             \/ \E p \in Partition : Fetch(c, p) \/ CommitOffset(c, p) \/ Rebalance(c, p)
             \/ Handle(c) \/ MarkProcessed(c) \/ KillConsumer(c)
      PROVE  SendsInv'
  BY <1>1, <1>3 DEF Fetch, CommitOffset, Rebalance, Handle, MarkProcessed, KillConsumer,
                    Fault, relayVars
<1>. QED
  BY <1>2, <1>3, PublishPays, CleanupPays, PollPays, SendPays, MarkPays, CommitPays,
     DropPays DEF Next

-----------------------------------------------------------------------------
(* The runs of the handler.                                                 *)

\* What a step of one consumer does to the set of those in the handler.
LEMMA GroupAccount ==
  ASSUME NEW m \in Msg, NEW c \in Consumer, IsFiniteSet(Handling(m)),
         \A d \in Consumer \ {c} : consumer'[d] = consumer[d]
  PROVE  /\ IsFiniteSet(Handling(m)')
         /\ Cardinality(Handling(m)) \in Nat /\ Cardinality(Handling(m)') \in Nat
         /\ (c \in Handling(m)' <=> c \in Handling(m))
               => Cardinality(Handling(m)') = Cardinality(Handling(m))
         /\ (c \in Handling(m) /\ c \notin Handling(m)')
               => Cardinality(Handling(m)') = Cardinality(Handling(m)) - 1
         /\ (c \notin Handling(m) /\ c \in Handling(m)')
               => Cardinality(Handling(m)') = Cardinality(Handling(m)) + 1
<1>1. Handling(m)' \ {c} = Handling(m) \ {c}  BY DEF Handling
<1>. QED  BY <1>1, OneElement

LEMMA PlacedStays ==
  ASSUME LogType, Placed, UNCHANGED log \/ \E m \in Msg : Record(m)
  PROVE  Placed'
<1>1. CASE UNCHANGED log  BY <1>1 DEF Placed
<1>2. ASSUME NEW m \in Msg, Record(m) PROVE Placed'
  <2>. SUFFICES ASSUME NEW p \in Partition, NEW i \in 1..Len(log'[p])
                PROVE  PartOf[log'[p][i]] = p
    BY DEF Placed
  <2>0. log[p] \in Seq(Msg)  BY DEF LogType
  <2>1. log' = [log EXCEPT ![PartOf[m]] = Append(log[PartOf[m]], m)]
    BY <1>2 DEF Record
  <2>2. CASE p # PartOf[m]
    <3>1. log'[p] = log[p]  BY <2>1, <2>2 DEF LogType
    <3>. QED  BY <3>1 DEF Placed
  <2>3. CASE p = PartOf[m]
    <3>1. log'[p] = Append(log[p], m)  BY <2>1, <2>3 DEF LogType
    <3>2. CASE i \in 1..Len(log[p])
      BY <2>0, <3>1, <3>2 DEF Placed
    <3>3. CASE i = Len(log[p]) + 1
      BY <2>0, <2>3, <3>1, <3>3
    <3>. QED  BY <2>0, <3>1, <3>2, <3>3
  <2>. QED  BY <2>2, <2>3
<1>. QED  BY <1>1, <1>2

\* Producers and relays leave the account alone, but for the failures they add.
LEMMA RelaySidePays ==
  ASSUME TypeOK, RunsInv, UNCHANGED groupVars, faults' = faults \/ faults' = faults + 1,
         UNCHANGED log \/ \E m \in Msg : Record(m)
  PROVE  RunsInv'
<1>1. LogType /\ faults \in Nat /\ runs \in [Msg -> Nat]  BY TypeParts DEF GroupTypes
<1>2. Placed'  BY <1>1, PlacedStays DEF RunsInv
<1>3. ASSUME NEW m \in Msg PROVE RunsPaid(m)'
  <2>1. Handling(m)' = Handling(m) /\ (RunDue(m)' <=> RunDue(m)) /\ runs'[m] = runs[m]
    BY DEF groupVars, Handling, RunDue
  <2>2. DueRun(m)' = DueRun(m) /\ DueRun(m) \in {0, 1}  BY <2>1 DEF DueRun
  <2>3. RunsPaid(m)  BY DEF RunsInv
  <2>4. Cardinality(Handling(m)) \in Nat  BY <2>3, FS_CardinalityType DEF RunsPaid
  <2>. QED  BY <1>1, <2>1, <2>2, <2>3, <2>4 DEF RunsPaid
<1>. QED  BY <1>2, <1>3 DEF RunsInv

\* A consumer begins with a message it owns and that is not processed: the run
\* was due.
LEMMA FetchPays ==
  ASSUME TypeOK, RunsInv, NEW c \in Consumer, NEW p \in Partition, Fetch(c, p)
  PROVE  RunsInv'
<1>1. /\ UNCHANGED <<log, owner, processed, runs, faults>>
      /\ consumer[c].pc = "idle" /\ owner[p] = c
  BY DEF Fetch
<1>2. LogType /\ consumer \in [Consumer -> ConsumerState] /\ runs \in [Msg -> Nat]
      /\ pos[c][p] \in Nat
  BY TypeParts DEF GroupTypes
<1>3. Placed'  BY <1>1, <1>2, PlacedStays DEF RunsInv
<1>4. ASSUME NEW m \in Msg PROVE RunsPaid(m)'
  <2>0. RunsPaid(m)  BY DEF RunsInv
  <2>1. CASE consumer' = consumer
    <3>1. Handling(m)' = Handling(m) /\ DueRun(m)' = DueRun(m)
      BY <1>1, <2>1 DEF Handling, DueRun, RunDue
    <3>. QED  BY <1>1, <2>0, <3>1 DEF RunsPaid
  <2>2. CASE consumer' # consumer
    <3>. DEFINE n == log[p][pos[c][p] + 1]
    <3>1. /\ n \notin processed /\ pos[c][p] < Len(log[p])
          /\ consumer' = [consumer EXCEPT ![c] = [pc |-> "handle", msg |-> n]]
      BY <2>2 DEF Fetch, NotProcessed
    <3>2. pos[c][p] + 1 \in 1..Len(log[p]) /\ log[p] \in Seq(Msg)
      BY <1>2, <3>1 DEF LogType
    <3>3. n \in Msg /\ PartOf[n] = p  BY <3>2 DEF RunsInv, Placed
    <3>. HIDE DEF n
    <3>4. /\ consumer'[c].pc = "handle" /\ consumer'[c].msg = n
          /\ \A d \in Consumer \ {c} : consumer'[d] = consumer[d]
          /\ consumer[c].msg \notin Msg
      BY <1>1, <1>2, <3>1 DEF ConsumerState, IdleConsumer, Msg
    <3>5. c \notin Handling(m) /\ (c \in Handling(m)' <=> m = n)
      BY <1>1, <3>4 DEF Handling
    <3>6. m # n => (RunDue(m)' <=> RunDue(m))
      <4>1. owner[PartOf[m]] \in Consumer  BY OutboxAssumption, TypeParts DEF GroupTypes
      <4>. QED  BY <1>1, <3>4, <4>1 DEF RunDue
    <3>7. m = n => RunDue(m) /\ ~RunDue(m)'
      BY <1>1, <3>1, <3>3, <3>4 DEF RunDue
    <3>8. (m # n => DueRun(m)' = DueRun(m)) /\ (m = n => DueRun(m) = 1 /\ DueRun(m)' = 0)
      BY <3>6, <3>7 DEF DueRun
    <3>9. /\ IsFiniteSet(Handling(m)')
          /\ Cardinality(Handling(m)) \in Nat /\ Cardinality(Handling(m)') \in Nat
          /\ m = n => Cardinality(Handling(m)') = Cardinality(Handling(m)) + 1
          /\ m # n => Cardinality(Handling(m)') = Cardinality(Handling(m))
      BY <2>0, <3>4, <3>5, GroupAccount DEF RunsPaid
    <3>10. runs[m] \in Nat /\ runs'[m] = runs[m]  BY <1>1, <1>2
    <3>. QED  BY <1>1, <2>0, <3>8, <3>9, <3>10 DEF RunsPaid
  <2>. QED  BY <2>1, <2>2
<1>. QED  BY <1>3, <1>4 DEF RunsInv

\* A run that ends well was counted with its consumer; one that throws is due
\* again, for a failure.
LEMMA HandlePays ==
  ASSUME TypeOK, RunsInv, NEW c \in Consumer, Handle(c)
  PROVE  RunsInv'
<1>. DEFINE n == consumer[c].msg
<1>1. UNCHANGED <<log, owner, processed>> /\ consumer[c].pc = "handle"  BY DEF Handle
<1>2. /\ LogType /\ consumer \in [Consumer -> ConsumerState] /\ runs \in [Msg -> Nat]
      /\ faults \in Nat
  BY TypeParts DEF GroupTypes
<1>3. Placed'  BY <1>1, <1>2, PlacedStays DEF RunsInv
<1>4. n \in Msg /\ consumer[c] \in [pc : {"handle", "mark"}, msg : Msg]
  BY <1>1, <1>2 DEF ConsumerState, IdleConsumer
<1>5. \A d \in Consumer \ {c} : consumer'[d] = consumer[d]  BY <1>2 DEF Handle, AfterThrow
<1>. HIDE DEF n
<1>6. ASSUME NEW m \in Msg PROVE RunsPaid(m)'
  <2>0. RunsPaid(m)  BY DEF RunsInv
  <2>1. c \in Handling(m) <=> m = n  BY <1>1 DEF Handling, n
  <2>2. DueRun(m) \in {0, 1} /\ DueRun(m)' \in {0, 1}  BY DEF DueRun
  <2>3. CASE faults' = faults /\ runs' = [runs EXCEPT ![n] = @ + 1]
             /\ consumer' = [consumer EXCEPT ![c].pc = "mark"]
    <3>1. consumer'[c].pc = "mark" /\ consumer'[c].msg = n
      <4>1. consumer'[c] = [consumer[c] EXCEPT !.pc = "mark"]  BY <1>2, <2>3
      <4>. QED  BY <1>4, <4>1 DEF n
    <3>2. c \notin Handling(m)'  BY <3>1 DEF Handling
    <3>3. \A d \in Consumer : consumer'[d].msg = consumer[d].msg  BY <1>5, <3>1 DEF n
    <3>4. owner[PartOf[m]] \in Consumer  BY OutboxAssumption, TypeParts DEF GroupTypes
    <3>5. DueRun(m)' = DueRun(m)  BY <1>1, <3>3, <3>4 DEF DueRun, RunDue
    <3>6. runs[m] \in Nat /\ runs'[m] = IF m = n THEN runs[m] + 1 ELSE runs[m]
      BY <1>2, <1>4, <2>3
    <3>7. /\ IsFiniteSet(Handling(m)')
          /\ Cardinality(Handling(m)) \in Nat /\ Cardinality(Handling(m)') \in Nat
          /\ m = n => Cardinality(Handling(m)') = Cardinality(Handling(m)) - 1
          /\ m # n => Cardinality(Handling(m)') = Cardinality(Handling(m))
      BY <1>5, <2>0, <2>1, <3>2, GroupAccount DEF RunsPaid
    <3>. QED  BY <1>2, <2>0, <2>2, <2>3, <3>5, <3>6, <3>7 DEF RunsPaid
  <2>4. CASE faults' = faults + 1 /\ runs' = runs
             /\ consumer' = [consumer EXCEPT ![c] = IdleConsumer]
    <3>1. consumer'[c].pc = "idle"  BY <1>2, <2>4 DEF IdleConsumer
    <3>2. c \notin Handling(m)'  BY <3>1 DEF Handling
    <3>3. m # n => DueRun(m)' = DueRun(m)
      <4>1. consumer'[c].msg # m  BY <1>2, <2>4 DEF IdleConsumer, Msg
      <4>2. m # n => (RunDue(m)' <=> RunDue(m))
        BY <1>1, <1>5, <4>1, OutboxAssumption, TypeParts DEF RunDue, n, GroupTypes
      <4>. QED  BY <4>2 DEF DueRun
    <3>4. runs[m] \in Nat  BY <1>2
    <3>5. /\ IsFiniteSet(Handling(m)')
          /\ Cardinality(Handling(m)) \in Nat /\ Cardinality(Handling(m)') \in Nat
          /\ Cardinality(Handling(m)') <= Cardinality(Handling(m))
      BY <1>5, <2>0, <3>2, GroupAccount DEF RunsPaid
    <3>. QED  BY <1>2, <2>0, <2>2, <2>4, <3>4, <3>5 DEF RunsPaid
  <2>. QED  BY <2>3, <2>4 DEF Handle, AfterThrow, Fault, n
<1>. QED  BY <1>3, <1>6 DEF RunsInv

\* The steps that end work without a run: what is processed is due no run, and
\* what is not was a failure.
LEMMA EndPays ==
  ASSUME TypeOK, RunsInv, NEW c \in Consumer, MarkProcessed(c) \/ KillConsumer(c)
  PROVE  RunsInv'
<1>1. /\ UNCHANGED <<log, owner, runs>> /\ processed \subseteq processed'
      /\ consumer' = [consumer EXCEPT ![c] = IdleConsumer]
  BY DEF MarkProcessed, KillConsumer
<1>2. /\ LogType /\ consumer \in [Consumer -> ConsumerState] /\ runs \in [Msg -> Nat]
      /\ faults \in Nat /\ owner \in [Partition -> Consumer]
  BY TypeParts DEF GroupTypes
<1>3. Placed'  BY <1>1, <1>2, PlacedStays DEF RunsInv
<1>4. \/ faults' = faults + 1
      \/ faults' = faults /\ consumer[c].msg \in processed'
  BY DEF MarkProcessed, KillConsumer, Fault
<1>5. /\ consumer'[c].pc = "idle" /\ consumer'[c].msg \notin Msg
      /\ \A d \in Consumer \ {c} : consumer'[d] = consumer[d]
  BY <1>1, <1>2 DEF IdleConsumer, Msg
<1>6. ASSUME NEW m \in Msg PROVE RunsPaid(m)'
  <2>0. RunsPaid(m)  BY DEF RunsInv
  <2>1. c \notin Handling(m)'  BY <1>5 DEF Handling
  <2>2. /\ IsFiniteSet(Handling(m)')
        /\ Cardinality(Handling(m)) \in Nat /\ Cardinality(Handling(m)') \in Nat
        /\ Cardinality(Handling(m)') <= Cardinality(Handling(m))
    BY <1>5, <2>0, <2>1, GroupAccount DEF RunsPaid
  <2>3. DueRun(m) \in {0, 1} /\ DueRun(m)' \in {0, 1} /\ runs[m] \in Nat /\ runs'[m] = runs[m]
    BY <1>1, <1>2 DEF DueRun
  <2>4. ASSUME faults' = faults PROVE DueRun(m)' <= DueRun(m)
    <3>1. owner[PartOf[m]] \in Consumer  BY <1>2, OutboxAssumption
    <3>2. RunDue(m)' => RunDue(m)
      BY <1>1, <1>2, <1>4, <1>5, <2>4, <3>1 DEF RunDue
    <3>. QED  BY <3>2 DEF DueRun
  <2>. QED  BY <1>2, <1>4, <2>0, <2>2, <2>3, <2>4 DEF RunsPaid
<1>. QED  BY <1>3, <1>6 DEF RunsInv

\* A partition that changes hands makes each of its messages due once more.
LEMMA OffsetPays ==
  ASSUME TypeOK, RunsInv, NEW c \in Consumer, NEW p \in Partition,
         CommitOffset(c, p) \/ Rebalance(c, p)
  PROVE  RunsInv'
<1>1. UNCHANGED <<log, consumer, processed, runs>>  BY DEF CommitOffset, Rebalance
<1>2. LogType /\ runs \in [Msg -> Nat] /\ faults \in Nat  BY TypeParts DEF GroupTypes
<1>3. Placed'  BY <1>1, <1>2, PlacedStays DEF RunsInv
<1>4. faults' = faults + 1 \/ (faults' = faults /\ owner' = owner)
  BY DEF CommitOffset, Rebalance, Fault
<1>5. ASSUME NEW m \in Msg PROVE RunsPaid(m)'
  <2>0. RunsPaid(m)  BY DEF RunsInv
  <2>1. Handling(m)' = Handling(m) /\ runs'[m] = runs[m]  BY <1>1 DEF Handling
  <2>2. DueRun(m) \in {0, 1} /\ DueRun(m)' \in {0, 1}  BY DEF DueRun
  <2>3. owner' = owner => DueRun(m)' = DueRun(m)  BY <1>1 DEF DueRun, RunDue
  <2>4. Cardinality(Handling(m)) \in Nat /\ runs[m] \in Nat
    BY <1>2, <2>0, FS_CardinalityType DEF RunsPaid
  <2>. QED  BY <1>2, <1>4, <2>0, <2>1, <2>2, <2>3, <2>4 DEF RunsPaid
<1>. QED  BY <1>3, <1>5 DEF RunsInv

LEMMA InitRuns == Init => RunsInv
<1>. SUFFICES ASSUME Init PROVE RunsInv  OBVIOUS
<1>1. Placed  BY DEF Init, Placed
<1>2. ASSUME NEW m \in Msg PROVE RunsPaid(m)
  <2>1. Handling(m) = {}  BY DEF Handling, Init, IdleConsumer
  <2>2. IsFiniteSet(Handling(m)) /\ Cardinality(Handling(m)) = 0  BY <2>1, FS_EmptySet
  <2>3. DueRun(m) \in {0, 1} /\ faults = 0 /\ runs[m] = 0  BY DEF DueRun, Init
  <2>. QED  BY <2>2, <2>3 DEF RunsPaid
<1>. QED  BY <1>1, <1>2 DEF RunsInv

LEMMA NextKeepsRuns == TypeOK /\ RunsInv /\ [Next]_vars => RunsInv'
<1>. SUFFICES ASSUME TypeOK, RunsInv, [Next]_vars PROVE RunsInv'  OBVIOUS
<1>1. CASE UNCHANGED vars  BY <1>1, RelaySidePays DEF vars
<1>2. ASSUME \/ \E m \in Msg : Publish(m)
             \/ \E S \in SUBSET Msg : Cleanup(S)
             \/ \E w \in Relay : \/ RelayStep(w) \/ TxTimeout(w) \/ KillRelay(w)
      PROVE  RunsInv'
  BY <1>2, RelaySidePays
     DEF Publish, Cleanup, RelayStep, Poll, Send, MarkSent, MarkFailed, CommitBatch,
         TxTimeout, KillRelay, Fault
<1>3. ASSUME NEW c \in Consumer,
             \/ \E p \in Partition : Fetch(c, p) \/ CommitOffset(c, p) \/ Rebalance(c, p)
             \/ Handle(c) \/ MarkProcessed(c) \/ KillConsumer(c)
      PROVE  RunsInv'
  BY <1>3, FetchPays, HandlePays, EndPays, OffsetPays
<1>. QED  BY <1>1, <1>2, <1>3 DEF Next, RelayStep

-----------------------------------------------------------------------------
\* The accounts hold in every reachable state.
THEOREM AccountsInvariant == Spec => [](SendsInv /\ RunsInv)
<1>. DEFINE Inv == SendsInv /\ RunsInv
<1>1. Init => Inv  BY InitSends, InitRuns
<1>2. IInv /\ Inv /\ [Next]_vars => Inv'
  BY NextKeepsSends, NextKeepsRuns DEF IInv
<1>. HIDE DEF Inv
<1>3. Spec => []Inv  BY <1>1, <1>2, OutboxInvariant, PTL DEF Spec
<1>. QED  BY <1>3 DEF Inv

\* Overlapping relays, batches that time out while their worker goes on, and
\* rebalances in the middle of a handler add no copy and no run beyond one per
\* failure.
THEOREM DuplicatesTheorem == Spec => []DuplicatesNeedFaults
<1>1. TypeOK /\ SendsInv /\ RunsInv => DuplicatesNeedFaults
  <2>. SUFFICES ASSUME TypeOK, SendsInv, RunsInv, NEW m \in Msg
                PROVE  Copies(m) <= 1 + faults /\ runs[m] <= 1 + faults
    BY DEF DuplicatesNeedFaults
  <2>1. LogType /\ runs[m] \in Nat /\ faults \in Nat  BY TypeParts DEF GroupTypes
  <2>2. CopiesPaid(m) /\ RunsPaid(m)  BY DEF SendsInv, RunsInv
  <2>3. /\ Cardinality(Loose(m)) \in Nat /\ Cardinality(Handling(m)) \in Nat
        /\ Copies(m) \in Nat /\ Due(m) \in {0, 1} /\ DueRun(m) \in {0, 1}
    BY <2>1, <2>2, CopiesType, FS_CardinalityType DEF CopiesPaid, RunsPaid, Due, DueRun
  <2>. QED  BY <2>1, <2>2, <2>3 DEF CopiesPaid, RunsPaid
<1>2. IInv => TypeOK  BY DEF IInv
<1>. QED  BY <1>1, <1>2, OutboxInvariant, AccountsInvariant, PTL

-----------------------------------------------------------------------------
(* Outbox implements EventDelivery.                                         *)

\* A batch holds committed rows only; who is in a handler has a record of the
\* log, and who marks it is through with it.
StagesOK ==
    /\ \A w \in Relay : relay[w].batch \subseteq Committed
    /\ \A c \in Consumer : consumer[c].pc # "idle" => consumer[c].msg \in Logged
    /\ \A c \in Consumer : consumer[c].pc = "mark" => consumer[c].msg \in Ran

Advances == StagesOK' /\ [Delivery!Next]_(Delivery!deliveryVars)

LEMMA InitStages == Init => StagesOK /\ Delivery!Init
<1>. SUFFICES ASSUME Init PROVE StagesOK /\ Delivery!Init  OBVIOUS
<1>1. StagesOK  BY DEF Init, StagesOK, IdleRelay, IdleConsumer
<1>2. Committed = {} /\ Settled = {} /\ Ran = {} /\ processed = {}
  BY DEF Init, Committed, Settled, Ran
<1>3. Logged = {} /\ Passed = {} /\ Skipped = {}
  BY DEF Init, Logged, Passed, Skipped, Through
<1>. QED  BY <1>1, <1>2, <1>3 DEF Delivery!Init

LEMMA RecordLogs ==
  ASSUME LogType, NEW m \in Msg, Record(m)
  PROVE  Logged' = Logged \cup {m}
<1>1. Logged \cup {m} \subseteq Logged'  BY LogGrows
<1>2. ASSUME NEW k \in Logged' PROVE k \in Logged \cup {m}
  <2>1. PICK p \in Partition : \E i \in DOMAIN log'[p] : k = log'[p][i]
    BY <1>2 DEF Logged
  <2>2. PICK i \in DOMAIN log'[p] : k = log'[p][i]  BY <2>1
  <2>3. log[p] \in Seq(Msg) /\ (log'[p] = log[p] \/ log'[p] = Append(log[p], m))
    BY DEF LogType, Record
  <2>4. CASE i \in 1..Len(log[p])
    <3>1. i \in DOMAIN log[p] /\ k = log[p][i]  BY <2>2, <2>3, <2>4
    <3>. QED  BY <3>1 DEF Logged
  <2>5. CASE i \notin 1..Len(log[p])  BY <2>2, <2>3, <2>5
  <2>. QED  BY <2>4, <2>5
<1>. QED  BY <1>1, <1>2

LEMMA PassedStays ==
  ASSUME TypeOK, PositionsAreProcessed, UNCHANGED <<offset, origin>>,
         UNCHANGED log \/ \E m \in Msg : Record(m)
  PROVE  Passed' = Passed /\ Skipped' = Skipped
<1>1. LogType /\ \A p \in Partition : /\ Through(p) \in Nat /\ origin[p] \in Nat
                                      /\ Len(log[p]) \in Nat
  BY TypeParts DEF GroupTypes, LogType, Through
<1>2. \A p \in Partition : Through(p)' = Through(p)  BY DEF Through
<1>3. ASSUME NEW p \in Partition, NEW i \in 1..Through(p) PROVE log'[p][i] = log[p][i]
  <2>1. i \in 1..Len(log[p])  BY <1>1 DEF PositionsAreProcessed, PrefixDone
  <2>. QED  BY <1>1, <2>1, LogGrows
<1>4. ASSUME NEW p \in Partition
      PROVE  /\ origin[p] + 1 .. Through(p) \subseteq 1..Through(p)
             /\ 1..origin[p] \subseteq 1..Through(p)
  <2>1. origin[p] <= Through(p)  BY DEF PositionsAreProcessed
  <2>. QED  BY <1>1, <2>1
<1>. QED  BY <1>2, <1>3, <1>4 DEF Passed, Skipped

\* What a producer or a relay has to show.
LEMMA RelaySideStages ==
  ASSUME TypeOK, PositionsAreProcessed, StagesOK, UNCHANGED groupVars,
         UNCHANGED log \/ \E m \in Msg : Record(m),
         Committed \subseteq Committed',
         \A w \in Relay : relay'[w].batch \subseteq Committed
  PROVE  StagesOK' /\ UNCHANGED <<Ran, processed, Passed, Skipped>>
<1>1. LogType  BY TypeParts
<1>2. Logged \subseteq Logged'  BY <1>1, LogGrows DEF Logged
<1>3. Ran' = Ran /\ UNCHANGED <<processed, offset, origin, consumer>>  BY DEF groupVars, Ran
<1>4. Passed' = Passed /\ Skipped' = Skipped  BY <1>3, PassedStays
<1>. QED  BY <1>2, <1>3, <1>4 DEF StagesOK

LEMMA PublishAdvances ==
  ASSUME IInv, StagesOK, NEW m \in Msg, Publish(m)
  PROVE  Advances
<1>1. /\ row[m] = "absent" /\ row' = [row EXCEPT ![m] = "pending"]
      /\ UNCHANGED <<relay, log, groupVars>>
  BY DEF Publish
<1>2. row \in [Msg -> {"absent", "pending", "sent", "purged"}]  BY DEF IInv, TypeOK
<1>3. Committed' = Committed \cup {m} /\ Settled' = Settled /\ Logged' = Logged
  BY <1>1, <1>2 DEF Committed, Settled, Logged
<1>4. StagesOK' /\ UNCHANGED <<Ran, processed, Passed, Skipped>>
  BY <1>1, <1>3, RelaySideStages DEF IInv, StagesOK
<1>5. Delivery!Commit(m)  BY <1>3, <1>4 DEF Delivery!Commit
<1>. QED  BY <1>4, <1>5 DEF Advances, Delivery!Next

LEMMA CleanupAdvances ==
  ASSUME IInv, StagesOK, NEW S \in SUBSET Msg, Cleanup(S)
  PROVE  Advances
<1>1. /\ row' = [m \in Msg |-> IF m \in S THEN "purged" ELSE row[m]]
      /\ \A m \in S : row[m] = "sent"
      /\ UNCHANGED <<relay, log, groupVars>>
  BY DEF Cleanup
<1>2. Committed' = Committed /\ Settled' = Settled /\ Logged' = Logged
  BY <1>1 DEF Committed, Settled, Logged
<1>3. StagesOK' /\ UNCHANGED <<Ran, processed, Passed, Skipped>>
  BY <1>1, <1>2, RelaySideStages DEF IInv, StagesOK
<1>. QED  BY <1>2, <1>3 DEF Advances, Delivery!deliveryVars

\* Steps of a relay that neither log nor settle anything.
LEMMA WorkerAdvances ==
  ASSUME IInv, StagesOK, NEW w \in Relay,
         Poll(w) \/ MarkSent(w) \/ MarkFailed(w) \/ TxTimeout(w) \/ KillRelay(w)
  PROVE  Advances
<1>1. UNCHANGED <<row, log, groupVars>>
  BY DEF Poll, MarkSent, MarkFailed, TxTimeout, KillRelay
<1>2. Committed' = Committed /\ Settled' = Settled /\ Logged' = Logged
  BY <1>1 DEF Committed, Settled, Logged
<1>3. relay \in [Relay -> RelayState]  BY DEF IInv, TypeOK
<1>4. \/ relay'[w].batch \in {relay[w].batch, {}}
      \/ relay'[w].batch \subseteq Committed
  <2>1. CASE Poll(w)
    <3>1. relay'[w].batch = Oldest(Available, BatchSize)
      BY <1>3, <2>1 DEF Poll, IdleRelay
    <3>. QED  BY <3>1 DEF Oldest, Available, Unsent, Committed
  <2>. DEFINE Marked(m) == [relay[w] EXCEPT !.pc = "send", !.todo = @ \ {m},
                                            !.sent = @ \cup {m}]
  <2>0. /\ IdleRelay.batch = {}
        /\ \A m \in Msg : /\ Marked(m).batch = relay[w].batch
                          /\ FailedOnce(relay[w], m).batch = relay[w].batch
    BY <1>3 DEF IdleRelay, RelayState, FailedOnce
  <2>2. CASE MarkSent(w)
    <3>1. relay'[w] = IdleRelay \/ \E m \in Msg : relay'[w] = Marked(m)
      BY <1>3, <2>2 DEF MarkSent, RelayState
    <3>. QED  BY <2>0, <3>1
  <2>3. CASE MarkFailed(w)
    <3>1. relay'[w] = IdleRelay \/ \E m \in Msg : relay'[w] = FailedOnce(relay[w], m)
      BY <1>3, <2>3 DEF MarkFailed
    <3>. QED  BY <2>0, <3>1
  <2>4. CASE TxTimeout(w) \/ KillRelay(w)
    BY <1>3, <2>4 DEF TxTimeout, KillRelay, IdleRelay, RelayState
  <2>. QED  BY <2>1, <2>2, <2>3, <2>4
<1>5. \A v \in Relay \ {w} : relay'[v] = relay[v]
  BY <1>3 DEF Poll, MarkSent, MarkFailed, TxTimeout, KillRelay
<1>6. \A v \in Relay : relay'[v].batch \subseteq Committed
  BY <1>4, <1>5 DEF StagesOK
<1>7. StagesOK' /\ UNCHANGED <<Ran, processed, Passed, Skipped>>
  BY <1>1, <1>2, <1>6, RelaySideStages DEF IInv
<1>. QED  BY <1>2, <1>7 DEF Advances, Delivery!deliveryVars

\* Also a worker that lost its transaction sends committed rows only.
LEMMA SendAdvances ==
  ASSUME IInv, StagesOK, NEW w \in Relay, Send(w)
  PROVE  Advances
<1>1. PICK m \in Msg, q \in {"fail", "mark"} :
        /\ Current(w, m) /\ relay' = [relay EXCEPT ![w].pc = q]
        /\ Record(m) \/ log' = log
  BY DEF Send
<1>2. UNCHANGED <<row, groupVars>>  BY DEF Send
<1>3. Committed' = Committed /\ Settled' = Settled  BY <1>2 DEF Committed, Settled
<1>4. relay \in [Relay -> RelayState] /\ BatchOK(relay[w]) /\ LogType
  BY TypeParts DEF IInv, TypeOK
<1>5. \A v \in Relay : relay'[v].batch = relay[v].batch
  BY <1>1, <1>4 DEF RelayState
<1>6. m \in Committed  BY <1>1, <1>4 DEF Current, BatchOK, StagesOK
<1>7. StagesOK' /\ UNCHANGED <<Ran, processed, Passed, Skipped>>
  BY <1>1, <1>2, <1>3, <1>5, RelaySideStages DEF IInv, StagesOK
<1>8. Logged' = Logged \/ Logged' = Logged \cup {m}
  BY <1>1, <1>4, RecordLogs DEF Logged
<1>9. Delivery!Log(m) \/ UNCHANGED Delivery!deliveryVars
  BY <1>3, <1>6, <1>7, <1>8 DEF Delivery!Log, Delivery!deliveryVars
<1>. QED  BY <1>7, <1>9 DEF Advances, Delivery!Next

LEMMA CommitAdvances ==
  ASSUME IInv, StagesOK, NEW w \in Relay, CommitBatch(w)
  PROVE  Advances
<1>. DEFINE S == IF relay[w].open THEN relay[w].sent ELSE {}
<1>1. /\ row' = IF relay[w].open
                THEN [m \in Msg |-> IF m \in relay[w].sent THEN "sent" ELSE row[m]]
                ELSE row
      /\ relay' = [relay EXCEPT ![w] = IdleRelay] /\ UNCHANGED <<log, groupVars>>
  BY DEF CommitBatch
<1>2. /\ relay \in [Relay -> RelayState] /\ BatchOK(relay[w])
      /\ row \in [Msg -> {"absent", "pending", "sent", "purged"}]
  BY DEF IInv, TypeOK
<1>3. /\ S \subseteq Msg /\ S \subseteq Logged /\ S \subseteq Committed
      /\ \A m \in Msg : row'[m] = IF m \in S THEN "sent" ELSE row[m]
  BY <1>1, <1>2 DEF IInv, MarksAreLogged, StagesOK, BatchOK, RelayState
<1>. HIDE DEF S
<1>4. Committed' = Committed /\ Settled' = Settled \cup S
  BY <1>3 DEF Committed, Settled
<1>5. Logged' = Logged  BY <1>1 DEF Logged
<1>6. \A v \in Relay : relay'[v].batch \subseteq Committed
  BY <1>1, <1>2 DEF StagesOK, IdleRelay
<1>7. StagesOK' /\ UNCHANGED <<Ran, processed, Passed, Skipped>>
  BY <1>1, <1>4, <1>6, RelaySideStages DEF IInv
<1>8. Delivery!Settle(S)  BY <1>3, <1>4, <1>5, <1>7 DEF Delivery!Settle
<1>. QED  BY <1>3, <1>7, <1>8 DEF Advances, Delivery!Next

\* What a consumer has to show.
LEMMA ConsumerStages ==
  ASSUME TypeOK, PositionsAreProcessed, StagesOK, NEW c \in Consumer,
         UNCHANGED <<row, relay, log>>, Ran \subseteq Ran',
         \A d \in Consumer \ {c} : consumer'[d] = consumer[d],
         consumer'[c].pc # "idle" => consumer'[c].msg \in Logged,
         consumer'[c].pc = "mark" => consumer'[c].msg \in Ran'
  PROVE  /\ StagesOK' /\ UNCHANGED <<Committed, Logged, Settled>>
         /\ UNCHANGED <<offset, origin>> => UNCHANGED <<Passed, Skipped>>
<1>1. UNCHANGED <<Committed, Logged, Settled>>  BY DEF Committed, Logged, Settled
<1>2. UNCHANGED <<offset, origin>> => UNCHANGED <<Passed, Skipped>>  BY PassedStays
<1>. QED  BY <1>1, <1>2 DEF StagesOK

\* Records of the log are handled, whether or not the partition has moved on.
LEMMA FetchAdvances ==
  ASSUME IInv, StagesOK, NEW c \in Consumer, NEW p \in Partition, Fetch(c, p)
  PROVE  Advances
<1>. DEFINE m == log[p][pos[c][p] + 1]
<1>1. /\ UNCHANGED <<row, relay, log, offset, origin, processed, runs>>
      /\ pos[c][p] < Len(log[p])
      /\ consumer' = consumer
         \/ consumer' = [consumer EXCEPT ![c] = [pc |-> "handle", msg |-> m]]
  BY DEF Fetch, relayVars
<1>2. LogType /\ pos[c][p] \in Nat /\ consumer \in [Consumer -> ConsumerState]
  BY TypeParts DEF IInv, GroupTypes
<1>3. pos[c][p] + 1 \in DOMAIN log[p]  BY <1>1, <1>2 DEF LogType
<1>4. m \in Logged  BY <1>3 DEF Logged
<1>. HIDE DEF m
<1>5. /\ \A d \in Consumer \ {c} : consumer'[d] = consumer[d]
      /\ consumer'[c].pc # "idle" => consumer'[c].msg \in Logged
      /\ consumer'[c].pc = "mark" => consumer'[c].msg \in Ran
  BY <1>1, <1>2, <1>4 DEF StagesOK
<1>6. Ran' = Ran  BY <1>1 DEF Ran
<1>7. StagesOK' /\ UNCHANGED <<Committed, Logged, Settled, Passed, Skipped>>
  BY <1>1, <1>5, <1>6, ConsumerStages DEF IInv
<1>. QED  BY <1>1, <1>6, <1>7 DEF Advances, Delivery!deliveryVars

LEMMA HandleAdvances ==
  ASSUME IInv, StagesOK, NEW c \in Consumer, Handle(c)
  PROVE  Advances
<1>. DEFINE m == consumer[c].msg
<1>1. /\ UNCHANGED <<row, relay, log, offset, origin, processed>> /\ consumer[c].pc = "handle"
      /\ \/ /\ runs' = [runs EXCEPT ![m] = @ + 1]
            /\ consumer' = [consumer EXCEPT ![c].pc = "mark"]
         \/ /\ runs' = runs
            /\ consumer' = [consumer EXCEPT ![c] = IdleConsumer]
  BY DEF Handle, AfterThrow, relayVars
<1>2. consumer \in [Consumer -> ConsumerState] /\ runs \in [Msg -> Nat]
  BY TypeParts DEF IInv, GroupTypes
<1>3. consumer[c] \in [pc : {"handle", "mark"}, msg : Msg] /\ m \in Msg /\ m \in Logged
  BY <1>1, <1>2 DEF ConsumerState, IdleConsumer, StagesOK
<1>4. CASE runs' = runs /\ consumer' = [consumer EXCEPT ![c] = IdleConsumer]
  <2>1. Ran' = Ran  BY <1>4 DEF Ran
  <2>2. consumer'[c].pc = "idle" /\ \A d \in Consumer \ {c} : consumer'[d] = consumer[d]
    BY <1>2, <1>4 DEF IdleConsumer
  <2>3. StagesOK' /\ UNCHANGED <<Committed, Logged, Settled, Passed, Skipped>>
    BY <1>1, <2>1, <2>2, ConsumerStages DEF IInv
  <2>. QED  BY <1>1, <2>1, <2>3 DEF Advances, Delivery!deliveryVars
<1>5. CASE runs' = [runs EXCEPT ![m] = @ + 1] /\ consumer' = [consumer EXCEPT ![c].pc = "mark"]
  <2>1. Ran' = Ran \cup {m}
    <3>1. \A k \in Msg : runs[k] \in Nat /\ runs'[k] = IF k = m THEN runs[k] + 1 ELSE runs[k]
      BY <1>2, <1>3, <1>5
    <3>. HIDE DEF m
    <3>. QED  BY <1>3, <3>1 DEF Ran
  <2>2. /\ consumer'[c].pc = "mark" /\ consumer'[c].msg = m
        /\ \A d \in Consumer \ {c} : consumer'[d] = consumer[d]
    <3>1. consumer'[c] = [consumer[c] EXCEPT !.pc = "mark"]  BY <1>2, <1>5
    <3>. QED  BY <1>2, <1>3, <1>5, <3>1
  <2>3. StagesOK' /\ UNCHANGED <<Committed, Logged, Settled, Passed, Skipped>>
    BY <1>1, <1>3, <2>1, <2>2, ConsumerStages DEF IInv
  <2>4. Delivery!Handle(m)  BY <1>1, <1>3, <2>1, <2>3 DEF Delivery!Handle
  <2>. QED  BY <1>3, <2>3, <2>4 DEF Advances, Delivery!Next
<1>. QED  BY <1>1, <1>4, <1>5

LEMMA EndAdvances ==
  ASSUME IInv, StagesOK, NEW c \in Consumer, MarkProcessed(c)
  PROVE  Advances
<1>. DEFINE m == consumer[c].msg
<1>1. /\ UNCHANGED <<row, relay, log, offset, origin, runs>>
      /\ consumer' = [consumer EXCEPT ![c] = IdleConsumer]
      /\ \/ processed' = processed
         \/ processed' = processed \cup {m} /\ consumer[c].pc = "mark"
  BY DEF MarkProcessed, relayVars
<1>2. consumer \in [Consumer -> ConsumerState]
  BY TypeParts DEF IInv, GroupTypes
<1>3. Ran' = Ran  BY <1>1 DEF Ran
<1>4. consumer'[c].pc = "idle" /\ \A d \in Consumer \ {c} : consumer'[d] = consumer[d]
  BY <1>1, <1>2 DEF IdleConsumer
<1>5. StagesOK' /\ UNCHANGED <<Committed, Logged, Settled, Passed, Skipped>>
  BY <1>1, <1>3, <1>4, ConsumerStages DEF IInv
<1>6. CASE processed' = processed
  BY <1>3, <1>5, <1>6 DEF Advances, Delivery!deliveryVars
<1>7. CASE processed' = processed \cup {m} /\ consumer[c].pc = "mark"
  <2>1. m \in Ran /\ m \in Msg  BY <1>7 DEF StagesOK, Ran
  <2>2. Delivery!Remember(m)  BY <1>3, <1>5, <1>7, <2>1 DEF Delivery!Remember
  <2>. QED  BY <1>5, <2>1, <2>2 DEF Advances, Delivery!Next
<1>. QED  BY <1>1, <1>6, <1>7

LEMMA OffsetAdvances ==
  ASSUME IInv, StagesOK, NEW c \in Consumer, NEW p \in Partition, CommitOffset(c, p)
  PROVE  Advances
<1>. DEFINE n == pos[c][p]
            S == {log[p][i] : i \in origin[p] + 1 .. n}
<1>1. /\ UNCHANGED <<row, relay, log, origin, consumer, processed, runs>>
      /\ n > Through(p) /\ offset' = [offset EXCEPT ![p] = n]
  BY DEF CommitOffset, relayVars
<1>2. /\ LogType /\ n \in Nat /\ processed \subseteq Msg
      /\ \A q \in Partition : Through(q) \in Nat /\ origin[q] \in Nat
  BY TypeParts DEF IInv, GroupTypes, Through
<1>3. Ran' = Ran  BY <1>1 DEF Ran
<1>4. StagesOK' /\ UNCHANGED <<Committed, Logged, Settled>>
  BY <1>1, <1>3, ConsumerStages DEF IInv, StagesOK
<1>5. Skipped' = Skipped  BY <1>1 DEF Skipped
<1>6. S \subseteq processed  BY DEF IInv, PositionsAreProcessed, PrefixDone
<1>7. \A q \in Partition : Through(q)' = IF q = p THEN n ELSE Through(q)
  BY <1>1, <1>2, OutboxAssumption DEF Through, IInv, TypeOK
<1>8. origin[p] + 1 .. Through(p) \subseteq origin[p] + 1 .. n  BY <1>1, <1>2
<1>. HIDE DEF n
<1>9. Passed' = Passed \cup S
  <2>1. Passed' \subseteq Passed \cup S  BY <1>1, <1>7 DEF Passed
  <2>2. Passed \subseteq Passed'  BY <1>1, <1>7, <1>8 DEF Passed
  <2>3. S \subseteq Passed'  BY <1>1, <1>7 DEF Passed
  <2>. QED  BY <2>1, <2>2, <2>3
<1>. HIDE DEF S
<1>10. Delivery!Pass(S)  BY <1>1, <1>3, <1>4, <1>5, <1>6, <1>9 DEF Delivery!Pass
<1>. QED  BY <1>2, <1>4, <1>6, <1>10 DEF Advances, Delivery!Next

\* A consumer that starts anew skips what is in the partitions that have no offset,
\* and of those nothing has been passed.
LEMMA BeginAdvances ==
  ASSUME IInv, StagesOK, Placed, NEW c \in Consumer,
         KillConsumer(c) \/ \E p \in Partition : Rebalance(c, p)
  PROVE  Advances
<1>1. PICK P \in SUBSET Partition : Begin(c, P)
  BY DEF KillConsumer, Rebalance
<1>2. /\ UNCHANGED <<row, relay, log, offset, processed, runs>>
      /\ consumer' = consumer \/ consumer' = [consumer EXCEPT ![c] = IdleConsumer]
  BY DEF KillConsumer, Rebalance, relayVars
<1>. DEFINE New(q) == q \in P /\ offset[q] = NoOffset
            S == UNION {{log[q][i] : i \in 1..Len(log[q])} : q \in {r \in Partition : New(r)}}
<1>3. /\ LogType /\ consumer \in [Consumer -> ConsumerState]
      /\ \A q \in Partition : /\ Through(q) \in Nat /\ origin[q] \in Nat
                              /\ Len(log[q]) \in Nat
  BY TypeParts DEF IInv, GroupTypes, LogType, Through
<1>4. \A q \in Partition : origin'[q] = IF New(q) THEN Len(log[q]) ELSE origin[q]
  BY <1>1 DEF Begin
<1>5. Ran' = Ran  BY <1>2 DEF Ran
<1>6. StagesOK' /\ UNCHANGED <<Committed, Logged, Settled>>
  <2>1. /\ \A d \in Consumer \ {c} : consumer'[d] = consumer[d]
        /\ consumer'[c].pc # "idle" => consumer'[c] = consumer[c]
    BY <1>2, <1>3 DEF IdleConsumer
  <2>. QED  BY <1>2, <1>5, <2>1, ConsumerStages DEF IInv, StagesOK
<1>7. Passed' = Passed
  <2>1. ASSUME NEW q \in Partition, New(q)
        PROVE  origin[q] + 1 .. Through(q) = {} /\ origin'[q] + 1 .. Through(q)' = {}
    BY <1>2, <1>3, <1>4, <2>1 DEF Through
  <2>2. ASSUME NEW q \in Partition, ~New(q)
        PROVE  Through(q)' = Through(q) /\ origin'[q] = origin[q]
    BY <1>2, <1>4, <2>2 DEF Through
  <2>3. \A q \in Partition :
           {log'[q][i] : i \in origin'[q] + 1 .. Through(q)'}
             = {log[q][i] : i \in origin[q] + 1 .. Through(q)}
    BY <1>2, <2>1, <2>2
  <2>. QED  BY <2>3 DEF Passed
<1>8. Skipped' = Skipped \cup S
  <2>1. \A q \in Partition : 1..origin[q] \subseteq 1..Len(log[q])
    BY <1>3 DEF IInv, PositionsAreProcessed, PrefixDone
  <2>2. Skipped' \subseteq Skipped \cup S  BY <1>2, <1>4 DEF Skipped
  <2>3. Skipped \subseteq Skipped'  BY <1>2, <1>4, <2>1 DEF Skipped
  <2>4. S \subseteq Skipped'  BY <1>2, <1>4 DEF Skipped
  <2>. QED  BY <2>2, <2>3, <2>4
<1>9. \A e \in S, f \in Passed : PartOf[e] # PartOf[f]
  <2>1. ASSUME NEW e \in S PROVE \E q \in Partition : offset[q] = NoOffset /\ PartOf[e] = q
    BY DEF Placed
  <2>2. ASSUME NEW f \in Passed PROVE \E q \in Partition : offset[q] # NoOffset /\ PartOf[f] = q
    <3>1. PICK q \in Partition : \E i \in origin[q] + 1 .. Through(q) : f = log[q][i]
      BY <2>2 DEF Passed
    <3>2. PICK i \in origin[q] + 1 .. Through(q) : f = log[q][i]  BY <3>1
    <3>3. i \in 1..Len(log[q])
      BY <1>3, <3>2 DEF IInv, PositionsAreProcessed, PrefixDone
    <3>4. offset[q] # NoOffset  BY <1>3, <3>2 DEF Through
    <3>. QED  BY <3>2, <3>3, <3>4 DEF Placed
  <2>. QED  BY <2>1, <2>2
<1>10. S \subseteq Logged
  <2>1. \A q \in Partition : DOMAIN log[q] = 1..Len(log[q])  BY <1>3 DEF LogType
  <2>. QED  BY <2>1 DEF Logged
<1>11. S \subseteq Msg  BY <1>3 DEF LogType
<1>. HIDE DEF S
<1>12. Delivery!Skip(S)
  BY <1>2, <1>5, <1>6, <1>7, <1>8, <1>9, <1>10 DEF Delivery!Skip
<1>. QED  BY <1>6, <1>11, <1>12 DEF Advances, Delivery!Next

LEMMA NextAdvances == IInv /\ Placed /\ StagesOK /\ [Next]_vars => Advances
<1>. SUFFICES ASSUME IInv, Placed, StagesOK, [Next]_vars PROVE Advances  OBVIOUS
<1>1. CASE UNCHANGED vars
  <2>1. UNCHANGED <<Committed, Logged, Settled, Ran, processed, Passed, Skipped>>
    BY <1>1 DEF vars, relayVars, groupVars, Committed, Logged, Settled, Ran, Passed,
       Skipped, Through
  <2>2. StagesOK'
    BY <1>1, <2>1 DEF vars, relayVars, groupVars, StagesOK
  <2>. QED  BY <2>1, <2>2 DEF Advances, Delivery!deliveryVars
<1>2. CASE Next
  BY <1>2, PublishAdvances, CleanupAdvances, WorkerAdvances, SendAdvances, CommitAdvances,
     FetchAdvances, HandleAdvances, EndAdvances, OffsetAdvances, BeginAdvances DEF Next
<1>. QED  BY <1>1, <1>2

\* Through crashes, timeouts and rebalances an event is published only if its
\* transaction committed, remembered only after a run of the handler, and passed
\* over only when it is remembered.  It is skipped only while the group has not
\* passed an event of its partition: from the first commit on, at least once.
THEOREM DeliveryRefinement == Spec => ImplementsDelivery
<1>1. Spec => []Placed
  <2>1. RunsInv => Placed  BY DEF RunsInv
  <2>. QED  BY <2>1, AccountsInvariant, PTL
<1>2. Spec => []StagesOK
  <2>1. Init => StagesOK  BY InitStages
  <2>2. IInv /\ Placed /\ StagesOK /\ [Next]_vars => StagesOK'  BY NextAdvances DEF Advances
  <2>. QED  BY <1>1, <2>1, <2>2, OutboxInvariant, PTL DEF Spec
<1>3. Init => Delivery!Init  BY InitStages
<1>4. IInv /\ Placed /\ StagesOK /\ [Next]_vars => [Delivery!Next]_(Delivery!deliveryVars)
  BY NextAdvances DEF Advances
<1>. QED
  BY <1>1, <1>2, <1>3, <1>4, OutboxInvariant, PTL DEF Spec, ImplementsDelivery, Delivery!Spec

===============================================================================
