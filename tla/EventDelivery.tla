---------------------------- MODULE EventDelivery -----------------------------
(***************************************************************************)
(* What the outbox and the consumers of the event bus promise of an event, *)
(* without batches, transactions, partitions, positions and rebalances.    *)
(* An event goes through the stages below.  It reaches each one only from  *)
(* the one before, it never goes back, and of one event everything but the *)
(* first time it reaches a stage is a repetition that changes nothing.     *)
(* A group that reads a stream for the first time may begin behind events  *)
(* that are there; once it has passed one, it skips no other.              *)
(***************************************************************************)
CONSTANTS
    Event,
    Stream      \* the stream of each event

VARIABLES
    committed,  \* the transaction that published the event is committed
    logged,     \* the log of Kafka has it
    settled,    \* its row is marked sent
    handled,    \* the handler of the group ran for it
    processed,  \* the group remembers that
    passed,     \* the group is through with it, and will not be given it again
    skipped     \* the group began to read behind it

deliveryVars == <<committed, logged, settled, handled, processed, passed, skipped>>

Init == /\ committed = {} /\ logged = {} /\ settled = {}
        /\ handled = {} /\ processed = {} /\ passed = {} /\ skipped = {}

Commit(e) ==
    /\ committed' = committed \cup {e}
    /\ UNCHANGED <<logged, settled, handled, processed, passed, skipped>>

\* No event of a transaction that was rolled back.
Log(e) ==
    /\ e \in committed
    /\ logged' = logged \cup {e}
    /\ UNCHANGED <<committed, settled, handled, processed, passed, skipped>>

\* A transaction of the relay settles all it sent.
Settle(S) ==
    /\ S \subseteq logged
    /\ settled' = settled \cup S
    /\ UNCHANGED <<committed, logged, handled, processed, passed, skipped>>

Handle(e) ==
    /\ e \in logged
    /\ handled' = handled \cup {e}
    /\ UNCHANGED <<committed, logged, settled, processed, passed, skipped>>

\* Not before the handler is through: at least once.
Remember(e) ==
    /\ e \in handled
    /\ processed' = processed \cup {e}
    /\ UNCHANGED <<committed, logged, settled, handled, passed, skipped>>

Pass(S) ==
    /\ S \subseteq processed
    /\ passed' = passed \cup S
    /\ UNCHANGED <<committed, logged, settled, handled, processed, skipped>>

Skip(S) ==
    /\ S \subseteq logged
    /\ \A e \in S, f \in passed : Stream[e] # Stream[f]
    /\ skipped' = skipped \cup S
    /\ UNCHANGED <<committed, logged, settled, handled, processed, passed>>

Next ==
    \/ \E e \in Event : Commit(e) \/ Log(e) \/ Handle(e) \/ Remember(e)
    \/ \E S \in SUBSET Event : Settle(S) \/ Pass(S) \/ Skip(S)

Spec == Init /\ [][Next]_deliveryVars
=============================================================================
