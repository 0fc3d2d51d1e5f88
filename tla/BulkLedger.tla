----------------------------- MODULE BulkLedger ------------------------------
(***************************************************************************)
(* What the bulk-operations module promises of the entries of an operation,*)
(* without requests, ticks, locks, counters or statuses.  An operation is  *)
(* filled once.  From then on each entry is one token that only moves      *)
(* forward: waiting, taken up, handled, recorded; it may get lost on the   *)
(* way, it never moves back.  Its issue changes only when it is handled.   *)
(***************************************************************************)
EXTENDS Naturals

CONSTANTS Op, Entry

Handling == {"SUCCEEDED", "FAILED", "SKIPPED"}
Report   == {"FAILED", "SKIPPED", "CANCELLED"}

VARIABLES
    open,      \* operations that are not filled yet
    waiting,   \* entries nobody has taken up
    todo,      \* entries taken up and not handled
    done,      \* entries handled and not recorded, with their outcome
    rows,      \* the report
    applied    \* how often the issue of an entry was changed

ledgerVars == <<open, waiting, todo, done, rows, applied>>

Init ==
    /\ open    = [o \in Op |-> TRUE]
    /\ waiting = [o \in Op |-> {}]
    /\ todo    = [o \in Op |-> {}]
    /\ done    = [o \in Op |-> {}]
    /\ rows    = [o \in Op |-> {}]
    /\ applied = [o \in Op |-> [k \in Entry |-> 0]]

\* The operation gets its entries, all of them at once; or never.
Fill(o, S) ==
    /\ open[o]
    /\ open'    = [open EXCEPT ![o] = FALSE]
    /\ waiting' = [waiting EXCEPT ![o] = S]
    /\ UNCHANGED <<todo, done, rows, applied>>

Take(o, S) ==
    /\ waiting' = [waiting EXCEPT ![o] = @ \ S]
    /\ todo'    = [todo EXCEPT ![o] = @ \cup S]
    /\ UNCHANGED <<open, done, rows, applied>>

Handle(o, k, outcome, effect) ==
    /\ k \in todo[o]
    /\ outcome = "SUCCEEDED" => effect
    /\ outcome = "SKIPPED" => ~effect
    /\ todo'    = [todo EXCEPT ![o] = @ \ {k}]
    /\ done'    = [done EXCEPT ![o] = @ \cup {[entry |-> k, outcome |-> outcome]}]
    /\ applied' = IF effect THEN [applied EXCEPT ![o][k] = @ + 1] ELSE applied
    /\ UNCHANGED <<open, waiting, rows>>

\* Handled entries leave the ledger; all but the successful ones get a row.
Record(o, D) ==
    /\ done' = [done EXCEPT ![o] = @ \ D]
    /\ rows' = [rows EXCEPT ![o] = @ \cup {d \in D : d.outcome # "SUCCEEDED"}]
    /\ UNCHANGED <<open, waiting, todo, applied>>

\* Entries of a cancelled operation are recorded without being handled.
Cancel(o, S) ==
    /\ todo' = [todo EXCEPT ![o] = @ \ S]
    /\ rows' = [rows EXCEPT ![o] =
                  @ \cup {[entry |-> k, outcome |-> "CANCELLED"] : k \in S}]
    /\ UNCHANGED <<open, waiting, done, applied>>

\* Entries leave the ledger without a trace in the report.
LoseWaiting(o, S) ==
    /\ waiting' = [waiting EXCEPT ![o] = @ \ S]
    /\ UNCHANGED <<open, todo, done, rows, applied>>
LoseTaken(o, S, D) ==
    /\ todo' = [todo EXCEPT ![o] = @ \ S]
    /\ done' = [done EXCEPT ![o] = @ \ D]
    /\ UNCHANGED <<open, waiting, rows, applied>>

\* The report is deleted with its operation, or grows too old.
Forget(o) ==
    /\ rows' = [rows EXCEPT ![o] = {}]
    /\ UNCHANGED <<open, waiting, todo, done, applied>>

Next ==
    \E o \in Op :
      \/ \E S \in SUBSET Entry : Fill(o, S)
      \/ \E S \in SUBSET waiting[o] : Take(o, S) \/ LoseWaiting(o, S)
      \/ \E k \in todo[o], outcome \in Handling, effect \in BOOLEAN :
           Handle(o, k, outcome, effect)
      \/ \E D \in SUBSET done[o] : Record(o, D)
      \/ \E S \in SUBSET todo[o] : Cancel(o, S)
      \/ \E S \in SUBSET todo[o], D \in SUBSET done[o] : LoseTaken(o, S, D)
      \/ Forget(o)

Spec == Init /\ [][Next]_ledgerVars
=============================================================================
