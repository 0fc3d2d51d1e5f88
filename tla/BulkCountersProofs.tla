-------------------------- MODULE BulkCountersProofs --------------------------
(***************************************************************************)
(* The counters of bulk_operations agree with bulk_operation_items and     *)
(* with the changes made to issues, for every value of the constants.      *)
(*                                                                         *)
(* CountersMatchLedger speaks of numbers; the proof keeps the sets behind  *)
(* them.  Behind the counters of an operation is the set of results they   *)
(* have counted, and behind `drained` of a tick the rows it has drained    *)
(* and not counted yet (Books).  Neither set is stored by the code, so the *)
(* invariant says that they exist.                                         *)
(***************************************************************************)
EXTENDS BulkIntakeProofs

Result == [entry : Entry,
           outcome : {"SUCCEEDED", "FAILED", "SKIPPED", "CANCELLED"}]

Of(C, outcomes) == {c \in C : c.outcome \in outcomes}

\* The counters of a row are those of the results C.
Tally(row, C) ==
    /\ row.processed = Cardinality(C)
    /\ row.succeeded = Cardinality(Of(C, {"SUCCEEDED"}))
    /\ row.failed    = Cardinality(Of(C, {"FAILED"}))
    /\ row.skipped   = Cardinality(Of(C, {"SKIPPED", "CANCELLED"}))

\* An operation whose counters may still change.
Tracked(o) == Active(o) \/ (Terminal(o) /\ \E s \in Tick : tick[s].op = o)

\* C has been counted for operation o.  A succeeded entry has changed its
\* issue and is reported nowhere, another one is a row of the report, and of
\* the report only drained entries may be uncounted.
Behind(o, C) ==
    /\ C \in SUBSET Result
    /\ \A c \in C :
         /\ c.entry \in 1..Len(scope[o])
         /\ c.outcome # "SUCCEEDED" => c \in items[o]
         /\ c.outcome = "SUCCEEDED" =>
              /\ applied[o][c.entry] > 0
              /\ \A row \in items[o] : row.entry # c.entry
              /\ \A s \in Tick : tick[s].op = o =>
                   \A d \in tick[s].done : d.entry # c.entry
    /\ \A row \in items[o] : row.outcome # "CANCELLED" => row \in C

\* Each tick on o has drained D[s], and no one has counted that.
Drained(o, C, D) ==
    /\ D \in [Tick -> SUBSET Result]
    /\ \A s \in Tick : tick[s].op = o =>
         /\ D[s] \subseteq Of(items[o], {"CANCELLED"})
         /\ Cardinality(D[s]) = tick[s].drained
         /\ D[s] \cap C = {}
         /\ \A t \in Tick \ {s} : tick[t].op = o => D[s] \cap D[t] = {}

Books(o, C, D) == Tally(op[o], C) /\ Behind(o, C) /\ Drained(o, C, D)

Balanced == \A o \in Op : Tracked(o) => \E C, D : Books(o, C, D)

\* What else the books need: ticks work on rows that were inserted, a row has
\* the length of its item list, and a succeeded entry has changed its issue.
OnRows == \A s \in Tick : tick[s].op # 0 => op[tick[s].op].status # "ABSENT"
Totals == \A o \in Op : op[o].status # "ABSENT" => op[o].total = Len(scope[o])
DoneApplied ==
    \A s \in Tick : \A d \in tick[s].done :
      d.outcome = "SUCCEEDED" => applied[tick[s].op][d.entry] > 0

CountInv == Balanced /\ OnRows /\ Totals /\ DoneApplied

-----------------------------------------------------------------------------
(* Counting.                                                                *)

LEMMA AddDisjoint ==
    ASSUME NEW S, IsFiniteSet(S), NEW T, IsFiniteSet(T), S \cap T = {}
    PROVE  IsFiniteSet(S \cup T) /\ Cardinality(S \cup T) = Cardinality(S) + Cardinality(T)
<1>1. /\ IsFiniteSet(S \cup T)
      /\ Cardinality(S \cup T) = Cardinality(S) + Cardinality(T) - Cardinality(S \cap T)
  BY FS_Union
<1>2. Cardinality(S) \in Nat /\ Cardinality(T) \in Nat /\ Cardinality(S \cap T) = 0
  BY FS_CardinalityType, FS_EmptySet
<1> QED
  BY <1>1, <1>2

LEMMA OfFinite ==
    ASSUME NEW S, IsFiniteSet(S), NEW outcomes
    PROVE  /\ IsFiniteSet(Of(S, outcomes)) /\ Cardinality(Of(S, outcomes)) \in Nat
           /\ Cardinality(Of(S, outcomes)) <= Cardinality(S)
<1>1. Of(S, outcomes) \in SUBSET S
  BY DEF Of
<1>2. IsFiniteSet(Of(S, outcomes)) /\ Cardinality(Of(S, outcomes)) <= Cardinality(S)
  BY <1>1, FS_Subset
<1> QED
  BY <1>2, FS_CardinalityType

LEMMA OfUnion ==
    ASSUME NEW S, IsFiniteSet(S), NEW T, IsFiniteSet(T), S \cap T = {}, NEW outcomes
    PROVE  Cardinality(Of(S \cup T, outcomes)) =
             Cardinality(Of(S, outcomes)) + Cardinality(Of(T, outcomes))
<1>1. /\ Of(S \cup T, outcomes) = Of(S, outcomes) \cup Of(T, outcomes)
      /\ Of(S, outcomes) \cap Of(T, outcomes) = {}
  BY DEF Of
<1>2. IsFiniteSet(Of(S, outcomes)) /\ IsFiniteSet(Of(T, outcomes))
  BY OfFinite
<1> QED
  BY <1>1, <1>2, AddDisjoint

LEMMA TallyUnion ==
    ASSUME NEW C, IsFiniteSet(C), NEW B, IsFiniteSet(B), C \cap B = {},
           NEW row, Tally(row, C), NEW next,
           next.processed = row.processed + Cardinality(B),
           next.succeeded = row.succeeded + Cardinality(Of(B, {"SUCCEEDED"})),
           next.failed = row.failed + Cardinality(Of(B, {"FAILED"})),
           next.skipped = row.skipped + Cardinality(Of(B, {"SKIPPED", "CANCELLED"}))
    PROVE  Tally(next, C \cup B)
<1>1. Cardinality(C \cup B) = Cardinality(C) + Cardinality(B)
  BY AddDisjoint
<1>2. \A outcomes : Cardinality(Of(C \cup B, outcomes)) =
        Cardinality(Of(C, outcomes)) + Cardinality(Of(B, outcomes))
  BY OfUnion
<1> QED
  BY <1>1, <1>2 DEF Tally

LEMMA SameTally ==
    ASSUME NEW row, NEW next, Counters(next) = Counters(row), NEW C, Tally(row, C)
    PROVE  Tally(next, C)
BY DEF Counters, Tally

\* The results behind the counters have one element per entry.
LEMMA BehindUnique ==
    ASSUME StoreTypeOK, Report, NEW o \in Op, Len(scope[o]) <= MaxScope, NEW C, Behind(o, C)
    PROVE  /\ \A c1, c2 \in C : c1.entry = c2.entry => c1 = c2
           /\ IsFiniteSet(C) /\ Cardinality(C) \in Nat
<1>1. ASSUME NEW c1 \in C, NEW c2 \in C, c1.entry = c2.entry PROVE c1 = c2
  <2>1. c1 \in Result /\ c2 \in Result
    BY DEF Behind
  <2>2. CASE c1.outcome = "SUCCEEDED" /\ c2.outcome = "SUCCEEDED"
    BY <1>1, <2>1, <2>2 DEF Result
  <2>3. CASE c1.outcome # "SUCCEEDED" /\ c2.outcome # "SUCCEEDED"
    BY <1>1, <2>3 DEF Behind, Report
  <2>4. CASE ~(c1.outcome = "SUCCEEDED" <=> c2.outcome = "SUCCEEDED")
    BY <1>1, <2>4 DEF Behind
  <2> QED
    BY <2>2, <2>3, <2>4
<1>2. \A c \in C : c.entry \in Entry
  BY DEF Behind, Result
<1>3. IsFiniteSet(C) /\ Cardinality(C) \in Nat
  BY <1>1, <1>2, UniqueFinite
<1> QED
  BY <1>1, <1>3

\* The books, read as numbers.
LEMMA BooksMatchLedger == IInv /\ CountInv => CountersMatchLedger
<1> SUFFICES ASSUME IInv, CountInv, NEW o \in Op, Active(o)
             PROVE  /\ op[o].failed = Cardinality(RowsOf(o, "FAILED"))
                    /\ op[o].skipped >= Cardinality(RowsOf(o, "SKIPPED"))
                    /\ op[o].succeeded <= Cardinality({k \in Entry : applied[o][k] > 0})
                    /\ op[o].processed = op[o].succeeded + op[o].failed + op[o].skipped
                    /\ op[o].processed <= op[o].total
  BY DEF CountersMatchLedger
<1>0. /\ StoreTypeOK /\ Report /\ Len(scope[o]) <= MaxScope /\ scope[o] \in Seq(Issue)
      /\ items[o] \in SUBSET Row
      /\ op[o].total = Len(scope[o])
  BY DEF IInv, TypeOK, StoreTypeOK, Ledger, Lengths, CountInv, Totals, Active, ActiveStatus
<1>1. PICK C, D : Books(o, C, D)
  BY DEF CountInv, Balanced, Tracked
<1>2. /\ Behind(o, C) /\ Tally(op[o], C) /\ C \in SUBSET Result
  BY <1>1 DEF Books, Behind
<1>3. /\ \A c1, c2 \in C : c1.entry = c2.entry => c1 = c2
      /\ IsFiniteSet(C) /\ Cardinality(C) \in Nat
  BY <1>0, <1>2, BehindUnique
<1>4. Of(C, {"FAILED"}) = RowsOf(o, "FAILED")
  BY <1>2 DEF Of, RowsOf, Behind
<1>5. RowsOf(o, "SKIPPED") \in SUBSET Of(C, {"SKIPPED", "CANCELLED"})
  BY <1>2 DEF Of, RowsOf, Behind
<1>6. Cardinality(RowsOf(o, "SKIPPED")) <= Cardinality(Of(C, {"SKIPPED", "CANCELLED"}))
  <2>1. IsFiniteSet(Of(C, {"SKIPPED", "CANCELLED"}))
    BY <1>3, OfFinite
  <2> QED
    BY <1>5, <2>1, FS_Subset
<1>7. Cardinality(Of(C, {"SUCCEEDED"})) <= Cardinality({k \in Entry : applied[o][k] > 0})
  <2> DEFINE S == Of(C, {"SUCCEEDED"})
             T == {k \in Entry : applied[o][k] > 0}
             f == [c \in S |-> c.entry]
  <2>1. \A c \in S : c.entry \in T
    BY <1>2 DEF Of, Behind, Result
  <2>2. \A c1, c2 \in S : c1.entry = c2.entry => c1 = c2
    BY <1>3 DEF Of
  <2>3. f \in Injection(S, T)
    BY <2>1, <2>2 DEF Injection, IsInjective
  <2>4. IsFiniteSet(T)
    BY EntriesFinite
  <2> QED
    BY <2>3, <2>4, FS_Injection
<1>8. Cardinality(C) <= Len(scope[o])
  <2> DEFINE T == 1..Len(scope[o])
             f == [c \in C |-> c.entry]
  <2>1. \A c \in C : c.entry \in T
    BY <1>2 DEF Behind
  <2>2. f \in Injection(C, T)
    BY <1>3, <2>1 DEF Injection, IsInjective
  <2>3. 1 \in Int /\ Len(scope[o]) \in Int /\ Len(scope[o]) \in Nat
    BY <1>0
  <2>4. IsFiniteSet(T) /\ Cardinality(T) = IF 1 > Len(scope[o]) THEN 0 ELSE Len(scope[o]) - 1 + 1
    BY <2>3, FS_Interval
  <2>5. Cardinality(C) <= Cardinality(T)
    BY <2>2, <2>4, FS_Injection
  <2>6. Cardinality(T) <= Len(scope[o])
    BY ONLY <2>3, <2>4
  <2> HIDE DEF T
  <2> QED
    BY <1>3, <2>3, <2>4, <2>5, <2>6, FS_CardinalityType
<1>9. Cardinality(C) = Cardinality(Of(C, {"SUCCEEDED"})) + Cardinality(Of(C, {"FAILED"}))
                       + Cardinality(Of(C, {"SKIPPED", "CANCELLED"}))
  <2> DEFINE S == Of(C, {"SUCCEEDED"})
             F == Of(C, {"FAILED"})
             K == Of(C, {"SKIPPED", "CANCELLED"})
  <2>1. IsFiniteSet(S) /\ IsFiniteSet(F) /\ IsFiniteSet(K)
    BY <1>3, OfFinite
  <2>2. S \cap F = {} /\ (S \cup F) \cap K = {} /\ C = (S \cup F) \cup K
    BY <1>2 DEF Of, Result
  <2> HIDE DEF S, F, K
  <2>3. IsFiniteSet(S \cup F) /\ Cardinality(S \cup F) = Cardinality(S) + Cardinality(F)
    BY <2>1, <2>2, AddDisjoint
  <2>4. Cardinality((S \cup F) \cup K) = Cardinality(S \cup F) + Cardinality(K)
    BY <2>1, <2>2, <2>3, AddDisjoint
  <2>5. Cardinality(C) = Cardinality(S) + Cardinality(F) + Cardinality(K)
    BY <2>2, <2>3, <2>4
  <2> QED
    BY <2>5 DEF S, F, K
<1>10. Cardinality(Of(C, {"SUCCEEDED"})) \in Nat /\ Cardinality(Of(C, {"FAILED"})) \in Nat
       /\ Cardinality(Of(C, {"SKIPPED", "CANCELLED"})) \in Nat
       /\ Cardinality({k \in Entry : applied[o][k] > 0}) \in Nat
       /\ Cardinality(RowsOf(o, "SKIPPED")) \in Nat
  <2>1. IsFiniteSet(RowsOf(o, "SKIPPED"))
    <3>1. IsFiniteSet(Of(C, {"SKIPPED", "CANCELLED"}))
      BY <1>3, OfFinite
    <3> QED
      BY <1>5, <3>1, FS_Subset
  <2> QED
    BY <1>3, <2>1, OfFinite, EntriesFinite, FS_CardinalityType
<1>11. /\ op[o].processed = Cardinality(C)
       /\ op[o].succeeded = Cardinality(Of(C, {"SUCCEEDED"}))
       /\ op[o].failed    = Cardinality(Of(C, {"FAILED"}))
       /\ op[o].skipped   = Cardinality(Of(C, {"SKIPPED", "CANCELLED"}))
  BY <1>2 DEF Tally
<1> QED
  BY <1>0, <1>4, <1>6, <1>7, <1>8, <1>9, <1>10, <1>11

-----------------------------------------------------------------------------
(* Steps that leave the books of an operation as they are.                  *)

LEMMA BehindStays ==
    ASSUME NEW o \in Op, NEW C, Behind(o, C), NEW s \in Tick,
           scope'[o] = scope[o], items'[o] = items[o],
           \A k \in Entry : applied[o][k] > 0 => applied'[o][k] > 0,
           \A t \in Tick \ {s} : tick'[t] = tick[t],
           tick'[s].op = o =>
             \A d \in tick'[s].done :
               (tick[s].op = o /\ d \in tick[s].done) \/ ~(applied[o][d.entry] > 0)
    PROVE  Behind(o, C)'
<1>1. ASSUME NEW c \in C
      PROVE  /\ c.entry \in 1..Len(scope'[o])
             /\ c.outcome # "SUCCEEDED" => c \in items'[o]
             /\ c.outcome = "SUCCEEDED" =>
                  /\ applied'[o][c.entry] > 0
                  /\ \A row \in items'[o] : row.entry # c.entry
                  /\ \A t \in Tick : tick'[t].op = o =>
                       \A d \in tick'[t].done : d.entry # c.entry
  <2>1. c.entry \in Entry
    BY DEF Behind, Result
  <2>2. ASSUME c.outcome = "SUCCEEDED", NEW t \in Tick, tick'[t].op = o, NEW d \in tick'[t].done
        PROVE  d.entry # c.entry
    <3>1. applied[o][c.entry] > 0
      BY <2>2 DEF Behind
    <3>2. CASE t # s
      BY <2>2, <3>2 DEF Behind
    <3>3. CASE t = s
      BY <2>2, <3>1, <3>3 DEF Behind
    <3> QED
      BY <3>2, <3>3
  <2> QED
    BY <2>1, <2>2 DEF Behind
<1> QED
  BY <1>1 DEF Behind

LEMMA BooksStay ==
    ASSUME NEW o \in Op, NEW C, NEW D, Books(o, C, D), NEW s \in Tick,
           Counters(op'[o]) = Counters(op[o]), scope'[o] = scope[o], items'[o] = items[o],
           \A k \in Entry : applied[o][k] > 0 => applied'[o][k] > 0,
           \A t \in Tick \ {s} : tick'[t] = tick[t],
           tick'[s].op = o =>
             \/ /\ tick[s].op = o /\ tick'[s].drained = tick[s].drained
                /\ \A d \in tick'[s].done : d \in tick[s].done \/ ~(applied[o][d.entry] > 0)
             \/ tick'[s].done = {} /\ tick'[s].drained = 0
    PROVE  \E E : Books(o, C, E)'
<1>1. Tally(op'[o], C)
  <2>1. PICK row, next : row = op[o] /\ next = op'[o]
    OBVIOUS
  <2> QED
    BY <2>1, SameTally DEF Books
<1>2. Behind(o, C)'
  BY BehindStays DEF Books
<1>3. Drained(o, C, D)
  BY DEF Books
<1>4. CASE tick'[s].op = o => tick[s].op = o /\ tick'[s].drained = tick[s].drained
  <2>1. Drained(o, C, D)'
    <3>1. \A t \in Tick : tick'[t].op = o => tick[t].op = o /\ tick'[t].drained = tick[t].drained
      BY <1>4
    <3> QED
      BY <1>3, <3>1 DEF Drained
  <2> QED
    BY <1>1, <1>2, <2>1 DEF Books
<1>5. CASE tick'[s].op = o => tick'[s].drained = 0
  <2> DEFINE E == [D EXCEPT ![s] = {}]
  <2>1. E[s] = {} /\ \A t \in Tick \ {s} : E[t] = D[t]
    BY <1>3 DEF Drained
  <2>2. E \in [Tick -> SUBSET Result]
    BY <1>3 DEF Drained
  <2> HIDE DEF E
  <2>3. ASSUME NEW t \in Tick, tick'[t].op = o
        PROVE  /\ E[t] \subseteq Of(items'[o], {"CANCELLED"})
               /\ Cardinality(E[t]) = tick'[t].drained
               /\ E[t] \cap C = {}
               /\ \A u \in Tick \ {t} : tick'[u].op = o => E[t] \cap E[u] = {}
    <3>1. CASE t = s
      BY <1>5, <2>1, <2>3, <3>1, FS_EmptySet
    <3>2. CASE t # s
      <4>1. tick[t].op = o /\ tick'[t].drained = tick[t].drained
        BY <2>3, <3>2
      <4>2. \A u \in Tick \ {t} : tick'[u].op = o => E[t] \cap E[u] = {}
        BY <1>3, <2>1, <3>2, <4>1 DEF Drained
      <4> QED
        BY <1>3, <2>1, <3>2, <4>1, <4>2 DEF Drained
    <3> QED
      BY <3>1, <3>2
  <2>4. Drained(o, C, E)'
    BY <2>2, <2>3 DEF Drained
  <2> QED
    BY <1>1, <1>2, <2>4 DEF Books
<1> QED
  BY <1>4, <1>5

-----------------------------------------------------------------------------
(* The steps that book something.                                           *)

\* The transaction counts the results of the batch.
LEMMA CommitBooks ==
    ASSUME IInv, DoneApplied, NEW s \in Tick, Commits(s), NEW o, o = tick[s].op,
           \A t \in Tick \ {s} : tick'[t] = tick[t], UNCHANGED scope,
           NEW C, NEW D, Books(o, C, D)
    PROVE  \E N : Books(o, N, D)'
<1> DEFINE B == tick[s].done
<1>n. PICK N : N = C \cup B
  OBVIOUS
<1>0. /\ StoreTypeOK /\ Report /\ CustodyOf(s) /\ Exclusive /\ o \in Op
      /\ Len(scope[o]) <= MaxScope /\ tick[s] \in TickState
      /\ UNCHANGED applied
  BY DEF IInv, TypeOK, ProcTypeOK, Ledger, Lengths, Commits, TickCustody
<1>1. Tally(op[o], C) /\ Behind(o, C) /\ Drained(o, C, D)
  BY DEF Books
<1>2. \A d \in B : /\ d \in Result /\ d.outcome # "CANCELLED"
                   /\ d.entry \in Entry /\ d.entry \in 1..Len(scope[o])
                   /\ \A row \in items[o] : row.entry # d.entry
                   /\ \A e \in B : d.entry = e.entry => d = e
  BY <1>0 DEF CustodyOf, TickState, Result
<1>3. IsFiniteSet(B) /\ IsFiniteSet(C)
  <2>1. IsFiniteSet(B)
    BY <1>2, UniqueFinite
  <2> QED
    BY <1>0, <1>1, <2>1, BehindUnique
<1>4. C \cap B = {}
  BY <1>1, <1>2 DEF Behind
<1>5. Tally(op'[o], C \cup B)
  <2>1. PICK row, next : row = op[o] /\ next = CountBatch(op[o], B)
    OBVIOUS
  <2>2. op'[o] = next
    BY <1>0, <2>1 DEF Commits, StoreTypeOK
  <2>3. /\ Of(B, {"SUCCEEDED"}) = {d \in B : d.outcome = "SUCCEEDED"}
        /\ Of(B, {"FAILED"}) = {d \in B : d.outcome = "FAILED"}
        /\ Of(B, {"SKIPPED", "CANCELLED"}) = {d \in B : d.outcome = "SKIPPED"}
    BY <1>2 DEF Of
  <2>4. op[o] \in OpRow
    BY <1>0 DEF StoreTypeOK
  <2>5. /\ next.processed = row.processed + Cardinality(B)
        /\ next.succeeded = row.succeeded + Cardinality(Of(B, {"SUCCEEDED"}))
        /\ next.failed = row.failed + Cardinality(Of(B, {"FAILED"}))
        /\ next.skipped = row.skipped + Cardinality(Of(B, {"SKIPPED", "CANCELLED"}))
    BY <2>1, <2>3, <2>4 DEF CountBatch, Counted, OpRow
  <2>6. Tally(next, C \cup B)
    BY <1>1, <1>3, <1>4, <2>1, <2>5, TallyUnion
  <2> QED
    BY <2>2, <2>6
<1>6. items'[o] = items[o] \cup RowsToInsert(B)
  BY <1>0 DEF Commits, StoreTypeOK
<1>7. \A d \in RowsToInsert(B) : d \in B /\ d.outcome # "SUCCEEDED"
  BY DEF RowsToInsert
<1>8. \A t \in Tick : tick'[t].op = o => tick[t].op = o /\ tick'[t].drained = tick[t].drained
  BY DEF Commits
<1>9. Behind(o, N)'
  <2>1. ASSUME NEW c \in C \cup B, c.outcome = "SUCCEEDED"
        PROVE  /\ applied'[o][c.entry] > 0
               /\ \A row \in items'[o] : row.entry # c.entry
               /\ \A t \in Tick : tick'[t].op = o =>
                    \A d \in tick'[t].done : d.entry # c.entry
    <3>1. CASE c \in C
      <4>1. /\ applied'[o][c.entry] > 0
            /\ \A row \in items'[o] : row.entry # c.entry
        BY <1>0, <1>1, <1>6, <1>7, <2>1, <3>1 DEF Behind
      <4>2. ASSUME NEW t \in Tick, tick'[t].op = o, NEW d \in tick'[t].done
            PROVE  d.entry # c.entry
        <5>1. t # s /\ d \in tick[t].done
          BY <4>2 DEF Commits
        <5> QED
          BY <1>1, <1>8, <2>1, <3>1, <4>2, <5>1 DEF Behind
      <4> QED
        BY <4>1, <4>2
    <3>2. CASE c \in B
      <4>1. applied'[o][c.entry] > 0
        BY <1>0, <2>1, <3>2 DEF DoneApplied
      <4>2. \A row \in items'[o] : row.entry # c.entry
        BY <1>2, <1>6, <1>7, <2>1, <3>2
      <4>3. ASSUME NEW t \in Tick, tick'[t].op = o, NEW d \in tick'[t].done
            PROVE  d.entry # c.entry
        <5>1. t # s /\ d \in tick[t].done /\ tick[t].op = tick[s].op
          BY <1>8, <4>3 DEF Commits
        <5> QED
          BY <1>0, <3>2, <5>1 DEF Exclusive, Apart
      <4> QED
        BY <4>1, <4>2, <4>3
    <3> QED
      BY <2>1, <3>1, <3>2
  <2>2. \A c \in C \cup B : /\ c.entry \in 1..Len(scope'[o])
                            /\ c.outcome # "SUCCEEDED" => c \in items'[o]
    BY <1>1, <1>2, <1>6 DEF Behind, RowsToInsert
  <2>3. \A row \in items'[o] : row.outcome # "CANCELLED" => row \in C \cup B
    BY <1>1, <1>6, <1>7 DEF Behind
  <2>4. C \cup B \in SUBSET Result
    BY <1>1, <1>2 DEF Behind
  <2> QED
    BY <1>n, <2>1, <2>2, <2>3, <2>4 DEF Behind
<1>10. Drained(o, N, D)'
  <2>1. D \in [Tick -> SUBSET Result]
    BY <1>1 DEF Drained
  <2>2. ASSUME NEW t \in Tick, tick'[t].op = o
        PROVE  /\ D[t] \subseteq Of(items'[o], {"CANCELLED"})
               /\ Cardinality(D[t]) = tick'[t].drained
               /\ D[t] \cap (C \cup B) = {}
               /\ \A u \in Tick \ {t} : tick'[u].op = o => D[t] \cap D[u] = {}
    <3>1. D[t] \subseteq Of(items[o], {"CANCELLED"}) /\ D[t] \cap C = {}
      BY <1>1, <1>8, <2>2 DEF Drained
    <3>2. Of(items[o], {"CANCELLED"}) \subseteq Of(items'[o], {"CANCELLED"})
      BY <1>6 DEF Of
    <3>3. D[t] \cap B = {}
      BY <1>2, <3>1 DEF Of
    <3> QED
      BY <1>1, <1>8, <2>2, <3>1, <3>2, <3>3 DEF Drained
  <2> QED
    BY <1>n, <2>1, <2>2 DEF Drained
<1> QED
  BY <1>n, <1>5, <1>9, <1>10 DEF Books

\* createMany of a chunk adds to what the tick has drained.
LEMMA RecordBooks ==
    ASSUME IInv, NEW s \in Tick, Records(s), NEW o, o = tick[s].op,
           \A t \in Tick \ {s} : tick'[t] = tick[t], UNCHANGED scope,
           NEW C, NEW D, Books(o, C, D)
    PROVE  \E E : Books(o, C, E)'
<1> DEFINE chunk == {[entry |-> k, outcome |-> "CANCELLED"] : k \in tick[s].todo}
<1>e. PICK E : E = [D EXCEPT ![s] = @ \cup chunk]
  OBVIOUS
<1>0. /\ StoreTypeOK /\ Report /\ CustodyOf(s) /\ o \in Op
      /\ Len(scope[o]) <= MaxScope /\ tick[s] \in TickState
      /\ UNCHANGED <<op, applied>>
  BY DEF IInv, TypeOK, ProcTypeOK, Ledger, Lengths, Records, TickCustody
<1>1. Tally(op[o], C) /\ Behind(o, C) /\ Drained(o, C, D)
  BY DEF Books
<1>2. \A c \in chunk : c.entry \in tick[s].todo /\ c.outcome = "CANCELLED" /\ c \in Result
  BY <1>0 DEF TickState, Result
<1>3. \A k \in tick[s].todo : /\ k \in Entry /\ applied[o][k] = 0
                              /\ \A row \in items[o] : row.entry # k
  BY <1>0 DEF CustodyOf, TickState
<1>4. items'[o] = items[o] \cup chunk
  BY <1>0 DEF Records, StoreTypeOK
<1>5. /\ IsFiniteSet(chunk) /\ Cardinality(chunk) = Cardinality(tick[s].todo)
      /\ tick[s].todo \in SUBSET Entry
  <2> DEFINE f == [k \in tick[s].todo |-> [entry |-> k, outcome |-> "CANCELLED"]]
  <2>1. f \in Bijection(tick[s].todo, chunk)
    <3>1. f \in [tick[s].todo -> chunk]
      OBVIOUS
    <3>2. \A a, b \in tick[s].todo : f[a] = f[b] => a = b
      OBVIOUS
    <3>3. \A c \in chunk : \E k \in tick[s].todo : f[k] = c
      OBVIOUS
    <3> QED
      BY <3>1, <3>2, <3>3 DEF Bijection, Injection, IsInjective, Surjection
  <2>2. ExistsBijection(tick[s].todo, chunk)
    BY <2>1 DEF ExistsBijection
  <2>3. tick[s].todo \in SUBSET Entry
    BY <1>0 DEF TickState
  <2>4. IsFiniteSet(tick[s].todo)
    BY <2>3, EntriesFinite
  <2> HIDE DEF f, chunk
  <2> QED
    BY <2>2, <2>3, <2>4, FS_Bijection
<1> HIDE DEF chunk
<1>6. \A row \in items[o] : row \notin chunk
  BY <1>2, <1>3
<1>7. \A t \in Tick : tick'[t].op = o =>
         tick[t].op = o /\ tick'[t].done = tick[t].done
  BY DEF Records
<1>8. Behind(o, C)'
  <2>1. ASSUME NEW c \in C, c.outcome = "SUCCEEDED", NEW row \in items'[o]
        PROVE  row.entry # c.entry
    <3>1. applied[o][c.entry] > 0
      BY <1>1, <2>1 DEF Behind
    <3> QED
      BY <1>1, <1>2, <1>3, <1>4, <2>1, <3>1 DEF Behind
  <2>2. \A row \in items'[o] : row.outcome # "CANCELLED" => row \in C
    BY <1>1, <1>2, <1>4 DEF Behind
  <2> QED
    BY <1>0, <1>1, <1>4, <1>7, <2>1, <2>2 DEF Behind
<1>9. /\ E \in [Tick -> SUBSET Result] /\ E[s] = D[s] \cup chunk
      /\ \A t \in Tick \ {s} : E[t] = D[t]
  BY <1>1, <1>2, <1>e DEF Drained
<1>10. D[s] \subseteq items[o] /\ Cardinality(D[s]) = tick[s].drained /\ IsFiniteSet(D[s])
  <2>1. D[s] \subseteq items[o] /\ Cardinality(D[s]) = tick[s].drained
    BY <1>1 DEF Drained, Of
  <2>2. \A row \in items[o] : row.entry \in Entry /\ \A q \in items[o] : row.entry = q.entry => row = q
    BY <1>0 DEF StoreTypeOK, Row, Report
  <2>3. IsFiniteSet(items[o])
    BY <2>2, UniqueFinite
  <2> QED
    BY <2>1, <2>3, FS_Subset
<1>11. Cardinality(E[s]) = tick'[s].drained
  <2>1. D[s] \cap chunk = {}
    BY <1>6, <1>10
  <2>2. Cardinality(D[s] \cup chunk) = Cardinality(D[s]) + Cardinality(chunk)
    BY <1>5, <1>10, <2>1, AddDisjoint
  <2> QED
    BY <1>5, <1>9, <1>10, <2>2 DEF Records
<1>12. ASSUME NEW t \in Tick, tick'[t].op = o
       PROVE  /\ E[t] \subseteq Of(items'[o], {"CANCELLED"})
              /\ Cardinality(E[t]) = tick'[t].drained
              /\ E[t] \cap C = {}
              /\ \A u \in Tick \ {t} : tick'[u].op = o => E[t] \cap E[u] = {}
  <2>1. tick[t].op = o
    BY <1>7, <1>12
  <2>2. D[t] \subseteq Of(items[o], {"CANCELLED"}) /\ D[t] \cap C = {}
    BY <1>1, <2>1 DEF Drained
  <2>3. C \cap chunk = {}
    BY <1>1, <1>2, <1>6 DEF Behind
  <2>4. E[t] \subseteq Of(items'[o], {"CANCELLED"})
    BY <1>2, <1>4, <1>9, <2>2 DEF Of
  <2>5. E[t] \cap C = {}
    BY <1>9, <2>2, <2>3
  <2>6. Cardinality(E[t]) = tick'[t].drained
    BY <1>1, <1>9, <1>11, <2>1 DEF Drained
  <2>7. ASSUME NEW u \in Tick \ {t}, tick'[u].op = o PROVE E[t] \cap E[u] = {}
    <3>1. tick[u].op = o /\ D[t] \cap D[u] = {}
      BY <1>1, <1>7, <2>1, <2>7 DEF Drained
    <3>2. D[u] \subseteq items[o] /\ D[t] \subseteq items[o]
      BY <1>1, <2>1, <3>1 DEF Drained, Of
    <3>3. D[u] \cap chunk = {} /\ D[t] \cap chunk = {}
      BY <1>6, <3>2
    <3>4. t # u
      BY <2>7
    <3>5. E[t] \in {D[t], D[t] \cup chunk} /\ E[u] \in {D[u], D[u] \cup chunk}
          /\ (E[t] = D[t] \/ E[u] = D[u])
      BY <1>9, <3>4
    <3> QED
      BY <3>1, <3>3, <3>5
  <2> QED
    BY <2>4, <2>5, <2>6, <2>7
<1>13. Drained(o, C, E)'
  BY <1>9, <1>12 DEF Drained
<1> QED
  BY <1>0, <1>1, <1>8, <1>13 DEF Books

\* The last update of a cancellation counts what the tick has drained.
LEMMA CancelBooks ==
    ASSUME IInv, NEW s \in Tick, Cancels(s), NEW o, o = tick[s].op,
           \A t \in Tick \ {s} : tick'[t] = tick[t], UNCHANGED scope,
           NEW C, NEW D, Books(o, C, D)
    PROVE  \E N : Books(o, N, D)'
<1>n. PICK N : N = C \cup D[s]
  OBVIOUS
<1>0. /\ StoreTypeOK /\ Report /\ o \in Op /\ Len(scope[o]) <= MaxScope
      /\ UNCHANGED <<items, applied>>
  BY DEF IInv, TypeOK, Ledger, Lengths, Cancels
<1>1. /\ Tally(op[o], C) /\ Behind(o, C) /\ Drained(o, C, D)
      /\ C \in SUBSET Result /\ D[s] \in SUBSET Result
  BY DEF Books, Behind, Drained
<1>2. /\ D[s] \subseteq Of(items[o], {"CANCELLED"}) /\ D[s] \cap C = {}
      /\ Cardinality(D[s]) = tick[s].drained
  BY <1>1 DEF Drained
<1>3. IsFiniteSet(C) /\ IsFiniteSet(D[s])
  <2>1. \A row \in items[o] : row.entry \in Entry /\ \A q \in items[o] : row.entry = q.entry => row = q
    BY <1>0 DEF StoreTypeOK, Row, Report
  <2>2. \A row \in D[s] : row.entry \in Entry /\ \A q \in D[s] : row.entry = q.entry => row = q
    BY <1>2, <2>1 DEF Of
  <2>3. IsFiniteSet(D[s])
    BY <2>2, UniqueFinite
  <2> QED
    BY <1>0, <1>1, <2>3, BehindUnique
<1>4. Tally(op'[o], N)
  <2>0. PICK row : row = op[o]
    OBVIOUS
  <2>1. PICK next : next = [row EXCEPT !.status = "CANCELLED",
                              !.skipped = @ + tick[s].drained,
                              !.processed = @ + tick[s].drained]
    OBVIOUS
  <2>2. op'[o] = next
    <3>1. op' = [op EXCEPT ![o] = next]
      BY <2>0, <2>1 DEF Cancels
    <3> QED
      BY <1>0, <3>1 DEF StoreTypeOK
  <2>3. /\ Of(D[s], {"SUCCEEDED"}) = {} /\ Of(D[s], {"FAILED"}) = {}
        /\ Of(D[s], {"SKIPPED", "CANCELLED"}) = D[s]
    BY <1>2 DEF Of
  <2>4. row \in OpRow /\ Cardinality({}) = 0
    BY <1>0, <2>0, FS_EmptySet DEF StoreTypeOK
  <2>5. /\ next.processed = row.processed + Cardinality(D[s])
        /\ next.succeeded = row.succeeded + Cardinality(Of(D[s], {"SUCCEEDED"}))
        /\ next.failed = row.failed + Cardinality(Of(D[s], {"FAILED"}))
        /\ next.skipped = row.skipped + Cardinality(Of(D[s], {"SKIPPED", "CANCELLED"}))
    <3>1. /\ next.processed = row.processed + tick[s].drained
          /\ next.skipped = row.skipped + tick[s].drained
          /\ next.succeeded = row.succeeded /\ next.failed = row.failed
          /\ row.succeeded \in Nat /\ row.failed \in Nat
      BY <2>1, <2>4 DEF OpRow
    <3>2. /\ Cardinality(Of(D[s], {"SUCCEEDED"})) = 0 /\ Cardinality(Of(D[s], {"FAILED"})) = 0
          /\ Cardinality(Of(D[s], {"SKIPPED", "CANCELLED"})) = Cardinality(D[s])
      BY <2>3, <2>4
    <3> QED
      BY <1>2, <3>1, <3>2
  <2>6. C \cap D[s] = {}
    BY <1>2
  <2>7. Tally(next, C \cup D[s])
    BY <1>1, <1>3, <2>0, <2>5, <2>6, TallyUnion
  <2> QED
    BY <1>n, <2>2, <2>7
<1>5. Behind(o, N)'
  <2>1. \A t \in Tick : tick'[t].op = o => tick[t].op = o /\ tick'[t].done = tick[t].done
    BY <1>0 DEF Cancels, Op
  <2>2. \A c \in N : c \in C \/ (c \in items[o] /\ c.outcome = "CANCELLED")
    BY <1>n, <1>2 DEF Of
  <2>3. \A row \in items[o] : row.entry \in 1..Len(scope[o])
    BY <1>0 DEF Report
  <2>4. N \in SUBSET Result /\ C \subseteq N
    BY <1>n, <1>1
  <2> QED
    BY <1>0, <1>1, <2>1, <2>2, <2>3, <2>4 DEF Behind
<1>6. Drained(o, N, D)'
  <2>1. \A t \in Tick : tick'[t].op = o => t # s /\ tick'[t] = tick[t] /\ tick[t].op = o
    BY <1>0 DEF Cancels, Op
  <2>2. \A t \in Tick : tick'[t].op = o => D[t] \cap N = {}
    BY <1>n, <1>1, <2>1 DEF Drained
  <2> QED
    BY <1>0, <1>1, <2>1, <2>2 DEF Drained
<1> QED
  BY <1>4, <1>5, <1>6 DEF Books

-----------------------------------------------------------------------------
\* A tick keeps its operation, drops it, or selects an active one.
LEMMA MovesTo ==
    ASSUME NEW s \in Tick, Moves(s)
    PROVE  tick'[s].op \in {tick[s].op, 0} \/ (tick'[s].op \in Op /\ Active(tick'[s].op))
<1>1. CASE Calm(s) \/ Pops(s)
  BY <1>1 DEF Calm, Pops, Continues, Rests
<1>2. CASE Commits(s) \/ Records(s) \/ Cancels(s)
  BY <1>2 DEF Commits, Records, Cancels
<1>3. ASSUME NEW k \in Entry, NEW outcome, NEW effect, Handles(s, k, outcome, effect)
      PROVE  tick'[s].op = tick[s].op
  BY <1>3 DEF Handles
<1> QED
  BY <1>1, <1>2, <1>3 DEF Moves

\* An operation whose counters may change after a step of a tick is one whose
\* counters might have changed before it.
LEMMA TrackedBack ==
    ASSUME TypeOK, AtWork, NEW s \in Tick, TickActs(s), Moves(s), NEW o \in Op, Tracked(o)'
    PROVE  Tracked(o)
<1>0. op \in [Op -> OpRow]
  BY DEF TypeOK, StoreTypeOK
<1>1. \A t \in Tick : tick'[t].op = o => tick[t].op = o \/ Active(o)
  <2>1. tick'[s].op \in {tick[s].op, 0} \/ Active(tick'[s].op)
    BY MovesTo
  <2>2. o # 0
    BY DEF Op
  <2> QED
    BY <2>1, <2>2 DEF Moves
<1>2. op'[o].status = op[o].status \/ (Exists(o) /\ tick[s].op = o)
  <2>1. \/ UNCHANGED op
        \/ /\ Exists(tick[s].op)
           /\ \A p \in Op : p # tick[s].op => op'[p] = op[p]
    <3>1. \/ UNCHANGED op
          \/ Exists(tick[s].op) /\ (StartOp(s) \/ Finalize(s) \/ CommitBatch(s) \/ CancelOp(s))
      BY DEF TickActs, storeVars, AcquireLock, SelectOp, StartOp, PopBatch, ExecuteItem,
         CommitBatch, Reread, Finalize, DrainPop, DrainRecord, CancelOp, ReleaseLock, TickThrows,
         KillTick
    <3>2. CASE StartOp(s) /\ Exists(tick[s].op)
      BY <1>0, <3>2 DEF StartOp
    <3>3. CASE Finalize(s) /\ Exists(tick[s].op)
      BY <1>0, <3>3 DEF Finalize
    <3>4. CASE CommitBatch(s) /\ Exists(tick[s].op)
      BY <1>0, <3>4 DEF CommitBatch
    <3>5. CASE CancelOp(s) /\ Exists(tick[s].op)
      BY <1>0, <3>5 DEF CancelOp
    <3> QED
      BY <3>1, <3>2, <3>3, <3>4, <3>5
  <2> QED
    BY <2>1
<1>3. CASE Exists(o) /\ tick[s].op = o
  BY <1>3 DEF Exists, Tracked
<1>4. CASE op'[o].status = op[o].status
  BY <1>1, <1>4 DEF Tracked, Active, Terminal
<1> QED
  BY <1>2, <1>3, <1>4

LEMMA TickBooks ==
    ASSUME IInv, DoneApplied, NEW s \in Tick, Moves(s), UNCHANGED scope,
           NEW o \in Op, NEW C, NEW D, Books(o, C, D)
    PROVE  \E N, E : Books(o, N, E)'
<1>0. /\ StoreTypeOK /\ CustodyOf(s) /\ \A t \in Tick \ {s} : tick'[t] = tick[t]
      /\ op \in [Op -> OpRow] /\ items \in [Op -> SUBSET Row] /\ 0 \notin Op
      /\ applied \in [Op -> [Entry -> Nat]]
  BY DEF IInv, TypeOK, StoreTypeOK, Ledger, TickCustody, Moves, Op
<1>1. CASE tick[s].op = o /\ Commits(s)
  BY <1>0, <1>1, CommitBooks
<1>2. CASE tick[s].op = o /\ Records(s)
  BY <1>0, <1>2, RecordBooks
<1>3. CASE tick[s].op = o /\ Cancels(s)
  BY <1>0, <1>3, CancelBooks
<1>4. CASE Calm(s) \/ Pops(s)
  <2>1. /\ Counters(op'[o]) = Counters(op[o]) /\ items'[o] = items[o] /\ UNCHANGED applied
        /\ Continues(s) \/ Rests(s)
           \/ /\ tick'[s].op = tick[s].op /\ tick'[s].drained = tick[s].drained
              /\ tick'[s].done = tick[s].done
    BY <1>4 DEF Calm, Pops
  <2>2. tick'[s].op = o =>
          \/ /\ tick[s].op = o /\ tick'[s].drained = tick[s].drained
             /\ \A d \in tick'[s].done : d \in tick[s].done \/ ~(applied[o][d.entry] > 0)
          \/ tick'[s].done = {} /\ tick'[s].drained = 0
    BY <2>1 DEF Continues, Rests
  <2> QED
    BY <1>0, <2>1, <2>2, BooksStay
<1>5. ASSUME NEW k \in Entry, NEW outcome, NEW effect, Handles(s, k, outcome, effect)
      PROVE  \E N, E : Books(o, N, E)'
  <2>1. /\ UNCHANGED <<op, items>> /\ tick'[s].op = tick[s].op
        /\ tick'[s].drained = tick[s].drained
        /\ tick'[s].done = tick[s].done \cup {[entry |-> k, outcome |-> outcome]}
        /\ applied' = IF effect THEN [applied EXCEPT ![tick[s].op][k] = @ + 1] ELSE applied
    BY <1>5 DEF Handles
  <2>2. \A j \in Entry : applied[o][j] > 0 => applied'[o][j] > 0
    BY <1>0, <2>1
  <2>3. tick[s].op = o => ~(applied[o][k] > 0)
    BY <1>0, <1>5 DEF Handles, CustodyOf
  <2>4. tick'[s].op = o =>
          /\ tick[s].op = o /\ tick'[s].drained = tick[s].drained
          /\ \A d \in tick'[s].done : d \in tick[s].done \/ ~(applied[o][d.entry] > 0)
    BY <2>1, <2>3
  <2> QED
    BY <1>0, <2>1, <2>2, <2>4, BooksStay
<1>6. CASE tick[s].op # o /\ (Commits(s) \/ Records(s) \/ Cancels(s))
  <2>1. op'[o] = op[o] /\ items'[o] = items[o] /\ UNCHANGED applied /\ tick'[s].op # o
    BY <1>0, <1>6 DEF Commits, Records, Cancels
  <2>2. Counters(op'[o]) = Counters(op[o])
    BY <2>1
  <2> QED
    BY <1>0, <2>1, <2>2, BooksStay
<1> QED
  BY <1>1, <1>2, <1>3, <1>4, <1>5, <1>6 DEF Moves

-----------------------------------------------------------------------------
(* The invariant.                                                           *)

LEMMA InitCountInv == Init => CountInv
BY DEF Init, StoreInit, ProcInit, IdleTick, AbsentOp, CountInv, Balanced, OnRows, Totals,
   DoneApplied, Tracked, Active, Terminal, ActiveStatus, TerminalStatus

LEMMA AppliedGrows ==
    ASSUME applied \in [Op -> [Entry -> Nat]], NEW s \in Tick, Moves(s),
           NEW o \in Op, NEW k \in Entry, applied[o][k] > 0
    PROVE  applied'[o][k] > 0
<1>1. CASE UNCHANGED applied
  BY <1>1
<1>2. ASSUME NEW j \in Entry, NEW outcome, NEW effect, Handles(s, j, outcome, effect)
      PROVE  applied'[o][k] > 0
  <2>1. applied' = IF effect THEN [applied EXCEPT ![tick[s].op][j] = @ + 1] ELSE applied
    BY <1>2 DEF Handles
  <2> QED
    BY <2>1
<1> QED
  BY <1>1, <1>2 DEF Moves, Calm, Pops, Commits, Records, Cancels

\* A row is inserted with empty books.
LEMMA InsertBooks ==
    ASSUME IInv, OnRows, NEW r \in Req, NEW n \in Op, Inserts(r, n), UNCHANGED procVars
    PROVE  \E C, D : Books(n, C, D)'
<1>1. PICK C, D : C = {} /\ D = [t \in Tick |-> {}]
  OBVIOUS
<1>2. items'[n] = {}
  BY DEF IInv, Ledger, FreshEmpty, EmptyOf, Fresh, Inserts
<1>3. \A t \in Tick : tick'[t].op # n
  BY DEF OnRows, Inserts, procVars, Op
<1>4. Tally(op'[n], C)
  <2>1. \A outcomes : Of(C, outcomes) = {}
    BY <1>1 DEF Of
  <2> QED
    BY <1>1, <2>1, FS_EmptySet DEF Tally, Inserts
<1>5. Behind(n, C)'
  BY <1>1, <1>2 DEF Behind
<1>6. Drained(n, C, D)'
  <2>1. D \in [Tick -> SUBSET Result]
    BY <1>1
  <2> QED
    BY <1>3, <2>1 DEF Drained
<1> QED
  BY <1>4, <1>5, <1>6 DEF Books

LEMMA NextKeepsBalanced ==
    ASSUME IInv, CountInv, [Next]_vars
    PROVE  Balanced'
<1>0. TypeOK /\ AtWork /\ OnRows /\ DoneApplied /\ Balanced
  BY DEF IInv, CountInv
<1> SUFFICES ASSUME NEW o \in Op, Tracked(o)'
             PROVE  \E C, D : Books(o, C, D)'
  BY DEF Balanced
<1>1. ASSUME NEW s \in Tick, TickActs(s), Moves(s), RowsKept
      PROVE  \E C, D : Books(o, C, D)'
  <2>1. PICK C, D : Books(o, C, D)
    BY <1>0, <1>1, TrackedBack DEF Balanced
  <2> QED
    BY <1>0, <1>1, <2>1, TickBooks DEF RowsKept
<1>2. CASE Outside
  <2>1. UNCHANGED <<scope, applied, tick>> /\ Counters(op'[o]) = Counters(op[o])
    BY <1>2 DEF Outside, RowsKept
  <2>2. Tracked(o)
    BY <1>2 DEF Outside, Tracked, Active, Terminal
  <2>3. items'[o] = items[o]
    <3>1. op'[o].status # "DELETED"
      BY DEF Tracked, Active, Terminal, ActiveStatus, TerminalStatus
    <3>2. ~(/\ Terminal(o) /\ op'[o] = op[o]
            /\ \A s \in Tick : tick[s].op # o)
      BY <2>1 DEF Tracked, Active, Terminal, ActiveStatus, TerminalStatus
    <3> QED
      BY <1>2, <3>1, <3>2 DEF Outside
  <2>4. PICK C, D : Books(o, C, D)
    BY <1>0, <2>2 DEF Balanced
  <2>5. Tally(op'[o], C)
    <3>1. PICK row, next : row = op[o] /\ next = op'[o]
      OBVIOUS
    <3> QED
      BY <2>1, <2>4, <3>1, SameTally DEF Books
  <2>6. Behind(o, C)'
    BY <2>1, <2>3, <2>4 DEF Books, Behind
  <2>7. Drained(o, C, D)'
    BY <2>1, <2>3, <2>4 DEF Books, Drained
  <2> QED
    BY <2>5, <2>6, <2>7 DEF Books
<1>3. ASSUME NEW r \in Req, NEW n \in Op, Inserts(r, n), UNCHANGED procVars
      PROVE  \E C, D : Books(o, C, D)'
  <2>1. CASE o = n
    BY <1>0, <1>3, <2>1, InsertBooks
  <2>2. CASE o # n
    <3>1. op'[o] = op[o] /\ scope'[o] = scope[o] /\ UNCHANGED <<items, applied, tick>>
      BY <1>3, <2>2 DEF Inserts, procVars
    <3>2. Tracked(o)
      BY <3>1 DEF Tracked, Active, Terminal
    <3>3. PICK C, D : Books(o, C, D)
      BY <1>0, <3>2 DEF Balanced
    <3>4. Tally(op'[o], C) /\ Behind(o, C)' /\ Drained(o, C, D)'
      BY <3>1, <3>3 DEF Books, Tally, Behind, Drained
    <3> QED
      BY <3>4 DEF Books
  <2> QED
    BY <2>1, <2>2
<1> QED
  BY <1>1, <1>2, <1>3, StepMoves

LEMMA NextKeepsDoneApplied ==
    ASSUME IInv, DoneApplied, [Next]_vars
    PROVE  DoneApplied'
<1>0. /\ applied \in [Op -> [Entry -> Nat]] /\ TickCustody
      /\ \A t \in Tick : \A d \in tick[t].done : tick[t].op \in Op /\ d.entry \in Entry
  <2>1. \A t \in Tick : tick[t] \in TickState
    BY DEF IInv, TypeOK, ProcTypeOK
  <2>2. \A t \in Tick : \A d \in tick[t].done : d.entry \in Entry
    BY <2>1 DEF TickState
  <2> QED
    BY <2>2 DEF IInv, TypeOK, StoreTypeOK, Ledger, TickCustody, CustodyOf
<1>1. CASE UNCHANGED <<applied, tick>>
  BY <1>1 DEF DoneApplied
<1>2. ASSUME NEW s \in Tick, Moves(s), NEW t \in Tick, NEW d \in tick'[t].done,
             d.outcome = "SUCCEEDED"
      PROVE  applied'[tick'[t].op][d.entry] > 0
  <2>1. CASE tick'[t].op = tick[t].op /\ d \in tick[t].done
    <3>1. applied[tick[t].op][d.entry] > 0
      BY <1>2, <2>1 DEF DoneApplied
    <3> QED
      BY <1>0, <1>2, <2>1, <3>1, AppliedGrows
  <2>2. CASE ~(tick'[t].op = tick[t].op /\ d \in tick[t].done)
    <3>1. PICK k \in Entry, outcome \in {"SUCCEEDED", "FAILED", "SKIPPED"}, effect \in BOOLEAN :
            Handles(s, k, outcome, effect)
      BY <1>2, <2>2 DEF Moves, Calm, Pops, Commits, Records, Cancels, Continues, Rests
    <3>2. /\ t = s /\ tick'[s].op = tick[s].op /\ tick[s].op \in Op
          /\ d = [entry |-> k, outcome |-> outcome]
      BY <1>2, <2>2, <3>1 DEF Moves, Handles
    <3>3. applied' = [applied EXCEPT ![tick[s].op][k] = @ + 1]
      BY <1>2, <3>1, <3>2 DEF Handles
    <3>4. PICK o \in Op : o = tick[s].op
      BY <3>2
    <3>5. applied'[o][k] = applied[o][k] + 1 /\ applied[o][k] \in Nat
      BY <1>0, <3>3, <3>4
    <3> QED
      BY <3>2, <3>4, <3>5
  <2> QED
    BY <2>1, <2>2
<1>3. UNCHANGED <<applied, tick>> \/ \E s \in Tick : Moves(s)
  BY StepMoves DEF Outside, Inserts, procVars
<1> QED
  BY <1>1, <1>2, <1>3 DEF DoneApplied

LEMMA NextKeepsRowsFilled ==
    ASSUME IInv, OnRows, Totals, [Next]_vars
    PROVE  OnRows' /\ Totals'
<1>0. /\ \A t \in Tick : tick[t].op \in 0..MaxOps
      /\ MaxOps \in Nat
  BY Bounds DEF IInv, TypeOK, ProcTypeOK, TickState
<1>1. \A o \in Op : \/ /\ Columns(op'[o]) = Columns(op[o]) /\ scope'[o] = scope[o]
                       /\ op'[o].status = "ABSENT" <=> op[o].status = "ABSENT"
                    \/ op'[o].status # "ABSENT" /\ op'[o].total = Len(scope'[o])
  <2>1. ASSUME NEW r \in Req, NEW n \in Op, Inserts(r, n)
        PROVE  \A o \in Op : \/ op'[o] = op[o] /\ scope'[o] = scope[o]
                             \/ op'[o].status # "ABSENT" /\ op'[o].total = Len(scope'[o])
    BY <2>1 DEF Inserts
  <2> QED
    BY <2>1, StepMoves DEF Outside, RowsKept
<1>2. \A t \in Tick : \/ tick'[t].op \in {tick[t].op, 0}
                      \/ tick'[t].op \in Op /\ Active(tick'[t].op)
  <2>1. ASSUME NEW s \in Tick, Moves(s)
        PROVE  tick'[s].op \in {tick[s].op, 0} \/ (tick'[s].op \in Op /\ Active(tick'[s].op))
    BY <2>1, MovesTo
  <2>2. CASE UNCHANGED tick
    BY <2>2
  <2>3. UNCHANGED tick \/ \E s \in Tick : Moves(s)
    BY StepMoves DEF Outside, procVars
  <2> QED
    BY <2>1, <2>2, <2>3 DEF Moves
<1>3. ASSUME NEW t \in Tick, tick'[t].op # 0
      PROVE  op'[tick'[t].op].status # "ABSENT"
  <2>1. op[tick'[t].op].status # "ABSENT"
    BY <1>2, <1>3 DEF OnRows, Active, ActiveStatus
  <2>2. tick'[t].op \in Op
    <3>1. tick[t].op \in 0..MaxOps
      BY <1>0
    <3> QED
      BY <1>0, <1>2, <1>3, <3>1 DEF Op
  <2> QED
    BY <1>1, <2>1, <2>2
<1>4. Totals'
  BY <1>1 DEF Totals, Columns
<1> QED
  BY <1>3, <1>4 DEF OnRows

LEMMA NextKeepsCountInv ==
    ASSUME IInv, CountInv, [Next]_vars
    PROVE  CountInv'
BY NextKeepsBalanced, NextKeepsDoneApplied, NextKeepsRowsFilled DEF CountInv

\* The sets behind the counters of bulk_operations exist in every state.
THEOREM CountInvariant == Spec => []CountInv
<1>1. IInv /\ CountInv /\ [Next]_vars => CountInv'
  BY NextKeepsCountInv
<1> QED
  BY <1>1, InitCountInv, LedgerInvariant, PTL DEF Spec

\* While an operation is active, processed, succeeded, failed and skipped agree
\* with bulk_operation_items and with the changes made to issues, however ticks
\* overlap, die or lose a reply: an update adds only what its tick has done.
THEOREM CountersTheorem == Spec => []CountersMatchLedger
BY BooksMatchLedger, LedgerInvariant, CountInvariant, PTL

===============================================================================
