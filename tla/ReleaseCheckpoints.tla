------------------------- MODULE ReleaseCheckpoints -------------------------
(***************************************************************************)
(* Release checkpoints: applying a template, removing a checkpoint,        *)
(* synchronising the instances of a checkpoint type, the recompute of all  *)
(* checkpoints of a release, and the scheduler that recomputes without a   *)
(* request (release-checkpoints.service.ts, checkpoint-scheduler.service). *)
(*                                                                         *)
(* A recompute reads the issues, then the rows, evaluates each row from    *)
(* these copies and writes it when its state or its violations differ      *)
(* from the copy.                                                          *)
(***************************************************************************)
EXTENDS ReleaseStore

CheckpointScratch ==
    [pc : {"upsert"}, day : Day, todo : SUBSET CType]
      \cup [pc : {"delete"}, cp : Checkpoint]
      \cup [pc : {"sync"}, cp : Checkpoint, day : Day]
      \cup [pc : {"tick", "load", "rowsFirst"}]
      \cup [pc : {"rows"}, st : Loaded]
      \cup [pc : {"loadLast"}, rows : RowTable]
      \cup [pc : {"evaluate"}, scan : Scan]
      \cup [pc : {"write"}, scan : Scan, cp : Checkpoint, result : Result]
      \cup [pc : {"reconcile"}, scan : Scan, cp : Checkpoint, result : Result,
            seen : [Issue -> BOOLEAN]]

\* The end of a recompute; the scheduler gives its lock back if it still owns it.
Finish(p) ==
    /\ Become(p, Idle)
    /\ lock' = IF lock = p THEN NoProc ELSE lock

-----------------------------------------------------------------------------
(* Applying, removing and synchronising checkpoints.                        *)

OpenApply(p) ==
    /\ Accept(p)
    /\ \E S \in SUBSET CType \ {{}} :
        Become(p, [pc |-> "upsert", day |-> planned, todo |-> S])
    /\ UNCHANGED <<rel, cps, today, lock, faults>>

\* The row of a type: the one the release has, or else the next id.
RowFor(t) ==
    LET has == {c \in Applied : TypeOf[c] = t}
        new == {c \in Checkpoint : row[c] = Absent /\ TypeOf[c] = t} IN
    IF has # {} THEN has ELSE {c \in new : c = CHOOSE d \in new : TRUE}

\* A row that exists keeps everything but its deadline.
Upsert(p) ==
    /\ proc[p].pc = "upsert"
    /\ \E t \in proc[p].todo, mode \in Mode : \E c \in RowFor(t) :
        LET rest == proc[p].todo \ {t} IN
        /\ ~RowLocked(c)
        /\ row' = [row EXCEPT ![c] = IF c \in Applied THEN [@ EXCEPT !.deadline = proc[p].day]
                                     ELSE NewRow(mode, proc[p].day)]
        /\ Become(p, IF rest = {} THEN [pc |-> "load"]
                     ELSE [pc |-> "upsert", day |-> proc[p].day, todo |-> rest])
    /\ UNCHANGED <<rel, open, today, lock, ops, faults>>

OpenRemove(p) ==
    /\ Accept(p)
    /\ \E c \in Applied : Become(p, [pc |-> "delete", cp |-> c])
    /\ UNCHANGED <<rel, cps, today, lock, faults>>

\* The events of the row go with it, by the cascade of their foreign key.  A second
\* delete of the row throws.
Delete(p) ==
    LET c == proc[p].cp IN
    /\ proc[p].pc = "delete"
    /\ ~RowLocked(c)
    /\ row' = [row EXCEPT ![c] = Gone]
    /\ open' = [open EXCEPT ![c] = [i \in Issue |-> 0]]
    /\ Become(p, Idle)
    /\ UNCHANGED <<rel, today, lock, ops, faults>>

\* A release has at most one checkpoint of the type.
OpenSync(p) ==
    /\ Accept(p)
    /\ \E c \in Applied : Become(p, [pc |-> "sync", cp |-> c, day |-> planned])
    /\ UNCHANGED <<rel, cps, today, lock, faults>>

\* The row takes the current condition of its type, whatever it is by now.
Sync(p) ==
    LET c == proc[p].cp IN
    /\ proc[p].pc = "sync"
    /\ ~RowLocked(c)
    /\ IF c \in Applied
       THEN /\ \E mode \in Mode :
                row' = [row EXCEPT ![c].mode = mode, ![c].deadline = proc[p].day]
            /\ Become(p, [pc |-> "rowsFirst"])
       ELSE Become(p, Idle) /\ UNCHANGED row
    /\ UNCHANGED <<rel, open, today, lock, ops, faults>>

-----------------------------------------------------------------------------
(* recomputeForRelease.                                                     *)

NewScan(st, rows) == [st |-> st, rows |-> rows, now |-> today]

Load(p) ==
    /\ proc[p].pc = "load"
    /\ Become(p, [pc |-> "rows", st |-> LoadedNow])
    /\ UNCHANGED <<rel, cps, today, lock, ops, faults>>

ReadRows(p) ==
    /\ proc[p].pc = "rows"
    /\ IF Applied = {} THEN Finish(p)
       ELSE /\ Become(p, [pc |-> "evaluate", scan |-> NewScan(proc[p].st, row)])
            /\ UNCHANGED lock
    /\ UNCHANGED <<rel, cps, today, ops, faults>>

\* Without preloaded issues the rows are read first.
ReadRowsFirst(p) ==
    /\ proc[p].pc = "rowsFirst"
    /\ IF Applied = {} THEN Finish(p)
       ELSE Become(p, [pc |-> "loadLast", rows |-> row]) /\ UNCHANGED lock
    /\ UNCHANGED <<rel, cps, today, ops, faults>>

LoadLast(p) ==
    /\ proc[p].pc = "loadLast"
    /\ Become(p, [pc |-> "evaluate", scan |-> NewScan(LoadedNow, proc[p].rows)])
    /\ UNCHANGED <<rel, cps, today, lock, ops, faults>>

Matched(st) == {i \in DOMAIN st : issue[i] \in Match}

\* The TTQL query runs now; the issues and the row are the copies.
Outcome(scan, c) ==
    LET r == scan.rows[c] IN Evaluate(r.mode, scan.st, Matched(scan.st), r.deadline, scan.now)

\* When a row is not written again: equal violations have equal hashes.  Mutant:
\* the states are not compared.
SameHash(r, result) == r.evaluated /\ r.result.violations = result.violations
Unchanged(r, result) ==
    r.evaluated /\ r.result.state = result.state /\ r.result.violations = result.violations

WithoutRow(scan, c) == [scan EXCEPT !.rows[c] = Absent]

\* The recompute goes on with the rows that are left.
Continue(p, scan) ==
    IF In(scan.rows) = {} THEN Finish(p)
    ELSE Become(p, [pc |-> "evaluate", scan |-> scan]) /\ UNCHANGED lock

Judge(p, c, result) ==
    LET scan == WithoutRow(proc[p].scan, c) IN
    IF Unchanged(proc[p].scan.rows[c], result) THEN Continue(p, scan)
    ELSE /\ Become(p, [pc |-> "write", scan |-> scan, cp |-> c, result |-> result])
         /\ UNCHANGED lock

EvaluateRow(p) ==
    /\ proc[p].pc = "evaluate"
    /\ \E c \in In(proc[p].scan.rows) : Judge(p, c, Outcome(proc[p].scan, c))
    /\ UNCHANGED <<rel, cps, today, ops, faults>>

TtqlFails(p) ==
    /\ proc[p].pc = "evaluate"
    /\ faults < MaxFaults
    /\ \E c \in In(proc[p].scan.rows) :
        /\ EffectiveMode(proc[p].scan.rows[c].mode) # "STRUCTURED"
        /\ DOMAIN proc[p].scan.st # {}
        /\ Judge(p, c, ErrorResult)
    /\ faults' = faults + 1
    /\ UNCHANGED <<rel, cps, today, ops>>

\* The transaction updates the row, which locks it, and finds the open events.
\* When the row is gone it throws, and the rows that are left stay as they are.
UpdateRow(p) ==
    LET c == proc[p].cp IN
    /\ proc[p].pc = "write"
    /\ ~RowLocked(c)
    /\ IF c \in Applied
       THEN /\ Become(p, [pc |-> "reconcile", scan |-> proc[p].scan, cp |-> c,
                          result |-> proc[p].result,
                          seen |-> [i \in Issue |-> open[c][i] > 0]])
            /\ UNCHANGED lock
       ELSE Finish(p)
    /\ UNCHANGED <<rel, cps, today, ops, faults>>

\* Events are resolved or created after what was found.
Reconciled(events, seen, V) ==
    [i \in Issue |-> IF seen[i] THEN IF i \in Violating(V) THEN events[i] ELSE 0
                     ELSE IF i \in Violating(V) THEN events[i] + 1 ELSE events[i]]

Commit(p) ==
    LET l == proc[p] IN
    /\ l.pc = "reconcile"
    /\ row' = [row EXCEPT ![l.cp].result = l.result, ![l.cp].evaluated = TRUE]
    /\ open' = [open EXCEPT ![l.cp] = Reconciled(@, l.seen, l.result.violations)]
    /\ Continue(p, l.scan)
    /\ UNCHANGED <<rel, today, ops, faults>>

-----------------------------------------------------------------------------
(* tickCheckpoints.                                                         *)

StartTick(p) ==
    /\ proc[p] = Idle
    /\ lock = NoProc
    /\ lock' = p
    /\ Become(p, [pc |-> "tick"])
    /\ UNCHANGED <<rel, cps, today, ops, faults>>

\* The planned date is a midnight and the tick comes later in the day: a release
\* of exactly Window days ago is past.
InWindow == today < planned + Window /\ planned <= today + Window

\* What the scheduler looks at: releases that are being worked on, planned near.
Watched == status \in Active /\ InWindow

\* Of a crowd it takes 500, in no order.
SelectRelease(p) ==
    /\ proc[p].pc = "tick"
    /\ \E taken \in IF Crowded THEN BOOLEAN ELSE {TRUE} :
        IF Watched /\ taken THEN Become(p, [pc |-> "load"]) /\ UNCHANGED lock
        ELSE Finish(p)
    /\ UNCHANGED <<rel, cps, today, ops, faults>>

\* The key expires, its owner dead or just slow.
LockExpires ==
    /\ lock # NoProc
    /\ lock' = NoProc
    /\ UNCHANGED <<rel, cps, today, proc, ops, faults>>

-----------------------------------------------------------------------------

OpenCheckpointRequest(p) == OpenApply(p) \/ OpenRemove(p) \/ OpenSync(p)

CheckpointStep(p) ==
    \/ Upsert(p) \/ Delete(p) \/ Sync(p)
    \/ Load(p) \/ ReadRows(p) \/ ReadRowsFirst(p) \/ LoadLast(p)
    \/ EvaluateRow(p) \/ TtqlFails(p) \/ UpdateRow(p) \/ Commit(p)
    \/ SelectRelease(p)
=============================================================================
