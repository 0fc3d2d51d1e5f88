---------------------------- MODULE ReleaseProofs ----------------------------
(***************************************************************************)
(* Proofs about Releases, for any number of issues, checkpoints, handlers, *)
(* requests, days and faults: types, the open violation events of a        *)
(* checkpoint are those of its row, and the audit log of the release is    *)
(* the chain of its transitions.                                           *)
(***************************************************************************)
EXTENDS Releases, TLAPS

\* A transaction that has updated a row is the only one; the row is there, and
\* what it found of its events still holds when it commits.
RowCustody ==
    \A p \in Proc : proc[p].pc = "reconcile" =>
        /\ proc[p].cp \in Applied
        /\ \A i \in Issue : proc[p].seen[i] <=> open[proc[p].cp][i] > 0
        /\ \A q \in Proc : proc[q].pc = "reconcile" /\ proc[q].cp = proc[p].cp => q = p

IInv == TypeOK /\ EventsMatchRow /\ AuditChains /\ RowCustody

-----------------------------------------------------------------------------
(* Values.                                                                  *)

LEMMA AbsentIsNoRow == Absent \notin Row /\ Gone \notin Row
BY StoreAssumption DEF Absent, Gone, Row

LEMMA RowOf ==
  ASSUME NEW R \in RowTable, NEW c \in In(R)
  PROVE  c \in Checkpoint /\ R[c] \in Row
BY DEF RowTable, In

LEMMA PutRow ==
  ASSUME NEW R \in RowTable, NEW c \in Checkpoint, NEW r \in Row \cup {Absent, Gone}
  PROVE  [R EXCEPT ![c] = r] \in RowTable
BY DEF RowTable

LEMMA NewRowType ==
  ASSUME NEW mode \in Mode, NEW day \in Day
  PROVE  NewRow(mode, day) \in Row
BY DEF NewRow, Row, Result

LEMMA RowEdits ==
  ASSUME NEW r \in Row, NEW mode \in Mode, NEW day \in Day, NEW result \in Result
  PROVE  /\ [r EXCEPT !.deadline = day] \in Row
         /\ [r EXCEPT !.mode = mode, !.deadline = day] \in Row
         /\ [r EXCEPT !.result = result, !.evaluated = TRUE] \in Row
BY DEF Row

LEMMA ErrorType == ErrorResult \in Result
BY DEF ErrorResult, Result, Violation, Reason

LEMMA EvaluateType ==
  ASSUME NEW mode, NEW st \in Loaded, NEW matched, NEW deadline, NEW now
  PROVE  Evaluate(mode, st, matched, deadline, now) \in Result
<1>. DEFINE m == EffectiveMode(mode)
            V == Violations(m, st, matched)
<1>1. DOMAIN st \subseteq Issue  BY DEF Loaded
<1>2. Failed(m, st) \subseteq Issue /\ Mismatched(m, st, matched) \subseteq Issue
  BY <1>1 DEF Failed, Mismatched
<1>3. V \in SUBSET Violation  BY <1>2 DEF Violations, Violation, Reason
<1>4. Applicable(m, st) \in SUBSET Issue  BY <1>1 DEF Applicable
<1>5. StateOf(V, deadline, now) \in {"PENDING", "OK", "VIOLATED", "ERROR"}  BY DEF StateOf
<1>. HIDE DEF m, V
<1>6. ErrorResult \in Result  BY ErrorType
<1>7. [state |-> StateOf(V, deadline, now), applicable |-> Applicable(m, st),
       passed |-> Applicable(m, st) \ Violating(V), violations |-> V] \in Result
  BY <1>3, <1>4, <1>5 DEF Result
<1>. QED  BY <1>6, <1>7 DEF Evaluate, m, V

LEMMA LoadedNowType ==
  ASSUME items \in SUBSET Issue, issue \in [Issue -> IStatus]
  PROVE  LoadedNow \in Loaded
<1>1. LoadedNow \in [items -> IStatus]  BY DEF LoadedNow
<1>. QED  BY <1>1 DEF Loaded

LEMMA ScanEdit ==
  ASSUME NEW s \in Scan, NEW c \in Checkpoint
  PROVE  WithoutRow(s, c) \in Scan
<1>1. s.rows \in RowTable  BY DEF Scan
<1>2. [s.rows EXCEPT ![c] = Absent] \in RowTable  BY <1>1, PutRow
<1>3. [s EXCEPT !.rows = [s.rows EXCEPT ![c] = Absent]] \in Scan  BY <1>2 DEF Scan
<1>. QED  BY <1>3 DEF WithoutRow

-----------------------------------------------------------------------------
(* Local variables of a process.                                            *)

LEMMA ScratchOf ==
  ASSUME NEW l \in Scratch
  PROVE  /\ l.pc \in {"condition", "move"} => l.edge \in REdge
         /\ l.pc = "moveIssue" => l.i \in Issue /\ l.to \in IStatus
         /\ l.pc \in {"resolve", "addItem", "removeItem"} => l.i \in Issue
         /\ l.pc \in {"replan", "readDeadlines", "redate", "upsert", "sync"} => l.day \in Day
         /\ l.pc = "redate" => l.todo \in SUBSET Checkpoint
         /\ l.pc = "upsert" => l.todo \in SUBSET CType
         /\ l.pc = "redate" => l.ok \in BOOLEAN
         /\ l.pc \in {"delete", "sync", "write", "reconcile"} => l.cp \in Checkpoint
         /\ l.pc = "rows" => l.st \in Loaded
         /\ l.pc = "loadLast" => l.rows \in RowTable
         /\ l.pc \in {"evaluate", "write", "reconcile"} => l.scan \in Scan
         /\ l.pc \in {"write", "reconcile"} => l.result \in Result
         /\ l.pc = "reconcile" => l.seen \in [Issue -> BOOLEAN]
BY DEF Scratch, RequestScratch, CheckpointScratch

LEMMA IdleType == Idle \in Scratch /\ Idle.pc = "idle"
BY DEF Idle, Scratch
\* The types of what no other invariant is about.
PlainTypes ==
    /\ planned \in Day /\ items \in SUBSET Issue /\ issue \in [Issue -> IStatus]
    /\ today \in Day /\ lock \in Proc \cup {NoProc, Dead}
    /\ ops \in 0..MaxOps /\ faults \in 0..MaxFaults

\* The status and the audit log.
LogInv == status \in RStatus /\ audit \in Seq(REdge) /\ AuditChains

\* The checkpoints, their events and the processes.
RowInv ==
    /\ row \in RowTable /\ open \in [Checkpoint -> [Issue -> Nat]]
    /\ proc \in [Proc -> Scratch]
    /\ EventsMatchRow /\ RowCustody

LEMMA Parts == IInv <=> PlainTypes /\ LogInv /\ RowInv
BY DEF IInv, TypeOK, PlainTypes, LogInv, RowInv

LEMMA AcceptType ==
  ASSUME ops \in 0..MaxOps, NEW p, Accept(p)
  PROVE  ops' \in 0..MaxOps
BY StoreAssumption DEF Accept

LEMMA LogUnchanged == LogInv /\ UNCHANGED <<status, audit>> => LogInv'
BY DEF LogInv, AuditChains

\* A process leaves the checkpoints alone and does not enter a transaction.
LEMMA RowsUnchanged ==
  ASSUME RowInv, NEW p \in Proc, NEW l \in Scratch, l.pc # "reconcile",
         Become(p, l), UNCHANGED cps
  PROVE  RowInv'
<1>1. proc' \in [Proc -> Scratch]  BY DEF RowInv, Become
<1>2. row' = row /\ open' = open  BY DEF cps
<1>3. EventsMatchRow'  BY <1>2 DEF RowInv, EventsMatchRow, Applied, In
<1>4. \A q \in Proc : proc'[q].pc = "reconcile" => q # p /\ proc'[q] = proc[q]
  BY DEF RowInv, Become
<1>5. RowCustody'  BY <1>2, <1>4 DEF RowInv, RowCustody, Applied, In
<1>. QED  BY <1>1, <1>2, <1>3, <1>5 DEF RowInv

\* A process changes a row that no transaction holds, and its events with it.
LEMMA FreeRowChanged ==
  ASSUME RowInv, NEW p \in Proc, NEW l \in Scratch, l.pc # "reconcile", Become(p, l),
         NEW c \in Checkpoint, ~RowLocked(c),
         NEW r \in Row \cup {Absent, Gone}, row' = [row EXCEPT ![c] = r],
         NEW e \in [Issue -> Nat], open' = [open EXCEPT ![c] = e],
         \A i \in Issue : e[i] = IF r \notin {Absent, Gone} /\ i \in Violating(r.result.violations)
                                 THEN 1 ELSE 0
  PROVE  RowInv'
<1>1. proc' \in [Proc -> Scratch]  BY DEF RowInv, Become
<1>2. row' \in RowTable  BY PutRow DEF RowInv
<1>3. open' \in [Checkpoint -> [Issue -> Nat]]  BY DEF RowInv
<1>4. row \in RowTable /\ open \in [Checkpoint -> [Issue -> Nat]]  BY DEF RowInv
<1>5. row'[c] = r /\ open'[c] = e  BY <1>4 DEF RowTable
<1>6. \A d \in Checkpoint \ {c} : row'[d] = row[d] /\ open'[d] = open[d]
  BY <1>4 DEF RowTable
<1>7. EventsMatchRow'
  <2>. SUFFICES ASSUME NEW d \in Checkpoint, NEW i \in Issue
                PROVE  open'[d][i] = IF row'[d] \notin {Absent, Gone} /\ i \in Violating(row'[d].result.violations)
                                     THEN 1 ELSE 0
    BY DEF EventsMatchRow, Applied, In
  <2>1. CASE d = c  BY <2>1, <1>5
  <2>2. CASE d # c  BY <2>2, <1>6 DEF RowInv, EventsMatchRow, Applied, In
  <2>. QED  BY <2>1, <2>2
<1>8. \A q \in Proc : proc'[q].pc = "reconcile" =>
          q # p /\ proc'[q] = proc[q] /\ proc[q].cp \in Checkpoint \ {c}
  BY ScratchOf DEF RowInv, Become, RowLocked
<1>9. RowCustody'
  <2>. SUFFICES ASSUME NEW q \in Proc, proc'[q].pc = "reconcile"
                PROVE  /\ proc'[q].cp \in Applied'
                       /\ \A i \in Issue : proc'[q].seen[i] <=> open'[proc'[q].cp][i] > 0
                       /\ \A t \in Proc : proc'[t].pc = "reconcile" /\ proc'[t].cp = proc'[q].cp
                                             => t = q
    BY DEF RowCustody
  <2>1. proc'[q] = proc[q] /\ proc[q].cp \in Checkpoint \ {c}  BY <1>8
  <2>2. row'[proc[q].cp] = row[proc[q].cp] /\ open'[proc[q].cp] = open[proc[q].cp]
    BY <2>1, <1>6
  <2>3. /\ proc[q].cp \in Applied
        /\ \A i \in Issue : proc[q].seen[i] <=> open[proc[q].cp][i] > 0
        /\ \A t \in Proc : proc[t].pc = "reconcile" /\ proc[t].cp = proc[q].cp => t = q
    BY <2>1 DEF RowInv, RowCustody
  <2>4. proc'[q].cp \in Applied'  BY <2>1, <2>2, <2>3 DEF Applied, In
  <2>5. \A t \in Proc : proc'[t].pc = "reconcile" => proc'[t] = proc[t]  BY <1>8
  <2>. QED  BY <2>1, <2>2, <2>3, <2>4, <2>5
<1>. QED  BY <1>1, <1>2, <1>3, <1>7, <1>9 DEF RowInv

\* Its violations stay as they are.
LEMMA FreeRowEdited ==
  ASSUME RowInv, NEW p \in Proc, NEW l \in Scratch, l.pc # "reconcile", Become(p, l),
         NEW c \in Checkpoint, ~RowLocked(c), UNCHANGED open,
         NEW r \in Row, row' = [row EXCEPT ![c] = r],
         \/ c \notin Applied /\ r.result.violations = {}
         \/ c \in Applied /\ r.result.violations = row[c].result.violations
  PROVE  RowInv'
<1>1. open \in [Checkpoint -> [Issue -> Nat]]  BY DEF RowInv
<1>2. Violating({}) = {}  BY DEF Violating
<1>3. r \notin {Absent, Gone} /\ r \in Row \cup {Absent, Gone}  BY AbsentIsNoRow
<1>4. \A i \in Issue : open[c][i] =
          IF r \notin {Absent, Gone} /\ i \in Violating(r.result.violations) THEN 1 ELSE 0
  BY <1>2, <1>3 DEF RowInv, EventsMatchRow
<1>5. PICK e \in [Issue -> Nat] : e = open[c]  BY <1>1
<1>6. open' = [open EXCEPT ![c] = e]  BY <1>1, <1>5
<1>7. \A i \in Issue : e[i] =
          IF r \notin {Absent, Gone} /\ i \in Violating(r.result.violations) THEN 1 ELSE 0
  BY <1>4, <1>5
<1>8. \A f \in [Issue -> Nat] :
        /\ open' = [open EXCEPT ![c] = f]
        /\ \A i \in Issue : f[i] =
             IF r \notin {Absent, Gone} /\ i \in Violating(r.result.violations) THEN 1 ELSE 0
        => RowInv'
  BY <1>3, FreeRowChanged, ZenonT(60)
<1>. QED  BY <1>6, <1>7, <1>8
-----------------------------------------------------------------------------
(* The requests of ReleaseRequests.                                         *)

\* What a step has to show; most steps leave the log and the rows alone.
Kept == PlainTypes' /\ LogInv' /\ RowInv'

LEMMA QuietStep ==
  ASSUME IInv, NEW p \in Proc, NEW l \in Scratch, l.pc # "reconcile", Become(p, l),
         PlainTypes', UNCHANGED <<status, audit, cps>>
  PROVE  Kept
<1>1. LogInv'  BY Parts, LogUnchanged
<1>2. RowInv'  BY Parts, RowsUnchanged
<1>. QED  BY <1>1, <1>2 DEF Kept

LEMMA OpenRequestKeeps ==
  ASSUME IInv, NEW p \in Proc, OpenRequest(p)
  PROVE  Kept
<1>1. PlainTypes' /\ UNCHANGED <<status, audit, cps>>
  <2>1. PlainTypes  BY Parts
  <2>2. ops' \in 0..MaxOps
    BY <2>1, AcceptType DEF PlainTypes, OpenRequest, OpenTransition, OpenIssue, OpenItems, OpenReplan
  <2>. QED
    BY <2>1, <2>2 DEF PlainTypes, OpenRequest, OpenTransition, OpenIssue, OpenItems, OpenReplan, rel
<1>2. \E l \in Scratch : l.pc # "reconcile" /\ Become(p, l)
  <2>1. CASE OpenTransition(p)
    <3>1. PICK e \in REdge :
            Become(p, [pc |-> IF e \in Guarded THEN "condition" ELSE "move", edge |-> e])
      BY <2>1 DEF OpenTransition
    <3>. QED  BY <3>1 DEF Scratch, RequestScratch
  <2>2. CASE OpenIssue(p)
    <3>1. PICK i \in Issue, e \in IEdge : Become(p, [pc |-> "moveIssue", i |-> i, to |-> e[2]])
      BY <2>2 DEF OpenIssue
    <3>2. e[2] \in IStatus  BY StoreAssumption
    <3>. QED  BY <3>1, <3>2 DEF Scratch, RequestScratch
  <2>3. CASE OpenItems(p)
    <3>1. PICK pc \in {"addItem", "removeItem"}, i \in Issue : Become(p, [pc |-> pc, i |-> i])
      BY <2>3 DEF OpenItems
    <3>. QED  BY <3>1 DEF Scratch, RequestScratch
  <2>4. CASE OpenReplan(p)
    <3>1. PICK d \in Day : Become(p, [pc |-> "replan", day |-> d, changed |-> d # planned])
      BY <2>4 DEF OpenReplan
    <3>2. (d # planned) \in BOOLEAN  OBVIOUS
    <3>. QED  BY <3>1, <3>2 DEF Scratch, RequestScratch
  <2>. QED  BY <2>1, <2>2, <2>3, <2>4 DEF OpenRequest
<1>. QED  BY <1>1, <1>2, QuietStep

LEMMA MoveKeeps ==
  ASSUME IInv, NEW p \in Proc, Move(p)
  PROVE  Kept
<1>. DEFINE e == proc[p].edge
<1>1. PlainTypes /\ LogInv /\ RowInv  BY Parts
<1>2. proc[p] \in Scratch /\ proc[p].pc = "move"  BY <1>1 DEF RowInv, Move
<1>3. e \in REdge  BY <1>2, ScratchOf
<1>4. PlainTypes'  BY <1>1 DEF PlainTypes, Move
<1>5. RowInv'
  <2>1. Become(p, Idle) /\ UNCHANGED cps  BY DEF Move
  <2>. QED  BY <1>1, <2>1, IdleType, RowsUnchanged
<1>6. LogInv'
  <2>1. CASE UNCHANGED <<status, audit>>  BY <2>1, <1>1, LogUnchanged
  <2>2. CASE e[1] = status /\ status' = e[2] /\ audit' = Append(audit, e)
    <3>1. audit \in Seq(REdge) /\ AuditChains  BY <1>1 DEF LogInv
    <3>2. status' \in RStatus  BY <2>2, <1>3, StoreAssumption
    <3>3. audit' \in Seq(REdge) /\ Len(audit') = Len(audit) + 1 /\ Len(audit) \in Nat
      BY <2>2, <1>3, <3>1
    <3>4. /\ \A k \in 1..Len(audit) : audit'[k] = audit[k]
          /\ audit'[Len(audit) + 1] = e
      BY <2>2, <1>3, <3>1
    <3>5. AuditChains'
      <4>1. status' = IF audit' = <<>> THEN NewRelease ELSE audit'[Len(audit')][2]
        BY <2>2, <3>3, <3>4
      <4>2. ASSUME NEW k \in DOMAIN audit'
            PROVE  audit'[k][1] = IF k = 1 THEN NewRelease ELSE audit'[k - 1][2]
        <5>1. k \in 1..(Len(audit) + 1)  BY <3>3
        <5>2. CASE k \in 1..Len(audit)
          <6>1. k \in DOMAIN audit  BY <5>2, <3>1
          <6>2. audit[k][1] = IF k = 1 THEN NewRelease ELSE audit[k - 1][2]
            BY <3>1, <6>1 DEF AuditChains
          <6>3. k # 1 => k - 1 \in 1..Len(audit)  BY <5>2, <3>3
          <6>. QED  BY <5>2, <6>2, <6>3, <3>4
        <5>3. CASE k = Len(audit) + 1
          <6>1. audit'[k][1] = status  BY <5>3, <3>4, <2>2
          <6>2. status = IF audit = <<>> THEN NewRelease ELSE audit[Len(audit)][2]
            BY <3>1 DEF AuditChains
          <6>3. CASE audit = <<>>
            <7>1. k = 1  BY <6>3, <5>3
            <7>. QED  BY <7>1, <6>1, <6>2, <6>3
          <6>4. CASE audit # <<>>
            <7>1. Len(audit) \in 1..Len(audit) /\ k # 1 /\ k - 1 = Len(audit)
              BY <6>4, <3>1, <3>3, <5>3
            <7>. QED  BY <7>1, <6>1, <6>2, <6>4, <3>4
          <6>. QED  BY <6>3, <6>4
        <5>. QED  BY <5>1, <5>2, <5>3, <3>3
      <4>. QED  BY <4>1, <4>2 DEF AuditChains
    <3>. QED  BY <3>2, <3>3, <3>5 DEF LogInv
  <2>. QED  BY <2>1, <2>2 DEF Move, Unmoved
<1>. QED  BY <1>4, <1>5, <1>6 DEF Kept

LEMMA RedateKeeps ==
  ASSUME IInv, NEW p \in Proc, Redate(p)
  PROVE  Kept
<1>1. PlainTypes /\ LogInv /\ RowInv  BY Parts
<1>2. proc[p] \in Scratch /\ proc[p].pc = "redate"  BY <1>1 DEF RowInv, Redate
<1>3. proc[p].day \in Day /\ proc[p].todo \in SUBSET Checkpoint /\ proc[p].ok \in BOOLEAN
  BY <1>2, ScratchOf
<1>4. PlainTypes' /\ LogInv'
  BY <1>1, LogUnchanged DEF PlainTypes, Redate, rel
<1>5. PICK c \in proc[p].todo :
        /\ ~RowLocked(c)
        /\ row' = IF c \in Applied THEN [row EXCEPT ![c].deadline = proc[p].day] ELSE row
        /\ Become(p, IF proc[p].todo \ {c} # {}
                     THEN [pc |-> "redate", day |-> proc[p].day, todo |-> proc[p].todo \ {c},
                           ok |-> (proc[p].ok /\ c \in Applied)]
                     ELSE IF proc[p].ok /\ c \in Applied THEN [pc |-> "load"] ELSE Idle)
  BY DEF Redate
<1>6. PICK l \in Scratch : l.pc # "reconcile" /\ Become(p, l)
  <2>1. (proc[p].ok /\ c \in Applied) \in BOOLEAN  BY <1>3
  <2>2. [pc |-> "redate", day |-> proc[p].day, todo |-> proc[p].todo \ {c},
         ok |-> (proc[p].ok /\ c \in Applied)] \in Scratch
    BY <1>3, <2>1 DEF Scratch, RequestScratch
  <2>3. [pc |-> "load"] \in Scratch  BY DEF Scratch, CheckpointScratch
  <2>. QED  BY <1>5, <2>2, <2>3, IdleType
<1>7. UNCHANGED open  BY DEF Redate
<1>8. RowInv'
  <2>1. CASE c \in Applied
    <3>1. row \in RowTable /\ row[c] \in Row  BY <1>1, <2>1, RowOf DEF RowInv, Applied
    <3>2. PICK r \in Row : r = [row[c] EXCEPT !.deadline = proc[p].day]
      <4>. [row[c] EXCEPT !.deadline = proc[p].day] \in Row  BY <3>1, <1>3 DEF Row
      <4>. QED  OBVIOUS
    <3>3. row' = [row EXCEPT ![c] = r]  BY <1>5, <2>1, <3>2
    <3>4. r.result.violations = row[c].result.violations  BY <3>1, <3>2 DEF Row
    <3>. QED  BY <1>1, <1>3, <1>5, <1>6, <1>7, <2>1, <3>3, <3>4, FreeRowEdited
  <2>2. CASE c \notin Applied
    <3>. UNCHANGED cps  BY <1>5, <1>7, <2>2 DEF cps
    <3>. QED  BY <1>1, <1>6, RowsUnchanged
  <2>. QED  BY <2>1, <2>2
<1>. QED  BY <1>4, <1>8 DEF Kept

LEMMA RequestStepKeeps ==
  ASSUME IInv, NEW p \in Proc, RequestStep(p)
  PROVE  Kept
<1>1. PlainTypes /\ LogInv /\ RowInv  BY Parts
<1>2. proc[p] \in Scratch  BY <1>1 DEF RowInv
<1>. DEFINE Load0 == [pc |-> "load"]
<1>3. Load0 \in Scratch /\ Load0.pc = "load"  BY DEF Scratch, CheckpointScratch
<1>4. CASE CheckItems(p)
  <2>1. proc[p].edge \in REdge  BY <1>2, <1>4, ScratchOf DEF CheckItems
  <2>2. [pc |-> "move", edge |-> proc[p].edge] \in Scratch
    BY <2>1 DEF Scratch, RequestScratch
  <2>3. \E l \in Scratch : l.pc # "reconcile" /\ Become(p, l)
    BY <1>4, <2>2, IdleType DEF CheckItems
  <2>4. PlainTypes' /\ UNCHANGED <<status, audit, cps>>
    BY <1>1, <1>4 DEF CheckItems, PlainTypes, rel
  <2>. QED  BY <2>3, <2>4, QuietStep
<1>5. CASE Move(p)  BY <1>5, MoveKeeps
<1>6. CASE MoveIssue(p)
  <2>1. proc[p].i \in Issue /\ proc[p].to \in IStatus
    BY <1>2, <1>6, ScratchOf DEF MoveIssue
  <2>2. [pc |-> "resolve", i |-> proc[p].i] \in Scratch
    BY <2>1 DEF Scratch, RequestScratch
  <2>3. \E l \in Scratch : l.pc # "reconcile" /\ Become(p, l)
    BY <1>6, <2>2 DEF MoveIssue
  <2>4. PlainTypes' /\ UNCHANGED <<status, audit, cps>>
    BY <1>1, <1>6, <2>1 DEF MoveIssue, PlainTypes
  <2>. QED  BY <2>3, <2>4, QuietStep
<1>7. CASE Resolve(p)
  <2>1. \E l \in Scratch : l.pc # "reconcile" /\ Become(p, l)
    BY <1>7, <1>3, IdleType DEF Resolve
  <2>2. PlainTypes' /\ UNCHANGED <<status, audit, cps>>
    BY <1>1, <1>7 DEF Resolve, PlainTypes, rel
  <2>. QED  BY <2>1, <2>2, QuietStep
<1>8. CASE WriteItems(p)
  <2>1. proc[p].i \in Issue  BY <1>2, <1>8, ScratchOf DEF WriteItems
  <2>2. PlainTypes' /\ UNCHANGED <<status, audit, cps>>
    BY <1>1, <1>8, <2>1 DEF WriteItems, PlainTypes
  <2>3. Become(p, Load0)  BY <1>8 DEF WriteItems
  <2>. QED  BY <1>3, <2>2, <2>3, QuietStep
<1>9. CASE Replan(p)
  <2>1. proc[p].day \in Day  BY <1>2, <1>9, ScratchOf DEF Replan
  <2>2. [pc |-> "readDeadlines", day |-> proc[p].day] \in Scratch
    BY <2>1 DEF Scratch, RequestScratch
  <2>3. \E l \in Scratch : l.pc # "reconcile" /\ Become(p, l)
    BY <1>9, <2>2, IdleType DEF Replan
  <2>4. PlainTypes' /\ UNCHANGED <<status, audit, cps>>
    BY <1>1, <1>9, <2>1 DEF Replan, PlainTypes
  <2>. QED  BY <2>3, <2>4, QuietStep
<1>10. CASE ReadDeadlines(p)
  <2>1. proc[p].day \in Day  BY <1>2, <1>10, ScratchOf DEF ReadDeadlines
  <2>2. [pc |-> "redate", day |-> proc[p].day, todo |-> Applied, ok |-> TRUE] \in Scratch
    BY <2>1 DEF Scratch, RequestScratch, Applied, In
  <2>3. \E l \in Scratch : l.pc # "reconcile" /\ Become(p, l)
    BY <1>10, <1>3, <2>2 DEF ReadDeadlines
  <2>4. PlainTypes' /\ UNCHANGED <<status, audit, cps>>
    BY <1>1, <1>10 DEF ReadDeadlines, PlainTypes, rel
  <2>. QED  BY <2>3, <2>4, QuietStep
<1>11. CASE Redate(p)  BY <1>11, RedateKeeps
<1>. QED  BY <1>4, <1>5, <1>6, <1>7, <1>8, <1>9, <1>10, <1>11 DEF RequestStep
-----------------------------------------------------------------------------
(* The requests of ReleaseCheckpoints.                                      *)

LEMMA OpenCheckpointRequestKeeps ==
  ASSUME IInv, NEW p \in Proc, OpenCheckpointRequest(p)
  PROVE  Kept
<1>0. PlainTypes  BY Parts
<1>1. PlainTypes' /\ UNCHANGED <<status, audit, cps>>
  <2>1. ops' \in 0..MaxOps
    BY <1>0, AcceptType DEF PlainTypes, OpenCheckpointRequest, OpenApply, OpenRemove, OpenSync
  <2>. QED
    BY <1>0, <2>1 DEF PlainTypes, OpenCheckpointRequest, OpenApply, OpenRemove, OpenSync, rel
<1>2. \E l \in Scratch : l.pc # "reconcile" /\ Become(p, l)
  <2>1. CASE OpenApply(p)
    <3>1. PICK S \in SUBSET CType :
            Become(p, [pc |-> "upsert", day |-> planned, todo |-> S])
      BY <2>1 DEF OpenApply
    <3>2. [pc |-> "upsert", day |-> planned, todo |-> S] \in Scratch
      BY <1>0 DEF PlainTypes, Scratch, CheckpointScratch
    <3>. QED  BY <3>1, <3>2
  <2>2. CASE OpenRemove(p)
    <3>1. PICK c \in Checkpoint : Become(p, [pc |-> "delete", cp |-> c])
      BY <2>2 DEF OpenRemove, Applied, In
    <3>2. [pc |-> "delete", cp |-> c] \in Scratch  BY DEF Scratch, CheckpointScratch
    <3>. QED  BY <3>1, <3>2
  <2>3. CASE OpenSync(p)
    <3>1. PICK c \in Checkpoint : Become(p, [pc |-> "sync", cp |-> c, day |-> planned])
      BY <2>3 DEF OpenSync, Applied, In
    <3>2. [pc |-> "sync", cp |-> c, day |-> planned] \in Scratch
      BY <1>0 DEF PlainTypes, Scratch, CheckpointScratch
    <3>. QED  BY <3>1, <3>2
  <2>. QED  BY <2>1, <2>2, <2>3 DEF OpenCheckpointRequest
<1>. QED  BY <1>1, <1>2, QuietStep

LEMMA UpsertKeeps ==
  ASSUME IInv, NEW p \in Proc, Upsert(p)
  PROVE  Kept
<1>1. PlainTypes /\ LogInv /\ RowInv  BY Parts
<1>2. proc[p] \in Scratch /\ proc[p].pc = "upsert"  BY <1>1 DEF RowInv, Upsert
<1>3. proc[p].day \in Day /\ proc[p].todo \in SUBSET CType  BY <1>2, ScratchOf
<1>4. PlainTypes' /\ LogInv'  BY <1>1, LogUnchanged DEF PlainTypes, Upsert, rel
<1>. DEFINE Put(t, mode, c) ==
        /\ ~RowLocked(c)
        /\ row' = [row EXCEPT ![c] = IF c \in Applied THEN [@ EXCEPT !.deadline = proc[p].day]
                                     ELSE NewRow(mode, proc[p].day)]
        /\ Become(p, IF proc[p].todo \ {t} = {} THEN [pc |-> "load"]
                     ELSE [pc |-> "upsert", day |-> proc[p].day, todo |-> proc[p].todo \ {t}])
<1>5. PICK t \in proc[p].todo, mode \in Mode : \E c \in RowFor(t) : Put(t, mode, c)
  BY DEF Upsert
<1>6. PICK c \in RowFor(t) : Put(t, mode, c)  BY <1>5
<1>7. PICK l \in Scratch : l.pc # "reconcile" /\ Become(p, l)
  <2>1. [pc |-> "upsert", day |-> proc[p].day, todo |-> proc[p].todo \ {t}] \in Scratch
    BY <1>3 DEF Scratch, CheckpointScratch
  <2>2. [pc |-> "load"] \in Scratch  BY DEF Scratch, CheckpointScratch
  <2>. QED  BY <1>6, <2>1, <2>2
<1>8. UNCHANGED open  BY DEF Upsert
<1>9. row \in RowTable /\ c \in Checkpoint  BY <1>1, <1>6 DEF RowInv, RowFor, Applied, In
<1>10. PICK r \in Row :
        /\ row' = [row EXCEPT ![c] = r]
        /\ \/ c \notin Applied /\ r.result.violations = {}
           \/ c \in Applied /\ r.result.violations = row[c].result.violations
  <2>1. CASE c \in Applied
    <3>1. row[c] \in Row  BY <1>9, <2>1, RowOf DEF Applied
    <3>2. [row[c] EXCEPT !.deadline = proc[p].day] \in Row  BY <3>1, <1>3 DEF Row
    <3>3. [row[c] EXCEPT !.deadline = proc[p].day].result = row[c].result  BY <3>1 DEF Row
    <3>. QED  BY <1>6, <2>1, <3>2, <3>3
  <2>2. CASE c \notin Applied
    <3>1. NewRow(mode, proc[p].day) \in Row  BY <1>3, NewRowType
    <3>2. NewRow(mode, proc[p].day).result.violations = {}  BY DEF NewRow
    <3>. QED  BY <1>6, <2>2, <3>1, <3>2
  <2>. QED  BY <2>1, <2>2
<1>11. RowInv'  BY <1>1, <1>6, <1>7, <1>8, <1>9, <1>10, FreeRowEdited
<1>. QED  BY <1>4, <1>11 DEF Kept

LEMMA DeleteKeeps ==
  ASSUME IInv, NEW p \in Proc, Delete(p)
  PROVE  Kept
<1>. DEFINE c == proc[p].cp
            e == [i \in Issue |-> 0]
<1>1. PlainTypes /\ LogInv /\ RowInv  BY Parts
<1>2. proc[p] \in Scratch /\ proc[p].pc = "delete"  BY <1>1 DEF RowInv, Delete
<1>3. c \in Checkpoint  BY <1>2, ScratchOf
<1>4. PlainTypes' /\ LogInv'  BY <1>1, LogUnchanged DEF PlainTypes, Delete, rel
<1>5. /\ ~RowLocked(c) /\ Become(p, Idle)
      /\ row' = [row EXCEPT ![c] = Gone] /\ open' = [open EXCEPT ![c] = e]
  BY DEF Delete
<1>6. e \in [Issue -> Nat] /\ \A i \in Issue : e[i] = 0  OBVIOUS
<1>7. RowInv'
  <2>. DEFINE r == Gone
  <2>1. r \in Row \cup {Absent, Gone}  OBVIOUS
  <2>2. \A i \in Issue : e[i] = IF r \notin {Absent, Gone} /\ i \in Violating(r.result.violations) THEN 1 ELSE 0
    BY <1>6
  <2>3. row' = [row EXCEPT ![c] = r]  BY <1>5
  <2>. HIDE DEF r, e, c
  <2>. QED  BY <1>1, <1>3, <1>5, <1>6, <2>1, <2>2, <2>3, IdleType, FreeRowChanged
<1>. QED  BY <1>4, <1>7 DEF Kept

LEMMA SyncKeeps ==
  ASSUME IInv, NEW p \in Proc, Sync(p)
  PROVE  Kept
<1>. DEFINE c == proc[p].cp
<1>1. PlainTypes /\ LogInv /\ RowInv  BY Parts
<1>2. proc[p] \in Scratch /\ proc[p].pc = "sync"  BY <1>1 DEF RowInv, Sync
<1>3. c \in Checkpoint /\ proc[p].day \in Day  BY <1>2, ScratchOf
<1>4. PlainTypes' /\ LogInv'  BY <1>1, LogUnchanged DEF PlainTypes, Sync, rel
<1>5. UNCHANGED open /\ ~RowLocked(c)  BY DEF Sync
<1>6. [pc |-> "rowsFirst"] \in Scratch  BY DEF Scratch, CheckpointScratch
<1>7. CASE c \in Applied
  <2>1. PICK mode \in Mode : row' = [row EXCEPT ![c].mode = mode, ![c].deadline = proc[p].day]
    BY <1>7 DEF Sync
  <2>2. row \in RowTable /\ row[c] \in Row  BY <1>1, <1>7, RowOf DEF RowInv, Applied
  <2>3. PICK r \in Row : /\ r = [row[c] EXCEPT !.mode = mode, !.deadline = proc[p].day]
                         /\ r.result = row[c].result
    <3>1. [row[c] EXCEPT !.mode = mode, !.deadline = proc[p].day] \in Row
      BY <1>3, <2>2 DEF Row
    <3>2. [row[c] EXCEPT !.mode = mode, !.deadline = proc[p].day].result = row[c].result
      BY <2>2 DEF Row
    <3>. QED  BY <3>1, <3>2
  <2>4. row' = [row EXCEPT ![c] = r]  BY <2>1, <2>2, <2>3 DEF RowTable
  <2>5. Become(p, [pc |-> "rowsFirst"])  BY <1>7 DEF Sync
  <2>6. RowInv'  BY <1>1, <1>3, <1>5, <1>6, <1>7, <2>3, <2>4, <2>5, FreeRowEdited
  <2>. QED  BY <1>4, <2>6 DEF Kept
<1>8. CASE c \notin Applied
  <2>1. Become(p, Idle) /\ UNCHANGED cps  BY <1>5, <1>8 DEF Sync, cps
  <2>2. RowInv'  BY <1>1, <2>1, IdleType, RowsUnchanged
  <2>. QED  BY <1>4, <2>2 DEF Kept
<1>. QED  BY <1>7, <1>8
-----------------------------------------------------------------------------
(* The recompute and the scheduler.                                         *)

LEMMA FinishType ==
  ASSUME lock \in Proc \cup {NoProc, Dead}, NEW p \in Proc, Finish(p)
  PROVE  /\ lock' \in Proc \cup {NoProc, Dead}
         /\ \E l \in Scratch : l.pc # "reconcile" /\ Become(p, l)
BY IdleType DEF Finish

LEMMA ContinueType ==
  ASSUME lock \in Proc \cup {NoProc, Dead}, NEW p \in Proc,
         NEW s \in Scan, Continue(p, s)
  PROVE  /\ lock' \in Proc \cup {NoProc, Dead}
         /\ \E l \in Scratch : l.pc # "reconcile" /\ Become(p, l)
<1>1. [pc |-> "evaluate", scan |-> s] \in Scratch  BY DEF Scratch, CheckpointScratch
<1>. QED  BY <1>1, FinishType DEF Continue

LEMMA JudgeType ==
  ASSUME lock \in Proc \cup {NoProc, Dead}, NEW p \in Proc, proc[p].scan \in Scan,
         NEW c \in Checkpoint, NEW result \in Result, Judge(p, c, result)
  PROVE  /\ lock' \in Proc \cup {NoProc, Dead}
         /\ \E l \in Scratch : l.pc # "reconcile" /\ Become(p, l)
<1>. DEFINE s == WithoutRow(proc[p].scan, c)
<1>1. s \in Scan  BY ScanEdit
<1>2. [pc |-> "write", scan |-> s, cp |-> c, result |-> result] \in Scratch
  BY <1>1 DEF Scratch, CheckpointScratch
<1>. HIDE DEF s
<1>3. \/ Continue(p, s)
      \/ Become(p, [pc |-> "write", scan |-> s, cp |-> c, result |-> result]) /\ UNCHANGED lock
  BY DEF Judge, s
<1>. QED  BY <1>1, <1>2, <1>3, ContinueType

\* The steps of a recompute that write nothing.
LEMMA ReadingKeeps ==
  ASSUME IInv, NEW p \in Proc,
         \/ Load(p) \/ ReadRows(p) \/ ReadRowsFirst(p) \/ LoadLast(p)
         \/ EvaluateRow(p) \/ TtqlFails(p) \/ SelectRelease(p)
  PROVE  Kept
<1>1. PlainTypes /\ LogInv /\ RowInv  BY Parts
<1>2. proc[p] \in Scratch  BY <1>1 DEF RowInv
<1>3. LoadedNow \in Loaded  BY <1>1, LoadedNowType DEF PlainTypes
<1>4. row \in RowTable /\ today \in Day  BY <1>1 DEF PlainTypes, RowInv
<1>5. lock \in Proc \cup {NoProc, Dead}  BY <1>1 DEF PlainTypes
<1>6. UNCHANGED <<status, audit, cps, planned, items, issue, today, ops>>
  BY DEF Load, ReadRows, ReadRowsFirst, LoadLast, EvaluateRow, TtqlFails, SelectRelease, rel
<1>7. faults' \in 0..MaxFaults
  <2>1. CASE TtqlFails(p)
    <3>1. faults < MaxFaults /\ faults' = faults + 1  BY <2>1 DEF TtqlFails
    <3>. QED  BY <3>1, <1>1, StoreAssumption DEF PlainTypes
  <2>2. CASE ~TtqlFails(p)
    <3>1. faults' = faults
      BY <2>2 DEF Load, ReadRows, ReadRowsFirst, LoadLast, EvaluateRow, SelectRelease
    <3>. QED  BY <3>1, <1>1 DEF PlainTypes
  <2>. QED  BY <2>1, <2>2
<1>8. lock' \in Proc \cup {NoProc, Dead} /\ \E l \in Scratch : l.pc # "reconcile" /\ Become(p, l)
  <2>1. CASE Load(p)
    <3>1. [pc |-> "rows", st |-> LoadedNow] \in Scratch
      BY <1>3 DEF Scratch, CheckpointScratch
    <3>. QED  BY <2>1, <3>1, <1>5 DEF Load
  <2>2. CASE ReadRows(p)
    <3>1. proc[p].st \in Loaded  BY <1>2, <2>2, ScratchOf DEF ReadRows
    <3>2. NewScan(proc[p].st, row) \in Scan  BY <3>1, <1>4 DEF NewScan, Scan
    <3>3. [pc |-> "evaluate", scan |-> NewScan(proc[p].st, row)] \in Scratch
      BY <3>2 DEF Scratch, CheckpointScratch
    <3>. QED  BY <2>2, <3>3, <1>5, FinishType DEF ReadRows
  <2>3. CASE ReadRowsFirst(p)
    <3>1. [pc |-> "loadLast", rows |-> row] \in Scratch
      BY <1>4 DEF Scratch, CheckpointScratch
    <3>. QED  BY <2>3, <3>1, <1>5, FinishType DEF ReadRowsFirst
  <2>4. CASE LoadLast(p)
    <3>1. proc[p].rows \in RowTable  BY <1>2, <2>4, ScratchOf DEF LoadLast
    <3>2. NewScan(LoadedNow, proc[p].rows) \in Scan  BY <3>1, <1>3, <1>4 DEF NewScan, Scan
    <3>3. [pc |-> "evaluate", scan |-> NewScan(LoadedNow, proc[p].rows)] \in Scratch
      BY <3>2 DEF Scratch, CheckpointScratch
    <3>. QED  BY <2>4, <3>3, <1>5 DEF LoadLast
  <2>5. CASE EvaluateRow(p)
    <3>1. proc[p].scan \in Scan  BY <1>2, <2>5, ScratchOf DEF EvaluateRow
    <3>2. PICK c \in In(proc[p].scan.rows) : Judge(p, c, Outcome(proc[p].scan, c))
      BY <2>5 DEF EvaluateRow
    <3>3. proc[p].scan.st \in Loaded /\ c \in Checkpoint  BY <3>1 DEF Scan, In
    <3>4. Outcome(proc[p].scan, c) \in Result  BY <3>3, EvaluateType DEF Outcome
    <3>. QED  BY <3>1, <3>2, <3>3, <3>4, <1>5, JudgeType
  <2>6. CASE TtqlFails(p)
    <3>1. proc[p].scan \in Scan  BY <1>2, <2>6, ScratchOf DEF TtqlFails
    <3>2. PICK c \in Checkpoint : Judge(p, c, ErrorResult)  BY <2>6 DEF TtqlFails, In
    <3>. QED  BY <3>1, <3>2, <1>5, ErrorType, JudgeType
  <2>7. CASE SelectRelease(p)
    <3>1. [pc |-> "load"] \in Scratch  BY DEF Scratch, CheckpointScratch
    <3>. QED  BY <2>7, <3>1, <1>5, FinishType DEF SelectRelease
  <2>. QED  BY <2>1, <2>2, <2>3, <2>4, <2>5, <2>6, <2>7
<1>9. PlainTypes'  BY <1>1, <1>6, <1>7, <1>8 DEF PlainTypes
<1>. QED  BY <1>6, <1>8, <1>9, QuietStep

\* A transaction begins: the events it finds are those of the row it now holds.
LEMMA UpdateRowKeeps ==
  ASSUME IInv, NEW p \in Proc, UpdateRow(p)
  PROVE  Kept
<1>. DEFINE c == proc[p].cp
            seen == [i \in Issue |-> open[c][i] > 0]
            l == [pc |-> "reconcile", scan |-> proc[p].scan, cp |-> c,
                  result |-> proc[p].result, seen |-> seen]
<1>1. PlainTypes /\ LogInv /\ RowInv  BY Parts
<1>2. proc[p] \in Scratch /\ proc[p].pc = "write"  BY <1>1 DEF RowInv, UpdateRow
<1>3. c \in Checkpoint /\ proc[p].scan \in Scan /\ proc[p].result \in Result
  BY <1>2, ScratchOf
<1>4. UNCHANGED <<status, audit, cps, planned, items, issue, today, ops, faults>>
  BY DEF UpdateRow, rel
<1>5. CASE c \notin Applied
  <2>1. Finish(p)  BY <1>5 DEF UpdateRow
  <2>2. lock' \in Proc \cup {NoProc, Dead} /\ \E k \in Scratch : k.pc # "reconcile" /\ Become(p, k)
    BY <2>1, <1>1, FinishType DEF PlainTypes
  <2>3. PlainTypes'  BY <1>1, <1>4, <2>2 DEF PlainTypes
  <2>. QED  BY <1>4, <2>2, <2>3, QuietStep
<1>6. CASE c \in Applied
  <2>1. Become(p, l) /\ UNCHANGED lock /\ ~RowLocked(c)  BY <1>6 DEF UpdateRow
  <2>2. PlainTypes' /\ LogInv'  BY <1>1, <1>4, <2>1, LogUnchanged DEF PlainTypes
  <2>3. row' = row /\ open' = open  BY <1>4 DEF cps
  <2>4. seen \in [Issue -> BOOLEAN]  OBVIOUS
  <2>5. l \in Scratch  BY <1>3, <2>4 DEF Scratch, CheckpointScratch
  <2>6. l.pc = "reconcile" /\ l.cp = c /\ l.seen = seen  OBVIOUS
  <2>7. \A i \in Issue : (seen[i] <=> open[c][i] > 0)  OBVIOUS
  <2>. HIDE DEF l, seen
  <2>8. proc' \in [Proc -> Scratch] /\ proc'[p] = l /\ \A q \in Proc \ {p} : proc'[q] = proc[q]
    BY <1>1, <2>1, <2>5 DEF RowInv, Become
  <2>9. EventsMatchRow'  BY <1>1, <2>3 DEF RowInv, EventsMatchRow, Applied, In
  <2>10. \A q \in Proc \ {p} : proc[q].pc = "reconcile" => proc[q].cp # c
    BY <2>1 DEF RowLocked
  <2>11. RowCustody'
    <3>. SUFFICES ASSUME NEW q \in Proc, proc'[q].pc = "reconcile"
                  PROVE  /\ proc'[q].cp \in Applied'
                         /\ \A i \in Issue : proc'[q].seen[i] <=> open'[proc'[q].cp][i] > 0
                         /\ \A t \in Proc : proc'[t].pc = "reconcile" /\ proc'[t].cp = proc'[q].cp
                                               => t = q
      BY DEF RowCustody
    <3>1. Applied' = Applied  BY <2>3 DEF Applied, In
    <3>2. CASE q = p
      BY <3>2, <3>1, <1>6, <2>3, <2>6, <2>7, <2>8, <2>10
    <3>3. CASE q # p
      <4>1. proc'[q] = proc[q] /\ proc[q].cp # c  BY <3>3, <2>8, <2>10
      <4>2. /\ proc[q].cp \in Applied
            /\ \A i \in Issue : proc[q].seen[i] <=> open[proc[q].cp][i] > 0
            /\ \A t \in Proc : proc[t].pc = "reconcile" /\ proc[t].cp = proc[q].cp => t = q
        BY <4>1, <1>1 DEF RowInv, RowCustody
      <4>3. \A t \in Proc : proc'[t].pc = "reconcile" /\ proc'[t].cp = proc[q].cp => t = q
        BY <4>1, <4>2, <2>6, <2>8
      <4>. QED  BY <4>1, <4>2, <4>3, <3>1, <2>3
    <3>. QED  BY <3>2, <3>3
  <2>. QED  BY <1>1, <2>2, <2>3, <2>8, <2>9, <2>11 DEF Kept, RowInv
<1>. QED  BY <1>5, <1>6

\* It commits: the row and its events change together.  Nobody else holds them.
LEMMA CommitKeeps ==
  ASSUME IInv, NEW p \in Proc, Commit(p)
  PROVE  Kept
<1>. DEFINE c == proc[p].cp
            result == proc[p].result
            V == result.violations
            e == Reconciled(open[c], proc[p].seen, V)
<1>1. PlainTypes /\ LogInv /\ RowInv  BY Parts
<1>2. proc[p] \in Scratch /\ proc[p].pc = "reconcile"  BY <1>1 DEF RowInv, Commit
<1>3. c \in Checkpoint /\ proc[p].scan \in Scan /\ result \in Result
  BY <1>2, ScratchOf
<1>4. UNCHANGED <<status, audit, planned, items, issue, today, ops, faults>>
  BY DEF Commit, rel
<1>5. Continue(p, proc[p].scan)  BY DEF Commit
<1>6. lock' \in Proc \cup {NoProc, Dead} /\ \E l \in Scratch : l.pc # "reconcile" /\ Become(p, l)
  BY <1>1, <1>3, <1>5, ContinueType DEF PlainTypes
<1>7. PlainTypes' /\ LogInv'  BY <1>1, <1>4, <1>6, LogUnchanged DEF PlainTypes
<1>8. /\ c \in Applied
      /\ \A i \in Issue : proc[p].seen[i] <=> open[c][i] > 0
      /\ \A q \in Proc : proc[q].pc = "reconcile" /\ proc[q].cp = c => q = p
  BY <1>1, <1>2 DEF RowInv, RowCustody
<1>9. /\ row \in RowTable /\ open \in [Checkpoint -> [Issue -> Nat]] /\ row[c] \in Row
      /\ proc \in [Proc -> Scratch]
  BY <1>1, <1>8, RowOf DEF RowInv, Applied
<1>10. PICK r \in Row : row' = [row EXCEPT ![c] = r] /\ r.result = result
  <2>1. [row[c] EXCEPT !.result = result, !.evaluated = TRUE] \in Row
    BY <1>3, <1>9 DEF Row
  <2>2. [row[c] EXCEPT !.result = result, !.evaluated = TRUE].result = result
    BY <1>9 DEF Row
  <2>3. row' = [row EXCEPT ![c] = [row[c] EXCEPT !.result = result, !.evaluated = TRUE]]
    BY <1>9 DEF Commit, RowTable
  <2>. QED  BY <2>1, <2>2, <2>3
<1>11. open' = [open EXCEPT ![c] = e]  BY DEF Commit
<1>12. \A i \in Issue : open[c][i] \in {0, 1}
  BY <1>1, <1>3 DEF RowInv, EventsMatchRow
<1>13. \A i \in Issue : e[i] = IF i \in Violating(V) THEN 1 ELSE 0
  <2>. SUFFICES ASSUME NEW i \in Issue PROVE e[i] = IF i \in Violating(V) THEN 1 ELSE 0
    OBVIOUS
  <2>1. proc[p].seen[i] <=> open[c][i] > 0  BY <1>8
  <2>2. e[i] = IF proc[p].seen[i] THEN IF i \in Violating(V) THEN open[c][i] ELSE 0
               ELSE IF i \in Violating(V) THEN open[c][i] + 1 ELSE open[c][i]
    BY DEF Reconciled
  <2>. HIDE DEF e, c, V
  <2>3. CASE open[c][i] = 0
    <3>1. ~proc[p].seen[i]  BY <2>1, <2>3
    <3>. QED  BY <3>1, <2>2, <2>3
  <2>4. CASE open[c][i] = 1
    <3>1. proc[p].seen[i]  BY <2>1, <2>4
    <3>. QED  BY <3>1, <2>2, <2>4
  <2>. QED  BY <2>3, <2>4, <1>12
<1>14. e \in [Issue -> Nat]
  <2>1. DOMAIN e = Issue /\ e = [i \in Issue |-> e[i]]  BY DEF Reconciled
  <2>. HIDE DEF e
  <2>. QED  BY <2>1, <1>13
<1>15. \A q \in Proc : proc'[q].pc = "reconcile" =>
          q # p /\ proc'[q] = proc[q] /\ proc[q].cp \in Checkpoint \ {c}
  <2>1. \A q \in Proc : proc'[q].pc = "reconcile" => q # p /\ proc'[q] = proc[q]
    BY <1>6, <1>9 DEF Become
  <2>. QED  BY <2>1, <1>8, <1>9, ScratchOf
<1>. HIDE DEF c, e, V, result
<1>16. row' \in RowTable /\ open' \in [Checkpoint -> [Issue -> Nat]] /\ proc' \in [Proc -> Scratch]
  BY <1>3, <1>6, <1>9, <1>10, <1>11, <1>14, PutRow DEF Become
<1>17. /\ row'[c] = r /\ open'[c] = e
       /\ \A d \in Checkpoint \ {c} : row'[d] = row[d] /\ open'[d] = open[d]
  BY <1>3, <1>9, <1>10, <1>11 DEF RowTable
<1>18. EventsMatchRow'
  <2>. SUFFICES ASSUME NEW d \in Checkpoint, NEW i \in Issue
                PROVE  open'[d][i] = IF row'[d] \notin {Absent, Gone} /\ i \in Violating(row'[d].result.violations)
                                     THEN 1 ELSE 0
    BY DEF EventsMatchRow, Applied, In
  <2>1. CASE d = c
    <3>1. r \notin {Absent, Gone} /\ r.result.violations = V  BY <1>10, AbsentIsNoRow DEF V
    <3>. QED  BY <2>1, <3>1, <1>13, <1>17
  <2>2. CASE d # c  BY <2>2, <1>1, <1>17 DEF RowInv, EventsMatchRow, Applied, In
  <2>. QED  BY <2>1, <2>2
<1>19. RowCustody'
  <2>. SUFFICES ASSUME NEW q \in Proc, proc'[q].pc = "reconcile"
                PROVE  /\ proc'[q].cp \in Applied'
                       /\ \A i \in Issue : proc'[q].seen[i] <=> open'[proc'[q].cp][i] > 0
                       /\ \A t \in Proc : proc'[t].pc = "reconcile" /\ proc'[t].cp = proc'[q].cp
                                             => t = q
    BY DEF RowCustody
  <2>1. proc'[q] = proc[q] /\ proc[q].cp \in Checkpoint \ {c}  BY <1>15
  <2>2. row'[proc[q].cp] = row[proc[q].cp] /\ open'[proc[q].cp] = open[proc[q].cp]
    BY <2>1, <1>17
  <2>3. /\ proc[q].cp \in Applied
        /\ \A i \in Issue : proc[q].seen[i] <=> open[proc[q].cp][i] > 0
        /\ \A t \in Proc : proc[t].pc = "reconcile" /\ proc[t].cp = proc[q].cp => t = q
    BY <2>1, <1>1 DEF RowInv, RowCustody
  <2>4. proc'[q].cp \in Applied'  BY <2>1, <2>2, <2>3 DEF Applied, In
  <2>5. \A t \in Proc : proc'[t].pc = "reconcile" => proc'[t] = proc[t]  BY <1>15
  <2>. QED  BY <2>1, <2>2, <2>3, <2>4, <2>5
<1>. QED  BY <1>7, <1>16, <1>18, <1>19 DEF Kept, RowInv

-----------------------------------------------------------------------------
(* The theorems.                                                            *)

LEMMA InitInv == Init => IInv
<1>. SUFFICES ASSUME Init PROVE IInv  OBVIOUS
<1>1. PlainTypes
  BY StoreAssumption DEF Init, PlainTypes, Day
<1>2. LogInv  BY StoreAssumption DEF Init, LogInv, AuditChains
<1>3. proc \in [Proc -> Scratch] /\ \A p \in Proc : proc[p].pc = "idle"
  BY IdleType DEF Init
<1>4. row \in RowTable /\ open \in [Checkpoint -> [Issue -> Nat]] /\ Applied = {}
  BY DEF Init, RowTable, Applied, In
<1>5. EventsMatchRow  BY <1>4 DEF Init, EventsMatchRow
<1>6. RowCustody  BY <1>3 DEF RowCustody
<1>. QED  BY <1>1, <1>2, <1>3, <1>4, <1>5, <1>6, Parts DEF RowInv

LEMMA NextInv == IInv /\ [Next]_vars => IInv'
<1>. SUFFICES ASSUME IInv, [Next]_vars PROVE Kept
  BY DEF Kept, IInv, TypeOK, PlainTypes, LogInv, RowInv
<1>0. PlainTypes /\ LogInv /\ RowInv  BY Parts
<1>1. CASE UNCHANGED vars
  <2>1. PlainTypes' /\ LogInv'  BY <1>1, <1>0, LogUnchanged DEF vars, rel, PlainTypes
  <2>2. RowInv'
    BY <1>1, <1>0 DEF vars, cps, RowInv, EventsMatchRow, RowCustody, Applied, In
  <2>. QED  BY <2>1, <2>2 DEF Kept
<1>2. ASSUME NEW p \in Proc, OpenRequest(p) PROVE Kept  BY <1>2, OpenRequestKeeps
<1>3. ASSUME NEW p \in Proc, OpenCheckpointRequest(p) PROVE Kept
  BY <1>3, OpenCheckpointRequestKeeps
<1>4. ASSUME NEW p \in Proc, RequestStep(p) PROVE Kept  BY <1>4, RequestStepKeeps
<1>5. ASSUME NEW p \in Proc, CheckpointStep(p) PROVE Kept
  BY <1>5, UpsertKeeps, DeleteKeeps, SyncKeeps, ReadingKeeps, UpdateRowKeeps, CommitKeeps
     DEF CheckpointStep
<1>6. ASSUME NEW p \in Proc, StartTick(p) PROVE Kept
  <2>1. [pc |-> "tick"] \in Scratch  BY DEF Scratch, CheckpointScratch
  <2>2. PlainTypes' /\ UNCHANGED <<status, audit, cps>>
    BY <1>0, <1>6 DEF StartTick, PlainTypes, rel
  <2>3. Become(p, [pc |-> "tick"])  BY <1>6 DEF StartTick
  <2>. QED  BY <2>1, <2>2, <2>3, QuietStep
<1>7. ASSUME NEW p \in Proc, Kill(p) PROVE Kept
  <2>1. PlainTypes' /\ UNCHANGED <<status, audit, cps>>
    BY <1>0, <1>7, StoreAssumption DEF Kill, PlainTypes, rel
  <2>2. Become(p, Idle)  BY <1>7 DEF Kill
  <2>. QED  BY <2>1, <2>2, IdleType, QuietStep
<1>8. CASE LockExpires \/ Tomorrow
  <2>1. UNCHANGED <<rel, cps, proc>>  BY <1>8 DEF LockExpires, Tomorrow
  <2>2. PlainTypes'
    BY <1>0, <1>8, StoreAssumption DEF LockExpires, Tomorrow, PlainTypes, rel, Day
  <2>3. LogInv'  BY <1>0, <2>1, LogUnchanged DEF rel
  <2>4. RowInv'
    BY <1>0, <2>1 DEF cps, RowInv, EventsMatchRow, RowCustody, Applied, In
  <2>. QED  BY <2>2, <2>3, <2>4 DEF Kept
<1>. QED
  BY <1>1, <1>2, <1>3, <1>4, <1>5, <1>6, <1>7, <1>8 DEF Next, Step

\* The inductive invariant: types, the chain of the audit log, the match of rows
\* and events, and the custody of rows by open transactions.
THEOREM ReleaseInvariant == Spec => []IInv
BY InitInv, NextInv, PTL DEF Spec

\* Types, for every number of handlers, requests, days and faults.
THEOREM ReleaseTypeCorrect == Spec => []TypeOK
<1>1. IInv => TypeOK  BY DEF IInv
<1>. QED  BY <1>1, ReleaseInvariant, PTL

\* However recomputes, removals and synchronisations overlap, and whoever dies in
\* the middle, a checkpoint has one open event per violating issue of its row.
THEOREM EventsFollowRows == Spec => []EventsMatchRow
<1>1. IInv => EventsMatchRow  BY DEF IInv
<1>. QED  BY <1>1, ReleaseInvariant, PTL

\* The audit log is a chain of transitions that ends at the release's status,
\* however many managers transition at once.
THEOREM AuditIsComplete == Spec => []AuditChains
<1>1. IInv => AuditChains  BY DEF IInv
<1>. QED  BY <1>1, ReleaseInvariant, PTL
=============================================================================
