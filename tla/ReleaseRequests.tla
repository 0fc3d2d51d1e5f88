--------------------------- MODULE ReleaseRequests ---------------------------
(***************************************************************************)
(* The requests that change the release, its items or its issues: release  *)
(* and issue transitions, adding and removing items, a new planned date.   *)
(* Every await is a step of its own, so other processes act in between.    *)
(* "load" begins the recompute that the request scheduled, after its       *)
(* response (checkpoint-triggers.service.ts).                              *)
(***************************************************************************)
EXTENDS ReleaseStore

RequestScratch ==
    [pc : {"condition", "move"}, edge : REdge]
      \cup [pc : {"moveIssue"}, i : Issue, to : IStatus]
      \cup [pc : {"resolve", "addItem", "removeItem"}, i : Issue]
      \cup [pc : {"replan"}, day : Day, changed : BOOLEAN]
      \cup [pc : {"readDeadlines"}, day : Day]
      \cup [pc : {"redate"}, day : Day, todo : SUBSET Checkpoint, ok : BOOLEAN]

-----------------------------------------------------------------------------
(* release-workflow-engine.service.ts: executeTransition.                   *)

\* The request reads the release and validates the transition.
OpenTransition(p) ==
    /\ Accept(p)
    /\ \E e \in REdge :
        /\ e[1] = status
        /\ Become(p, [pc |-> IF e \in Guarded THEN "condition" ELSE "move", edge |-> e])
    /\ UNCHANGED <<rel, cps, today, lock, faults>>

\* evaluateReleaseConditions counts the items that are not done.
CheckItems(p) ==
    /\ proc[p].pc = "condition"
    /\ Become(p, IF \A i \in items : issue[i] \in DoneIssue
                 THEN [pc |-> "move", edge |-> proc[p].edge] ELSE Idle)
    /\ UNCHANGED <<rel, cps, today, lock, ops, faults>>

\* The update is conditional on the status that was read.  Mutant: it is by id
\* alone, as that of an issue.
ById(e) == e \in REdge
Unmoved(e) == status = e[1]

\* One transaction updates the status and appends to the audit log.  When the
\* status has changed the update finds no row and nothing is written.
Move(p) ==
    /\ proc[p].pc = "move"
    /\ LET e == proc[p].edge IN
       IF Unmoved(e) THEN status' = e[2] /\ audit' = Append(audit, e)
                     ELSE UNCHANGED <<status, audit>>
    /\ Become(p, Idle)
    /\ UNCHANGED <<planned, items, issue, cps, today, lock, ops, faults>>

-----------------------------------------------------------------------------
(* workflow-engine.service.ts: executeTransition of an issue.               *)

OpenIssue(p) ==
    /\ Accept(p)
    /\ \E i \in Issue, e \in IEdge :
        /\ e[1] = issue[i]
        /\ Become(p, [pc |-> "moveIssue", i |-> i, to |-> e[2]])
    /\ UNCHANGED <<rel, cps, today, lock, faults>>

\* The update is by id alone.
MoveIssue(p) ==
    /\ proc[p].pc = "moveIssue"
    /\ issue' = [issue EXCEPT ![proc[p].i] = proc[p].to]
    /\ Become(p, [pc |-> "resolve", i |-> proc[p].i])
    /\ UNCHANGED <<status, planned, audit, items, cps, today, lock, ops, faults>>

\* The flush looks up the releases of the issue.
Resolve(p) ==
    /\ proc[p].pc = "resolve"
    /\ Become(p, IF proc[p].i \in items THEN [pc |-> "load"] ELSE Idle)
    /\ UNCHANGED <<rel, cps, today, lock, ops, faults>>

-----------------------------------------------------------------------------
(* releases.service.ts: addReleaseItems, removeReleaseItems, updateRelease. *)

OpenItems(p) ==
    /\ Accept(p)
    /\ status \notin Closed
    /\ \E pc \in {"addItem", "removeItem"}, i \in Issue : Become(p, [pc |-> pc, i |-> i])
    /\ UNCHANGED <<rel, cps, today, lock, faults>>

\* createMany with skipDuplicates, deleteMany.
WriteItems(p) ==
    /\ proc[p].pc \in {"addItem", "removeItem"}
    /\ items' = IF proc[p].pc = "addItem" THEN items \cup {proc[p].i}
                                          ELSE items \ {proc[p].i}
    /\ Become(p, [pc |-> "load"])
    /\ UNCHANGED <<status, planned, audit, issue, cps, today, lock, ops, faults>>

OpenReplan(p) ==
    /\ Accept(p)
    /\ status \notin Released
    /\ \E d \in Day : Become(p, [pc |-> "replan", day |-> d, changed |-> d # planned])
    /\ UNCHANGED <<rel, cps, today, lock, faults>>

Replan(p) ==
    /\ proc[p].pc = "replan"
    /\ planned' = proc[p].day
    /\ Become(p, IF proc[p].changed THEN [pc |-> "readDeadlines", day |-> proc[p].day]
                 ELSE Idle)
    /\ UNCHANGED <<status, audit, items, issue, cps, today, lock, ops, faults>>

\* The rows whose deadline has to follow; without any, the recompute is next.
ReadDeadlines(p) ==
    /\ proc[p].pc = "readDeadlines"
    /\ Become(p, IF Applied = {} THEN [pc |-> "load"]
                 ELSE [pc |-> "redate", day |-> proc[p].day, todo |-> Applied, ok |-> TRUE])
    /\ UNCHANGED <<rel, cps, today, lock, ops, faults>>

\* One of the concurrent updates.  When a row is gone by now the request fails
\* and schedules no recompute; the other updates are made all the same.
Redate(p) ==
    /\ proc[p].pc = "redate"
    /\ \E c \in proc[p].todo :
        LET rest == proc[p].todo \ {c}
            ok == proc[p].ok /\ c \in Applied IN
        /\ ~RowLocked(c)
        /\ row' = IF c \in Applied THEN [row EXCEPT ![c].deadline = proc[p].day] ELSE row
        /\ Become(p, IF rest # {}
                     THEN [pc |-> "redate", day |-> proc[p].day, todo |-> rest, ok |-> ok]
                     ELSE IF ok THEN [pc |-> "load"] ELSE Idle)
    /\ UNCHANGED <<rel, open, today, lock, ops, faults>>

-----------------------------------------------------------------------------

OpenRequest(p) ==
    OpenTransition(p) \/ OpenIssue(p) \/ OpenItems(p) \/ OpenReplan(p)

RequestStep(p) ==
    \/ CheckItems(p) \/ Move(p) \/ MoveIssue(p) \/ Resolve(p)
    \/ WriteItems(p) \/ Replan(p) \/ ReadDeadlines(p) \/ Redate(p)
=============================================================================
