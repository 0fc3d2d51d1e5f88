------------------------------ MODULE Releases ------------------------------
(***************************************************************************)
(* One release with its requests, its checkpoints and their scheduler run  *)
(* together.                                                               *)
(***************************************************************************)
EXTENDS ReleaseRequests, ReleaseCheckpoints

Scratch == [pc : {"idle"}] \cup RequestScratch \cup CheckpointScratch

TypeOK ==
    /\ status \in RStatus
    /\ planned \in Day
    /\ audit \in Seq(REdge)
    /\ items \in SUBSET Issue
    /\ issue \in [Issue -> IStatus]
    /\ row \in RowTable
    /\ open \in [Checkpoint -> [Issue -> Nat]]
    /\ today \in Day
    /\ lock \in Proc \cup {NoProc, Dead}
    /\ proc \in [Proc -> Scratch]
    /\ ops \in 0..MaxOps
    /\ faults \in 0..MaxFaults

\* A release to which no checkpoint was applied yet: its items and their statuses
\* are what earlier requests left.
Init ==
    /\ status = NewRelease
    /\ planned \in Day
    /\ audit = <<>>
    /\ items \in SUBSET Issue
    /\ issue \in [Issue -> IStatus]
    /\ row = [c \in Checkpoint |-> Absent]
    /\ open = [c \in Checkpoint |-> [i \in Issue |-> 0]]
    /\ today = 0
    /\ lock = NoProc
    /\ proc = [p \in Proc |-> Idle]
    /\ ops = 0
    /\ faults = 0

\* Midnight passes.
Tomorrow ==
    /\ today < MaxDay
    /\ today' = today + 1
    /\ UNCHANGED <<rel, cps, lock, proc, ops, faults>>

\* The process dies between two awaits: an open transaction is rolled back, the
\* recompute is lost and the scheduler's key is left to expire.
Kill(p) ==
    /\ proc[p] # Idle
    /\ faults < MaxFaults
    /\ faults' = faults + 1
    /\ Become(p, Idle)
    /\ lock' = IF lock = p THEN Dead ELSE lock
    /\ UNCHANGED <<rel, cps, today, ops>>

Step(p) == RequestStep(p) \/ CheckpointStep(p)

Next ==
    \/ \E p \in Proc : \/ OpenRequest(p) \/ OpenCheckpointRequest(p)
                       \/ Step(p) \/ StartTick(p) \/ Kill(p)
    \/ LockExpires
    \/ Tomorrow

Spec == Init /\ [][Next]_vars

\* A handler that runs goes on, the cron job of some instance fires again, and
\* keys with a time to live expire.  Nobody has to send a request.
Fairness ==
    /\ \A p \in Proc : WF_vars(Step(p))
    /\ WF_vars(\E p \in Proc : StartTick(p))
    /\ WF_vars(LockExpires)

FairSpec == Spec /\ Fairness
-----------------------------------------------------------------------------
(* Safety.                                                                  *)

\* The open violation events of a checkpoint are exactly one for each issue its
\* row names as violating (reconcileViolationEvents), whatever recomputes,
\* removals and synchronisations overlap.
EventsMatchRow ==
    \A c \in Checkpoint, i \in Issue :
        open[c][i] = IF c \in Applied /\ i \in Violating(row[c].result.violations)
                     THEN 1 ELSE 0

\* The audit log tells the whole story of the release: each transition starts
\* where the one before it ended, the first at the initial status, and the last
\* one ends at the status the release has.  Two managers may transition at once.
AuditChains ==
    /\ \A k \in DOMAIN audit :
        audit[k][1] = IF k = 1 THEN NewRelease ELSE audit[k - 1][2]
    /\ status = IF audit = <<>> THEN NewRelease ELSE audit[Len(audit)][2]

-----------------------------------------------------------------------------
(* Liveness.                                                                *)

\* What an evaluation of the row would give now.
Fresh(c) ==
    Evaluate(row[c].mode, LoadedNow, {i \in items : issue[i] \in Match},
             row[c].deadline, today)

\* Once requests stop, every checkpoint of a release that the scheduler watches
\* (active, planned within CHECKPOINTS_EVAL_WINDOW_DAYS of today, no crowd) gets
\* the state and the violations that its issues, its deadline and the date call
\* for, and keeps them: a write from stale copies, a killed recompute, a failed
\* query or one aborted by a removal is made up for.  Outside the window nothing
\* makes up for it but another request (checkpoint-scheduler.service.ts:111-123).
RowsConverge ==
    <>[](Watched =>
            \A c \in Applied : /\ row[c].result.state = Fresh(c).state
                               /\ row[c].result.violations = Fresh(c).violations)

\* The same of what the matrix of issues and checkpoints is drawn from
\* (buildCheckpointsMatrix): the applicable and the passed issues.
MatrixConverges ==
    <>[](Watched =>
            \A c \in Applied : /\ row[c].result.applicable = Fresh(c).applicable
                               /\ row[c].result.passed = Fresh(c).passed)
=============================================================================
