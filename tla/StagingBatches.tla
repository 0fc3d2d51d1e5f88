--------------------------- MODULE StagingBatches ---------------------------
(***************************************************************************)
(* Staging batches of pipeline-service: batches of pull requests that are  *)
(* deployed to staging and to production by GitHub workflows               *)
(* (modules/batches/batches.router.ts), the routes and the polling that    *)
(* bring pull requests and workflow runs in from GitHub                    *)
(* (modules/github/github.router.ts, modules/sync/sync.service.ts).        *)
(*                                                                         *)
(* A handler reads the batch, checks its state and writes by id later: each *)
(* access to the database is an action.  GitHub is external.               *)
(***************************************************************************)
EXTENDS Naturals, FiniteSets

CONSTANTS
    Request,       \* handlers that may run at once
    PullRequest,
    MaxBatches,    \* bound: rows of staging_batches
    MaxDeploys,    \* bound: rows of deploy_events
    RunIdsFit      \* the run ids of GitHub fit the INTEGER column workflow_run_id

Batch == 1..MaxBatches      \* in the order of createdAt
Deploy == 1..MaxDeploys     \* in the order of startedAt
None == 0

State == {"COLLECTING", "MERGING", "DEPLOYING", "TESTING", "PASSED", "FAILED", "RELEASED"}
Target == {"STAGING", "PRODUCTION"}
EventStatus == {"ABSENT", "PENDING", "RUNNING", "SUCCESS", "FAILURE"}

VALID_TRANSITIONS ==
    [COLLECTING |-> {"DEPLOYING", "FAILED"},
     MERGING    |-> {"DEPLOYING", "FAILED"},
     DEPLOYING  |-> {"TESTING", "FAILED"},
     TESTING    |-> {"PASSED", "FAILED"},
     PASSED     |-> {"RELEASED"},
     FAILED     |-> {"COLLECTING"},
     RELEASED   |-> {}]

\* A run of a workflow has the number of the event it was dispatched for.
RunStatus == {"none", "queued", "in_progress", "success", "failure", "cancelled"}

VARIABLES
    batch,     \* state of each row of staging_batches, or "ABSENT"
    passed,    \* history: the batch has been PASSED
    home,      \* staging_batch_id of each pull request, or None
    event,     \* rows of deploy_events that belong to a batch
    run,       \* the workflow runs at GitHub
    req,       \* what each handler holds between two accesses
    listed,    \* the runs as the poll in progress fetched them
    todo,      \* those it has still to write
    mirrored   \* runs with a row of their own, written by the poll

vars == <<batch, passed, home, event, run, req, listed, todo, mirrored>>
polling == <<listed, todo, mirrored>>

Blank == [pc |-> "idle", batch |-> None, to |-> "none", target |-> "STAGING",
          event |-> None, run |-> None, prs |-> {}]
NoEvent == [status |-> "ABSENT", target |-> "STAGING", batch |-> None, runId |-> None]

EventRow == [status : EventStatus, target : Target, batch : Batch \cup {None},
             runId : Deploy \cup {None}]

Pc == {"idle", "transition", "attach", "detach", "check", "insert", "dispatch",
       "revert", "cancel", "callback", "connect"}

\* Whoever is to write a state, or to give one back, has one.
Handler ==
    {h \in [pc : Pc, batch : Batch \cup {None}, to : State \cup {"none"}, target : Target,
            event : Deploy \cup {None}, run : Deploy \cup {None}, prs : SUBSET PullRequest] :
        h.pc \in {"transition", "check", "insert", "dispatch", "revert"} => h.to \in State}

TypeOK ==
    /\ batch \in [Batch -> State \cup {"ABSENT"}]
    /\ passed \in [Batch -> BOOLEAN]
    /\ home \in [PullRequest -> Batch \cup {None}]
    /\ event \in [Deploy -> EventRow]
    /\ run \in [Deploy -> RunStatus]
    /\ req \in [Request -> Handler]
    /\ listed \in [Deploy -> RunStatus]
    /\ todo \in SUBSET Deploy
    /\ mirrored \in SUBSET Deploy

Init ==
    /\ batch = [b \in Batch |-> "ABSENT"]
    /\ passed = [b \in Batch |-> FALSE]
    /\ home = [p \in PullRequest |-> None]
    /\ event = [e \in Deploy |-> NoEvent]
    /\ run = [w \in Deploy |-> "none"]
    /\ req = [r \in Request |-> Blank]
    /\ listed = [w \in Deploy |-> "none"]
    /\ todo = {}
    /\ mirrored = {}
-----------------------------------------------------------------------------
Become(r, h) == req' = [req EXCEPT ![r] = h]
Return(r) == Become(r, Blank)

Exists(b) == batch[b] # "ABSENT"

SetState(b, s) ==
    /\ batch' = [batch EXCEPT ![b] = s]
    /\ passed' = [passed EXCEPT ![b] = @ \/ s = "PASSED"]

\* The row an INSERT takes: the first that is free.
IsNew(b) == ~Exists(b) /\ \A c \in Batch : ~Exists(c) => b <= c
IsNewEvent(e) ==
    /\ event[e].status = "ABSENT"
    /\ \A f \in Deploy : event[f].status = "ABSENT" => e <= f

Running(b) == {e \in Deploy : event[e].batch = b /\ event[e].status = "RUNNING"}

\* deployEvents of a batch where RUNNING, startedAt desc, take 1.
IsLatestRunning(e, b) ==
    \/ e = None /\ Running(b) = {}
    \/ e \in Running(b) /\ \A f \in Running(b) : f <= e

\* connect takes a pull request from whatever batch it was in.
Connect(prs, b) == home' = [p \in PullRequest |-> IF p \in prs THEN b ELSE home[p]]
-----------------------------------------------------------------------------
(* Batches and their pull requests.                                         *)

\* POST /batches: one nested write.
CreateBatch(b, prs) ==
    /\ IsNew(b)
    /\ SetState(b, "COLLECTING")
    /\ Connect(prs, b)
    /\ UNCHANGED <<event, run, req, polling>>

\* POST /batches/:id/prs and DELETE /batches/:id/prs/:prId.
BeginMembers(r, b, prs) ==
    /\ req[r] = Blank
    /\ batch[b] \in {"COLLECTING", "MERGING"}
    /\ \E pc \in {"attach", "detach"} :
        Become(r, [Blank EXCEPT !.pc = pc, !.batch = b, !.prs = prs])
    /\ UNCHANGED <<batch, passed, home, event, run, polling>>

WriteMembers(r) ==
    /\ \/ req[r].pc = "attach" /\ Connect(req[r].prs, req[r].batch)
       \/ /\ req[r].pc = "detach"
          /\ home' = [p \in PullRequest |->
                        IF p \in req[r].prs /\ home[p] = req[r].batch THEN None ELSE home[p]]
    /\ Return(r)
    /\ UNCHANGED <<batch, passed, event, run, polling>>

\* POST /github/sync: merged pull requests without a batch go to the newest
\* COLLECTING one, which is made when there is none (getOrCreateCollectingBatchId).
CollectMerged(r, b, prs) ==
    /\ req[r] = Blank
    /\ \/ /\ batch[b] = "COLLECTING"
          /\ \A c \in Batch : batch[c] = "COLLECTING" => c <= b
          /\ UNCHANGED <<batch, passed>>
       \/ /\ \A c \in Batch : batch[c] # "COLLECTING"
          /\ IsNew(b)
          /\ SetState(b, "COLLECTING")
    /\ Become(r, [Blank EXCEPT !.pc = "connect", !.batch = b, !.prs = prs])
    /\ UNCHANGED <<home, event, run, polling>>

\* The loop over the pull requests: each is upserted and connected by itself.
ConnectNext(r) ==
    /\ req[r].pc = "connect"
    /\ \/ req[r].prs = {} /\ Return(r) /\ UNCHANGED home
       \/ \E p \in req[r].prs :
            /\ Connect({q \in {p} : home[q] = None}, req[r].batch)
            /\ Become(r, [req[r] EXCEPT !.prs = @ \ {p}])
    /\ UNCHANGED <<batch, passed, event, run, polling>>

\* PATCH /batches/:id/state.
BeginTransition(r, b, to) ==
    /\ req[r] = Blank
    /\ Exists(b)
    /\ to \in VALID_TRANSITIONS[batch[b]]
    /\ Become(r, [Blank EXCEPT !.pc = "transition", !.batch = b, !.to = to])
    /\ UNCHANGED <<batch, passed, home, event, run, polling>>

WriteTransition(r) ==
    /\ req[r].pc = "transition"
    /\ SetState(req[r].batch, req[r].to)
    /\ Return(r)
    /\ UNCHANGED <<home, event, run, polling>>
-----------------------------------------------------------------------------
(* Deploys: POST /batches/:id/deploy-staging and /deploy-production.        *)

DeployableFrom == [STAGING |-> {"COLLECTING", "MERGING"}, PRODUCTION |-> {"PASSED"}]

\* The image tag comes with the request or from a merged pull request.
BeginDeploy(r, b, target) ==
    /\ req[r] = Blank
    /\ batch[b] \in DeployableFrom[target]
    /\ Become(r, [Blank EXCEPT !.pc = "check", !.batch = b, !.to = batch[b], !.target = target])
    /\ UNCHANGED <<batch, passed, home, event, run, polling>>

\* First statement of the transaction.  Nothing is locked by it.
CheckRunning(r) ==
    /\ req[r].pc = "check"
    /\ IF \E e \in Running(req[r].batch) : event[e].target = req[r].target
       THEN Return(r)
       ELSE Become(r, [req[r] EXCEPT !.pc = "insert"])
    /\ UNCHANGED <<batch, passed, home, event, run, polling>>

\* The two writes of the transaction and its commit.
InsertEvent(r, e) ==
    /\ req[r].pc = "insert"
    /\ IsNewEvent(e)
    /\ event' = [event EXCEPT ![e] = [NoEvent EXCEPT !.status = "RUNNING",
                                !.target = req[r].target, !.batch = req[r].batch]]
    /\ IF req[r].target = "STAGING" THEN SetState(req[r].batch, "DEPLOYING")
       ELSE UNCHANGED <<batch, passed>>
    /\ Become(r, [req[r] EXCEPT !.pc = "dispatch", !.event = e])
    /\ UNCHANGED <<home, run, polling>>

\* triggerWorkflowDispatch.  It may fail, or time out when GitHub has the call.
Dispatch(r) ==
    /\ req[r].pc = "dispatch"
    /\ \E arrives, fails \in BOOLEAN :
        /\ arrives \/ fails
        /\ run' = IF arrives THEN [run EXCEPT ![req[r].event] = "queued"] ELSE run
        /\ IF fails THEN Become(r, [req[r] EXCEPT !.pc = "revert"]) ELSE Return(r)
    /\ UNCHANGED <<batch, passed, home, event, polling>>

\* The operator may retry: a staging batch returns to the state it came from.
Revert(r) ==
    /\ req[r].pc = "revert"
    /\ event' = [event EXCEPT ![req[r].event].status = "FAILURE"]
    /\ IF req[r].target = "STAGING" THEN SetState(req[r].batch, req[r].to)
       ELSE UNCHANGED <<batch, passed>>
    /\ Return(r)
    /\ UNCHANGED <<home, run, polling>>

\* POST /batches/:id/cancel-deploy.  The workflow at GitHub runs on.
BeginCancel(r, b, e) ==
    /\ req[r] = Blank
    /\ batch[b] = "DEPLOYING"
    /\ IsLatestRunning(e, b)
    /\ Become(r, [Blank EXCEPT !.pc = "cancel", !.batch = b, !.event = e])
    /\ UNCHANGED <<batch, passed, home, event, run, polling>>

WriteCancel(r) ==
    /\ req[r].pc = "cancel"
    /\ event' = IF req[r].event = None THEN event
                ELSE [event EXCEPT ![req[r].event].status = "FAILURE"]
    /\ SetState(req[r].batch, "FAILED")
    /\ Return(r)
    /\ UNCHANGED <<home, run, polling>>
-----------------------------------------------------------------------------
(* GitHub and what it tells the service.                                    *)

\* The concurrency groups of the workflows: one run per target at a time.
StartRun(w) ==
    /\ run[w] = "queued"
    /\ \A v \in Deploy : event[v].target = event[w].target => run[v] # "in_progress"
    /\ run' = [run EXCEPT ![w] = "in_progress"]
    /\ UNCHANGED <<batch, passed, home, event, req, polling>>

\* A run ends and its callback is lost, or it is cancelled before its job starts.
EndRun(w) ==
    /\ \/ run[w] = "in_progress" /\ \E s \in {"success", "failure"} : run' = [run EXCEPT ![w] = s]
       \/ run[w] \in {"queued", "in_progress"} /\ run' = [run EXCEPT ![w] = "cancelled"]
    /\ UNCHANGED <<batch, passed, home, event, req, polling>>

\* The state a callback moves the batch to, by the target of the running event.
AfterDeploy(e, result) ==
    IF e = None THEN "none"
    ELSE IF event[e].target = "STAGING"
         THEN IF result = "success" THEN "TESTING" ELSE "FAILED"
         ELSE IF result = "success" THEN "RELEASED" ELSE "none"

\* POST /batches/:id/deploy-callback, the last step of a run: it names the batch,
\* and the handler takes the latest event that is running for it.
BeginCallback(r, w, e, result) ==
    LET b == event[w].batch IN
    /\ req[r] = Blank
    /\ run[w] = "in_progress"
    /\ run' = [run EXCEPT ![w] = result]
    /\ IsLatestRunning(e, b)
    /\ IF batch[b] = "FAILED" /\ e = None THEN Return(r)
       ELSE Become(r, [Blank EXCEPT !.pc = "callback", !.batch = b, !.event = e, !.run = w,
                              !.to = AfterDeploy(e, result), !.target = event[w].target])
    /\ UNCHANGED <<batch, passed, home, event, polling>>

\* A run id that does not fit its column is rejected, and the request with it.
WriteCallback(r) ==
    LET q == req[r] IN
    /\ q.pc = "callback"
    /\ \/ /\ ~RunIdsFit /\ q.event # None
          /\ UNCHANGED <<batch, passed, event>>
       \/ /\ RunIdsFit /\ q.event # None
          /\ event' = [event EXCEPT ![q.event].runId = q.run,
                                    ![q.event].status =
                         IF q.to \in {"TESTING", "RELEASED"} THEN "SUCCESS" ELSE "FAILURE"]
          /\ IF q.to = "none" THEN UNCHANGED <<batch, passed>> ELSE SetState(q.batch, q.to)
       \/ /\ q.event = None
          /\ \E e \in Deploy :
                /\ IsNewEvent(e)
                /\ event' = [event EXCEPT ![e] = [NoEvent EXCEPT !.status = "FAILURE",
                                            !.target = q.target, !.batch = q.batch]]
          /\ UNCHANGED <<batch, passed>>
    /\ Return(r)
    /\ UNCHANGED <<home, run, polling>>

\* The poll (syncDeployRuns): the runs are fetched, then written one by one.
FetchRuns ==
    /\ todo = {}
    /\ listed' = run
    /\ todo' = {w \in Deploy : run[w] # "none"}
    /\ UNCHANGED <<batch, passed, home, event, run, req, mirrored>>

StatusOf(s) ==
    CASE s = "in_progress" -> "RUNNING"
      [] s = "success" -> "SUCCESS"
      [] s = "failure" -> "FAILURE"
      [] OTHER -> "PENDING"

SyncRun(w) ==
    /\ w \in todo
    /\ IF RunIdsFit THEN todo' = todo \ {w} ELSE todo' = {}
    /\ \/ /\ RunIdsFit
          /\ \E e \in Deploy : /\ event[e].runId = w
                               /\ event' = [event EXCEPT ![e].status = StatusOf(listed[w])]
          /\ UNCHANGED mirrored
       \/ /\ RunIdsFit
          /\ w \in mirrored \/ \A e \in Deploy : event[e].runId # w
          /\ mirrored' = mirrored \cup {w}
          /\ UNCHANGED event
       \/ ~RunIdsFit /\ UNCHANGED <<event, mirrored>>
    /\ UNCHANGED <<batch, passed, home, run, req, listed>>

\* A handler dies: an open transaction is rolled back, what is committed stays.
Kill(r) ==
    /\ req[r] # Blank
    /\ Return(r)
    /\ UNCHANGED <<batch, passed, home, event, run, polling>>
-----------------------------------------------------------------------------
BatchRequest(r) ==
    \/ \E b \in Batch, prs \in SUBSET PullRequest : BeginMembers(r, b, prs) \/ CollectMerged(r, b, prs)
    \/ \E b \in Batch, to \in State : BeginTransition(r, b, to)
    \/ WriteMembers(r) \/ ConnectNext(r) \/ WriteTransition(r)

DeployRequest(r) ==
    \/ \E b \in Batch, target \in Target : BeginDeploy(r, b, target)
    \/ \E e \in Deploy : InsertEvent(r, e)
    \/ \E b \in Batch, e \in Deploy \cup {None} : BeginCancel(r, b, e)
    \/ CheckRunning(r) \/ Dispatch(r) \/ Revert(r) \/ WriteCancel(r)

Callback(r) ==
    \/ \E w \in Deploy, e \in Deploy \cup {None}, result \in {"success", "failure"} :
        BeginCallback(r, w, e, result)
    \/ WriteCallback(r)

GitHub == (\E w \in Deploy : StartRun(w) \/ EndRun(w) \/ SyncRun(w)) \/ FetchRuns

Next ==
    \/ \E b \in Batch, prs \in SUBSET PullRequest : CreateBatch(b, prs)
    \/ \E r \in Request : BatchRequest(r) \/ DeployRequest(r) \/ Callback(r) \/ Kill(r)
    \/ GitHub

Spec == Init /\ [][Next]_vars
-----------------------------------------------------------------------------
\* The transaction of a deploy is to close the window between the check for a
\* running deploy and the INSERT of another (batches.router.ts, deploy-staging and
\* deploy-production): a batch has at most one running deploy to a target.
OneRunningDeploy ==
    \A b \in Batch, t \in Target :
        Cardinality({e \in Running(b) : event[e].target = t}) <= 1

\* What the check does give: the running deploys of a batch to a target are never
\* more than the handlers that can have passed it together.
OneDeployPerHandler ==
    \A b \in Batch, t \in Target :
        Cardinality({e \in Running(b) : event[e].target = t}) <= Cardinality(Request)

\* A batch is RELEASED only if it has been PASSED once, though a callback sets the
\* state by the event it finds and not by the state the batch has, cancels and
\* reverts write over each other, and polls bring finished events back.
ReleasedWasPassed == \A b \in Batch : batch[b] = "RELEASED" => passed[b]
=============================================================================
