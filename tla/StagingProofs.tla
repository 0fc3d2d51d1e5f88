---------------------------- MODULE StagingProofs ----------------------------
(***************************************************************************)
(* A staging batch is released only after it has been PASSED: for any      *)
(* number of handlers, batches, pull requests and deploys, whether run ids *)
(* fit their column or not.  And the race for a deploy is bounded: as long *)
(* as no run id can be stored, n handlers start at most n deploys at once. *)
(***************************************************************************)
EXTENDS StagingBatches, FiniteSetTheorems, TLAPS

\* What carries the permission to release, besides the state of the batch: a
\* handler that is about to write RELEASED or works for a production deploy, and
\* a production event in the table.  Each was made when the batch was PASSED, and
\* a batch that has been PASSED stays one that has been.
PassedFirst ==
    /\ \A b \in Batch : batch[b] \in {"PASSED", "RELEASED"} => passed[b]
    /\ \A r \in Request :
        req[r].batch \in Batch /\ (req[r].to = "RELEASED" \/ req[r].target = "PRODUCTION")
            => passed[req[r].batch]
    /\ \A e \in Deploy :
        event[e].batch \in Batch /\ event[e].target = "PRODUCTION" => passed[event[e].batch]

IInv == TypeOK /\ PassedFirst

-----------------------------------------------------------------------------
\* Batches are numbered from 1: None is none of them.
LEMMA NoneIsNoBatch == None \notin Batch /\ None \notin Deploy
  BY DEF None, Batch, Deploy

\* What setting the state of a batch does to the two functions it changes.
LEMMA StateSet ==
    ASSUME TypeOK, NEW b, NEW s \in State, SetState(b, s)
    PROVE  /\ batch' \in [Batch -> State \cup {"ABSENT"}]
           /\ passed' \in [Batch -> BOOLEAN]
           /\ \A c \in Batch : passed[c] => passed'[c]
           /\ \A c \in Batch : batch'[c] = batch[c] \/ (c = b /\ batch'[c] = s)
           /\ b \in Batch /\ s = "PASSED" => passed'[b]
  BY DEF TypeOK, SetState

\* What a handler holds after it stopped, or when it starts with a batch.
LEMMA BlankIsHandler == Blank \in Handler
  BY DEF Blank, Pc, Handler, Target

LEMMA ReqType ==
    ASSUME TypeOK, NEW r \in Request, NEW h \in Handler, Become(r, h)
    PROVE  req' \in [Request -> Handler]
  BY DEF TypeOK, Become

-----------------------------------------------------------------------------
(* Types.                                                                   *)

\* The requests that write pull requests and states.
LEMMA TypesOfBatches ==
    ASSUME TypeOK, NEW r \in Request, BatchRequest(r)
    PROVE  TypeOK'
<1>1. ASSUME NEW b \in Batch, NEW prs \in SUBSET PullRequest, BeginMembers(r, b, prs)
      PROVE  TypeOK'
  <2>1. PICK pc \in {"attach", "detach"} :
            Become(r, [Blank EXCEPT !.pc = pc, !.batch = b, !.prs = prs])
    BY <1>1 DEF BeginMembers
  <2>2. [Blank EXCEPT !.pc = pc, !.batch = b, !.prs = prs] \in Handler
    BY BlankIsHandler DEF Handler, Pc
  <2>. QED  BY <1>1, <2>1, <2>2, ReqType DEF BeginMembers, polling, TypeOK
<1>2. CASE WriteMembers(r)
  <2>1. req[r] \in Handler  BY DEF TypeOK
  <2>2. home' \in [PullRequest -> Batch \cup {None}]
    BY <1>2, <2>1 DEF WriteMembers, Connect, Handler, TypeOK
  <2>. QED  BY <1>2, <2>2, BlankIsHandler, ReqType DEF WriteMembers, Return, polling, TypeOK
<1>3. ASSUME NEW b \in Batch, NEW prs \in SUBSET PullRequest, CollectMerged(r, b, prs)
      PROVE  TypeOK'
  <2>. DEFINE h == [Blank EXCEPT !.pc = "connect", !.batch = b, !.prs = prs]
  <2>1. h \in Handler  BY BlankIsHandler DEF Handler, Pc
  <2>2. Become(r, h)  BY <1>3 DEF CollectMerged
  <2>3. req' \in [Request -> Handler]  BY <2>1, <2>2, ReqType
  <2>4. batch' \in [Batch -> State \cup {"ABSENT"}] /\ passed' \in [Batch -> BOOLEAN]
    BY <1>3, StateSet DEF CollectMerged, State, TypeOK
  <2>. QED  BY <1>3, <2>3, <2>4 DEF CollectMerged, polling, TypeOK
<1>4. ASSUME NEW b \in Batch, NEW to \in State, BeginTransition(r, b, to)
      PROVE  TypeOK'
  <2>1. [Blank EXCEPT !.pc = "transition", !.batch = b, !.to = to] \in Handler
    BY BlankIsHandler DEF Handler, Pc
  <2>. QED  BY <1>4, <2>1, ReqType DEF BeginTransition, polling, TypeOK
<1>5. CASE WriteTransition(r)
  <2>1. req[r] \in Handler  BY DEF TypeOK
  <2>2. batch' \in [Batch -> State \cup {"ABSENT"}] /\ passed' \in [Batch -> BOOLEAN]
    BY <1>5, <2>1 DEF WriteTransition, SetState, Handler, Pc, TypeOK
  <2>. QED
    BY <1>5, <2>2, BlankIsHandler, ReqType DEF WriteTransition, Return, polling, TypeOK
<1>6. CASE ConnectNext(r)
  <2>1. req[r] \in Handler  BY DEF TypeOK
  <2>2. home' \in [PullRequest -> Batch \cup {None}]
    BY <1>6, <2>1 DEF ConnectNext, Connect, Handler, TypeOK
  <2>3. \A p : [req[r] EXCEPT !.prs = @ \ {p}] \in Handler  BY <2>1 DEF Handler
  <2>4. req' \in [Request -> Handler]
    BY <1>6, <2>3, BlankIsHandler, ReqType DEF ConnectNext, Return
  <2>. QED  BY <1>6, <2>2, <2>4 DEF ConnectNext, polling, TypeOK
<1>. QED  BY <1>1, <1>2, <1>3, <1>4, <1>5, <1>6 DEF BatchRequest

LEMMA EventSet ==
    ASSUME TypeOK, NEW e, NEW s \in EventStatus, NEW t \in Deploy \cup {None}
    PROVE  /\ [event EXCEPT ![e].status = s] \in [Deploy -> EventRow]
           /\ [event EXCEPT ![e].runId = t, ![e].status = s] \in [Deploy -> EventRow]
  BY DEF EventRow, TypeOK

\* The requests that deploy and cancel.
LEMMA TypesOfDeploys ==
    ASSUME TypeOK, NEW r \in Request, DeployRequest(r) \/ Kill(r)
    PROVE  TypeOK'
<1>. req[r] \in Handler  BY DEF TypeOK
<1>1. ASSUME NEW b \in Batch, NEW target \in Target, BeginDeploy(r, b, target)
      PROVE  TypeOK'
  <2>. DEFINE h == [Blank EXCEPT !.pc = "check", !.batch = b, !.to = batch[b], !.target = target]
  <2>1. batch[b] \in State
    BY <1>1 DEF BeginDeploy, DeployableFrom, State, Target
  <2>2. h \in Handler  BY <2>1, BlankIsHandler DEF Handler, Pc
  <2>3. Become(r, h)  BY <1>1 DEF BeginDeploy
  <2>. HIDE DEF h
  <2>. QED  BY <1>1, <2>2, <2>3, ReqType DEF BeginDeploy, polling, TypeOK
<1>2. CASE CheckRunning(r)
  <2>1. [req[r] EXCEPT !.pc = "insert"] \in Handler  BY <1>2 DEF CheckRunning, Handler, Pc
  <2>. QED  BY <1>2, <2>1, BlankIsHandler, ReqType DEF CheckRunning, Return, polling, TypeOK
<1>3. ASSUME NEW e \in Deploy, InsertEvent(r, e)
      PROVE  TypeOK'
  <2>1. [req[r] EXCEPT !.pc = "dispatch", !.event = e] \in Handler
    BY <1>3 DEF InsertEvent, Handler, Pc
  <2>2. req' \in [Request -> Handler]  BY <1>3, <2>1, ReqType DEF InsertEvent
  <2>3. event' \in [Deploy -> EventRow]
    <3>. DEFINE row == [NoEvent EXCEPT !.status = "RUNNING", !.target = req[r].target,
                                       !.batch = req[r].batch]
    <3>1. event' = [event EXCEPT ![e] = row]  BY <1>3 DEF InsertEvent
    <3>2. row \in EventRow  BY DEF NoEvent, EventRow, EventStatus, Handler
    <3>. HIDE DEF row
    <3>. QED  BY <3>1, <3>2 DEF TypeOK
  <2>4. batch' \in [Batch -> State \cup {"ABSENT"}] /\ passed' \in [Batch -> BOOLEAN]
    BY <1>3, StateSet DEF InsertEvent, State, TypeOK
  <2>. QED  BY <1>3, <2>2, <2>3, <2>4 DEF InsertEvent, polling, TypeOK
<1>4. CASE Dispatch(r)
  <2>1. [req[r] EXCEPT !.pc = "revert"] \in Handler  BY <1>4 DEF Dispatch, Handler, Pc
  <2>2. req' \in [Request -> Handler]
    BY <1>4, <2>1, BlankIsHandler, ReqType DEF Dispatch, Return
  <2>3. run' \in [Deploy -> RunStatus]  BY <1>4 DEF Dispatch, RunStatus, TypeOK
  <2>. QED  BY <1>4, <2>2, <2>3 DEF Dispatch, polling, TypeOK
<1>5. CASE Revert(r)
  <2>1. req[r].to \in State  BY <1>5 DEF Revert, Handler
  <2>2. batch' \in [Batch -> State \cup {"ABSENT"}] /\ passed' \in [Batch -> BOOLEAN]
    BY <1>5, <2>1, StateSet DEF Revert, TypeOK
  <2>3. event' = [event EXCEPT ![req[r].event].status = "FAILURE"]  BY <1>5 DEF Revert
  <2>5. [event EXCEPT ![req[r].event].status = "FAILURE"] \in [Deploy -> EventRow]
    BY EventSet DEF EventStatus
  <2>4. req' \in [Request -> Handler]  BY <1>5, BlankIsHandler, ReqType DEF Revert, Return
  <2>. QED  BY <1>5, <2>2, <2>3, <2>4, <2>5 DEF Revert, polling, TypeOK
<1>6. ASSUME NEW b \in Batch, NEW f \in Deploy \cup {None}, BeginCancel(r, b, f)
      PROVE  TypeOK'
  <2>1. [Blank EXCEPT !.pc = "cancel", !.batch = b, !.event = f] \in Handler
    BY BlankIsHandler DEF Handler, Pc
  <2>. QED  BY <1>6, <2>1, ReqType DEF BeginCancel, polling, TypeOK
<1>7. CASE WriteCancel(r)
  <2>1. batch' \in [Batch -> State \cup {"ABSENT"}] /\ passed' \in [Batch -> BOOLEAN]
    BY <1>7, StateSet DEF WriteCancel, State, TypeOK
  <2>2. req' \in [Request -> Handler]  BY <1>7, BlankIsHandler, ReqType DEF WriteCancel, Return
  <2>3. event' \in [Deploy -> EventRow]
    <3>1. [event EXCEPT ![req[r].event].status = "FAILURE"] \in [Deploy -> EventRow]
      BY EventSet DEF EventStatus
    <3>. QED  BY <1>7, <3>1 DEF WriteCancel, TypeOK
  <2>. QED  BY <1>7, <2>1, <2>2, <2>3 DEF WriteCancel, polling, TypeOK
<1>8. CASE Kill(r)
  BY <1>8, BlankIsHandler, ReqType DEF Kill, Return, polling, TypeOK
<1>. QED  BY <1>1, <1>2, <1>3, <1>4, <1>5, <1>6, <1>7, <1>8 DEF DeployRequest

\* GitHub, callbacks and the poll.
LEMMA TypesOfRuns ==
    ASSUME TypeOK, (\E r \in Request : Callback(r)) \/ GitHub
    PROVE  TypeOK'
<1>. \A r \in Request : req[r] \in Handler  BY DEF TypeOK
<1>1. ASSUME NEW w \in Deploy, StartRun(w)
      PROVE  TypeOK'
  <2>1. run' \in [Deploy -> RunStatus]  BY <1>1 DEF StartRun, RunStatus, TypeOK
  <2>. QED  BY <1>1, <2>1 DEF StartRun, polling, TypeOK
<1>2. ASSUME NEW w \in Deploy, EndRun(w)
      PROVE  TypeOK'
  <2>1. run' \in [Deploy -> RunStatus]  BY <1>2 DEF EndRun, RunStatus, TypeOK
  <2>. QED  BY <1>2, <2>1 DEF EndRun, polling, TypeOK
<1>3. ASSUME NEW r \in Request, NEW w \in Deploy, NEW e \in Deploy \cup {None},
             NEW result \in {"success", "failure"}, BeginCallback(r, w, e, result)
      PROVE  TypeOK'
  <2>. DEFINE h == [Blank EXCEPT !.pc = "callback", !.batch = event[w].batch, !.event = e,
                          !.run = w, !.to = AfterDeploy(e, result), !.target = event[w].target]
  <2>1. AfterDeploy(e, result) \in State \cup {"none"}  BY DEF AfterDeploy, State
  <2>2. event[w].batch \in Batch \cup {None} /\ event[w].target \in Target
    BY DEF EventRow, TypeOK
  <2>3. h \in Handler  BY <2>1, <2>2, BlankIsHandler DEF Handler, Pc
  <2>4. Return(r) \/ Become(r, h)  BY <1>3 DEF BeginCallback
  <2>. HIDE DEF h
  <2>5. req' \in [Request -> Handler]  BY <2>3, <2>4, BlankIsHandler, ReqType DEF Return
  <2>6. run' \in [Deploy -> RunStatus]  BY <1>3 DEF BeginCallback, RunStatus, TypeOK
  <2>. QED  BY <1>3, <2>5, <2>6 DEF BeginCallback, polling, TypeOK
<1>4. ASSUME NEW r \in Request, WriteCallback(r)
      PROVE  TypeOK'
  <2>1. req' \in [Request -> Handler]  BY <1>4, BlankIsHandler, ReqType DEF WriteCallback, Return
  <2>2. UNCHANGED <<home, run, polling>>  BY <1>4 DEF WriteCallback
  <2>3. CASE UNCHANGED <<batch, passed, event>>
    BY <2>1, <2>2, <2>3 DEF polling, TypeOK
  <2>4. CASE RunIdsFit /\ req[r].event # None /\ ~UNCHANGED <<batch, passed, event>>
    <3>. DEFINE s == IF req[r].to \in {"TESTING", "RELEASED"} THEN "SUCCESS" ELSE "FAILURE"
    <3>1. event' = [event EXCEPT ![req[r].event].runId = req[r].run, ![req[r].event].status = s]
      BY <1>4, <2>4 DEF WriteCallback
    <3>2. s \in EventStatus /\ req[r].run \in Deploy \cup {None}  BY DEF EventStatus, Handler
    <3>3. \/ UNCHANGED <<batch, passed>>
          \/ req[r].to \in State /\ SetState(req[r].batch, req[r].to)
      BY <1>4, <2>4 DEF WriteCallback, Handler
    <3>. HIDE DEF s
    <3>4. batch' \in [Batch -> State \cup {"ABSENT"}] /\ passed' \in [Batch -> BOOLEAN]
      BY <3>3, StateSet DEF TypeOK
    <3>. QED  BY <2>1, <2>2, <3>1, <3>2, <3>4, EventSet DEF polling, TypeOK
  <2>5. CASE req[r].event = None
    <3>. DEFINE row == [NoEvent EXCEPT !.status = "FAILURE", !.target = req[r].target,
                                       !.batch = req[r].batch]
    <3>1. PICK f \in Deploy : event' = [event EXCEPT ![f] = row]  BY <1>4, <2>5 DEF WriteCallback
    <3>2. row \in EventRow  BY DEF NoEvent, EventRow, EventStatus, Handler
    <3>3. UNCHANGED <<batch, passed>>  BY <1>4, <2>5 DEF WriteCallback
    <3>. HIDE DEF row
    <3>. QED  BY <2>1, <2>2, <3>1, <3>2, <3>3 DEF polling, TypeOK
  <2>. QED  BY <1>4, <2>3, <2>4, <2>5 DEF WriteCallback
<1>5. CASE FetchRuns
  BY <1>5 DEF FetchRuns, TypeOK
<1>6. ASSUME NEW w \in Deploy, SyncRun(w)
      PROVE  TypeOK'
  <2>1. todo' \in SUBSET Deploy /\ mirrored' \in SUBSET Deploy  BY <1>6 DEF SyncRun, TypeOK
  <2>2. StatusOf(listed[w]) \in EventStatus  BY DEF StatusOf, EventStatus
  <2>3. event' = event \/ \E f \in Deploy : event' = [event EXCEPT ![f].status = StatusOf(listed[w])]
    BY <1>6 DEF SyncRun
  <2>4. event' \in [Deploy -> EventRow]
    <3>1. ASSUME NEW f \in Deploy
          PROVE  [event EXCEPT ![f].status = StatusOf(listed[w])] \in [Deploy -> EventRow]
      BY <2>2, EventSet
    <3>. QED  BY <2>3, <3>1 DEF TypeOK
  <2>. QED  BY <1>6, <2>1, <2>4 DEF SyncRun, TypeOK
<1>. QED  BY <1>1, <1>2, <1>3, <1>4, <1>5, <1>6 DEF Callback, GitHub

-----------------------------------------------------------------------------
(* A batch is PASSED first.                                                 *)

\* A step keeps the invariant if what it leaves as it was, it leaves, and what it
\* makes has its permission.
LEMMA Kept ==
    ASSUME PassedFirst,
           \A c \in Batch : passed[c] => passed'[c],
           \A c \in Batch : \/ batch'[c] = batch[c]
                            \/ batch'[c] \in {"PASSED", "RELEASED"} => passed'[c],
           \A q \in Request : \/ req'[q] = req[q]
                              \/ req'[q] = Blank
                              \/ /\ req'[q].batch \in Batch
                                 /\ req'[q].to = "RELEASED" \/ req'[q].target = "PRODUCTION"
                                 => passed'[req'[q].batch],
           \A f \in Deploy : \/ event'[f].batch = event[f].batch /\ event'[f].target = event[f].target
                             \/ event'[f].batch \in Batch /\ event'[f].target = "PRODUCTION"
                                    => passed'[event'[f].batch]
    PROVE  PassedFirst'
<1>1. \A c \in Batch : batch'[c] \in {"PASSED", "RELEASED"} => passed'[c]  BY DEF PassedFirst
<1>2. \A q \in Request :
        req'[q].batch \in Batch /\ (req'[q].to = "RELEASED" \/ req'[q].target = "PRODUCTION")
            => passed'[req'[q].batch]
  BY NoneIsNoBatch DEF PassedFirst, Blank
<1>3. \A f \in Deploy : event'[f].batch \in Batch /\ event'[f].target = "PRODUCTION"
                            => passed'[event'[f].batch]
  BY DEF PassedFirst
<1>. QED  BY <1>1, <1>2, <1>3 DEF PassedFirst

LEMMA OnlyReq ==
    ASSUME TypeOK, NEW r \in Request, NEW h, Become(r, h)
    PROVE  req'[r] = h /\ \A q \in Request : q # r => req'[q] = req[q]
  BY DEF Become, TypeOK

LEMMA PassedByBatches ==
    ASSUME IInv, NEW r \in Request, BatchRequest(r)
    PROVE  PassedFirst'
<1>. USE DEF IInv
<1>0. req[r] \in Handler  BY DEF TypeOK
<1>1. ASSUME NEW b \in Batch, NEW prs \in SUBSET PullRequest, BeginMembers(r, b, prs)
      PROVE  PassedFirst'
  <2>1. PICK pc \in {"attach", "detach"} :
            Become(r, [Blank EXCEPT !.pc = pc, !.batch = b, !.prs = prs])
    BY <1>1 DEF BeginMembers
  <2>2. req'[r].to = "none" /\ req'[r].target = "STAGING"
    <3>1. req'[r] = [Blank EXCEPT !.pc = pc, !.batch = b, !.prs = prs]  BY <2>1, OnlyReq
    <3>. QED  BY <3>1 DEF Blank
  <2>. QED  BY <1>1, <2>1, <2>2, OnlyReq, Kept DEF BeginMembers
<1>2. CASE WriteMembers(r)
  BY <1>2, OnlyReq, Kept DEF WriteMembers, Return
<1>3. ASSUME NEW b \in Batch, NEW prs \in SUBSET PullRequest, CollectMerged(r, b, prs)
      PROVE  PassedFirst'
  <2>1. Become(r, [Blank EXCEPT !.pc = "connect", !.batch = b, !.prs = prs])
    BY <1>3 DEF CollectMerged
  <2>2. req'[r].to = "none" /\ req'[r].target = "STAGING"
    <3>1. req'[r] = [Blank EXCEPT !.pc = "connect", !.batch = b, !.prs = prs]  BY <2>1, OnlyReq
    <3>. QED  BY <3>1 DEF Blank
  <2>3. UNCHANGED <<batch, passed>> \/ SetState(b, "COLLECTING")  BY <1>3 DEF CollectMerged
  <2>. QED  BY <1>3, <2>1, <2>2, <2>3, OnlyReq, StateSet, Kept DEF CollectMerged, State
<1>4. ASSUME NEW b \in Batch, NEW to \in State, BeginTransition(r, b, to)
      PROVE  PassedFirst'
  <2>1. Become(r, [Blank EXCEPT !.pc = "transition", !.batch = b, !.to = to])
    BY <1>4 DEF BeginTransition
  <2>2. req'[r].to = to /\ req'[r].target = "STAGING" /\ req'[r].batch = b
    <3>1. req'[r] = [Blank EXCEPT !.pc = "transition", !.batch = b, !.to = to]  BY <2>1, OnlyReq
    <3>. QED  BY <3>1 DEF Blank
  <2>3. to = "RELEASED" => batch[b] = "PASSED"
    <3>1. to \in VALID_TRANSITIONS[batch[b]] /\ Exists(b)  BY <1>4 DEF BeginTransition
    <3>. QED  BY <3>1 DEF VALID_TRANSITIONS, Exists, State, TypeOK
  <2>4. to = "RELEASED" => passed[b]  BY <2>3 DEF PassedFirst
  <2>. QED  BY <1>4, <2>1, <2>2, <2>4, OnlyReq, Kept DEF BeginTransition
<1>5. CASE WriteTransition(r)
  <2>1. SetState(req[r].batch, req[r].to) /\ req[r].to \in State
    BY <1>0, <1>5 DEF WriteTransition, Handler
  <2>2. \A c \in Batch : passed[c] => passed'[c]  BY <2>1, StateSet
  <2>3. \A c \in Batch : \/ batch'[c] = batch[c]
                         \/ batch'[c] \in {"PASSED", "RELEASED"} => passed'[c]
    <3>. SUFFICES ASSUME NEW c \in Batch, batch'[c] # batch[c], batch'[c] \in {"PASSED", "RELEASED"}
                  PROVE  passed'[c]
      OBVIOUS
    <3>1. c = req[r].batch /\ batch'[c] = req[r].to  BY <2>1, StateSet
    <3>2. CASE req[r].to = "PASSED"  BY <2>1, <3>1, <3>2, StateSet
    <3>3. CASE req[r].to = "RELEASED"  BY <2>2, <3>1, <3>3 DEF PassedFirst
    <3>. QED  BY <3>1, <3>2, <3>3
  <2>. QED  BY <1>5, <2>2, <2>3, OnlyReq, Kept DEF WriteTransition, Return
<1>6. CASE ConnectNext(r)
  <2>1. \/ req'[r] = Blank
        \/ \E p : req'[r] = [req[r] EXCEPT !.prs = @ \ {p}]
    BY <1>6, OnlyReq DEF ConnectNext, Return
  <2>2. \/ req'[r] = Blank
        \/ /\ req'[r].batch = req[r].batch /\ req'[r].to = req[r].to
           /\ req'[r].target = req[r].target
    BY <1>0, <2>1 DEF Handler
  <2>3. \A q \in Request : q # r => req'[q] = req[q]
    BY <1>6, OnlyReq DEF ConnectNext, Return
  <2>4. UNCHANGED <<batch, passed, event>>  BY <1>6 DEF ConnectNext
  <2>. QED  BY <2>2, <2>3, <2>4, Kept DEF PassedFirst
<1>. QED  BY <1>1, <1>2, <1>3, <1>4, <1>5, <1>6 DEF BatchRequest

LEMMA PassedByDeploys ==
    ASSUME IInv, NEW r \in Request, DeployRequest(r) \/ Kill(r)
    PROVE  PassedFirst'
<1>. USE DEF IInv
<1>0. req[r] \in Handler  BY DEF TypeOK
<1>1. ASSUME NEW b \in Batch, NEW target \in Target, BeginDeploy(r, b, target)
      PROVE  PassedFirst'
  <2>. DEFINE h == [Blank EXCEPT !.pc = "check", !.batch = b, !.to = batch[b], !.target = target]
  <2>1. Become(r, h) /\ UNCHANGED <<batch, passed, event>>  BY <1>1 DEF BeginDeploy
  <2>2. h.to = batch[b] /\ h.target = target /\ h.batch = b  BY DEF Blank
  <2>3. batch[b] \in DeployableFrom[target]  BY <1>1 DEF BeginDeploy
  <2>4. target = "PRODUCTION" => batch[b] = "PASSED"  BY <2>3 DEF DeployableFrom
  <2>. HIDE DEF h
  <2>5. h.to = "RELEASED" \/ h.target = "PRODUCTION" => passed[b]
    BY <2>2, <2>4 DEF PassedFirst
  <2>. QED  BY <2>1, <2>2, <2>5, OnlyReq, Kept
<1>2. CASE CheckRunning(r)
  <2>1. Return(r) \/ Become(r, [req[r] EXCEPT !.pc = "insert"])  BY <1>2 DEF CheckRunning
  <2>2. \/ req'[r] = Blank
        \/ /\ req'[r].batch = req[r].batch
           /\ req'[r].to = req[r].to
           /\ req'[r].target = req[r].target
    BY <1>0, <2>1, OnlyReq DEF Return, Handler
  <2>. QED  BY <1>2, <2>1, <2>2, OnlyReq, Kept DEF CheckRunning, Return, PassedFirst
<1>3. ASSUME NEW e \in Deploy, InsertEvent(r, e)
      PROVE  PassedFirst'
  <2>. DEFINE h == [req[r] EXCEPT !.pc = "dispatch", !.event = e]
              row == [NoEvent EXCEPT !.status = "RUNNING", !.target = req[r].target,
                                     !.batch = req[r].batch]
  <2>1. Become(r, h) /\ event' = [event EXCEPT ![e] = row]  BY <1>3 DEF InsertEvent
  <2>2. h.batch = req[r].batch /\ h.to = req[r].to /\ h.target = req[r].target
    BY <1>0 DEF Handler
  <2>3. row.batch = req[r].batch /\ row.target = req[r].target  BY DEF NoEvent
  <2>. HIDE DEF h, row
  <2>4. event'[e] = row /\ \A g \in Deploy : g # e => event'[g] = event[g]
    BY <2>1 DEF TypeOK
  <2>5. UNCHANGED <<batch, passed>> \/ SetState(req[r].batch, "DEPLOYING")
    BY <1>3 DEF InsertEvent
  <2>6. /\ \A c \in Batch : passed[c] => passed'[c]
        /\ \A c \in Batch : batch'[c] = batch[c] \/ batch'[c] = "DEPLOYING"
    BY <2>5, StateSet DEF State
  <2>7. req[r].batch \in Batch /\ (req[r].to = "RELEASED" \/ req[r].target = "PRODUCTION")
            => passed'[req[r].batch]
    BY <2>6 DEF PassedFirst
  <2>. QED  BY <2>1, <2>2, <2>3, <2>4, <2>6, <2>7, OnlyReq, Kept
<1>4. CASE Dispatch(r)
  <2>1. Return(r) \/ Become(r, [req[r] EXCEPT !.pc = "revert"])  BY <1>4 DEF Dispatch
  <2>2. \/ req'[r] = Blank
        \/ /\ req'[r].batch = req[r].batch
           /\ req'[r].to = req[r].to
           /\ req'[r].target = req[r].target
    BY <1>0, <2>1, OnlyReq DEF Return, Handler
  <2>. QED  BY <1>4, <2>1, <2>2, OnlyReq, Kept DEF Dispatch, Return, PassedFirst
<1>5. CASE Revert(r)
  <2>1. req[r].to \in State  BY <1>0, <1>5 DEF Revert, Handler
  <2>2. UNCHANGED <<batch, passed>> \/ SetState(req[r].batch, req[r].to)  BY <1>5 DEF Revert
  <2>3. \A c \in Batch : passed[c] => passed'[c]  BY <2>1, <2>2, StateSet
  <2>4. \A c \in Batch : \/ batch'[c] = batch[c]
                         \/ batch'[c] \in {"PASSED", "RELEASED"} => passed'[c]
    <3>. SUFFICES ASSUME NEW c \in Batch, batch'[c] # batch[c], batch'[c] \in {"PASSED", "RELEASED"}
                  PROVE  passed'[c]
      OBVIOUS
    <3>1. SetState(req[r].batch, req[r].to) /\ c = req[r].batch /\ batch'[c] = req[r].to
      BY <2>1, <2>2, StateSet
    <3>2. CASE req[r].to = "PASSED"  BY <2>1, <3>1, <3>2, StateSet
    <3>3. CASE req[r].to = "RELEASED"  BY <2>3, <3>1, <3>3 DEF PassedFirst
    <3>. QED  BY <3>1, <3>2, <3>3
  <2>5. \A g \in Deploy : event'[g].batch = event[g].batch /\ event'[g].target = event[g].target
    BY <1>5 DEF Revert, EventRow, TypeOK
  <2>. QED  BY <1>5, <2>3, <2>4, <2>5, OnlyReq, Kept DEF Revert, Return
<1>6. ASSUME NEW b \in Batch, NEW f \in Deploy \cup {None}, BeginCancel(r, b, f)
      PROVE  PassedFirst'
  <2>1. Become(r, [Blank EXCEPT !.pc = "cancel", !.batch = b, !.event = f])
    BY <1>6 DEF BeginCancel
  <2>2. req'[r].to = "none" /\ req'[r].target = "STAGING"
    <3>1. req'[r] = [Blank EXCEPT !.pc = "cancel", !.batch = b, !.event = f]  BY <2>1, OnlyReq
    <3>. QED  BY <3>1 DEF Blank
  <2>. QED  BY <1>6, <2>1, <2>2, OnlyReq, Kept DEF BeginCancel
<1>7. CASE WriteCancel(r)
  <2>1. SetState(req[r].batch, "FAILED")  BY <1>7 DEF WriteCancel
  <2>2. \A g \in Deploy : event'[g].batch = event[g].batch /\ event'[g].target = event[g].target
    BY <1>7 DEF WriteCancel, EventRow, TypeOK
  <2>3. /\ \A c \in Batch : passed[c] => passed'[c]
        /\ \A c \in Batch : batch'[c] = batch[c] \/ batch'[c] = "FAILED"
    BY <2>1, StateSet DEF State
  <2>. QED  BY <1>7, <2>2, <2>3, OnlyReq, Kept DEF WriteCancel, Return
<1>8. CASE Kill(r)
  BY <1>8, OnlyReq, Kept DEF Kill, Return
<1>. QED  BY <1>1, <1>2, <1>3, <1>4, <1>5, <1>6, <1>7, <1>8 DEF DeployRequest

LEMMA PassedByRuns ==
    ASSUME IInv, (\E r \in Request : Callback(r)) \/ GitHub
    PROVE  PassedFirst'
<1>. USE DEF IInv
<1>0. \A r \in Request : req[r] \in Handler  BY DEF TypeOK
<1>1. ASSUME NEW w \in Deploy, StartRun(w)
      PROVE  PassedFirst'
  BY <1>1, Kept DEF StartRun
<1>2. ASSUME NEW w \in Deploy, EndRun(w)
      PROVE  PassedFirst'
  BY <1>2, Kept DEF EndRun
<1>3. ASSUME NEW r \in Request, NEW w \in Deploy, NEW e \in Deploy \cup {None},
             NEW result \in {"success", "failure"}, BeginCallback(r, w, e, result)
      PROVE  PassedFirst'
  <2>. DEFINE h == [Blank EXCEPT !.pc = "callback", !.batch = event[w].batch, !.event = e,
                          !.run = w, !.to = AfterDeploy(e, result), !.target = event[w].target]
  <2>1. Return(r) \/ Become(r, h)  BY <1>3 DEF BeginCallback
  <2>2. UNCHANGED <<batch, passed, event>>  BY <1>3 DEF BeginCallback
  <2>3. /\ h.batch = event[w].batch
        /\ h.to = AfterDeploy(e, result)
        /\ h.target = event[w].target
    BY DEF Blank
  <2>4. ASSUME h.batch \in Batch, h.to = "RELEASED" \/ h.target = "PRODUCTION"
        PROVE  passed[h.batch]
    <3>1. CASE h.target = "PRODUCTION"  BY <2>3, <2>4, <3>1 DEF PassedFirst
    <3>2. CASE h.to = "RELEASED"
      <4>1. e # None /\ event[e].target # "STAGING"  BY <2>3, <3>2 DEF AfterDeploy
      <4>2. e \in Deploy /\ event[e].target = "PRODUCTION"
        BY <4>1 DEF EventRow, Target, TypeOK
      <4>3. event[e].batch = event[w].batch
        BY <1>3, <4>1 DEF BeginCallback, IsLatestRunning, Running
      <4>. QED  BY <2>3, <2>4, <4>2, <4>3 DEF PassedFirst
    <3>. QED  BY <2>4, <3>1, <3>2
  <2>. HIDE DEF h
  <2>. QED  BY <2>1, <2>2, <2>4, OnlyReq, Kept DEF Return
<1>4. ASSUME NEW r \in Request, WriteCallback(r)
      PROVE  PassedFirst'
  <2>1. Return(r)  BY <1>4 DEF WriteCallback
  <2>2. CASE UNCHANGED <<batch, passed, event>>
    BY <2>1, <2>2, OnlyReq, Kept DEF Return
  <2>3. CASE RunIdsFit /\ req[r].event # None /\ ~UNCHANGED <<batch, passed, event>>
    <3>. DEFINE s == IF req[r].to \in {"TESTING", "RELEASED"} THEN "SUCCESS" ELSE "FAILURE"
    <3>1. event' = [event EXCEPT ![req[r].event].runId = req[r].run, ![req[r].event].status = s]
      BY <1>4, <2>3 DEF WriteCallback
    <3>2. \A f \in Deploy : event'[f].batch = event[f].batch /\ event'[f].target = event[f].target
      BY <3>1 DEF EventRow, TypeOK
    <3>3. \/ UNCHANGED <<batch, passed>>
          \/ req[r].to \in State /\ SetState(req[r].batch, req[r].to)
      BY <1>0, <1>4, <2>3 DEF WriteCallback, Handler
    <3>4. \A c \in Batch : passed[c] => passed'[c]  BY <3>3, StateSet
    <3>5. \A c \in Batch : \/ batch'[c] = batch[c]
                           \/ batch'[c] \in {"PASSED", "RELEASED"} => passed'[c]
      <4>. SUFFICES ASSUME NEW c \in Batch, batch'[c] # batch[c],
                           batch'[c] \in {"PASSED", "RELEASED"}
                    PROVE  passed'[c]
        OBVIOUS
      <4>1. /\ req[r].to \in State
            /\ SetState(req[r].batch, req[r].to)
            /\ c = req[r].batch
            /\ batch'[c] = req[r].to
        BY <3>3, StateSet
      <4>2. CASE req[r].to = "PASSED"  BY <4>1, <4>2, StateSet
      <4>3. CASE req[r].to = "RELEASED"  BY <3>4, <4>1, <4>3 DEF PassedFirst
      <4>. QED  BY <4>1, <4>2, <4>3
    <3>. QED  BY <2>1, <3>2, <3>4, <3>5, OnlyReq, Kept DEF Return
  <2>4. CASE req[r].event = None
    <3>. DEFINE row == [NoEvent EXCEPT !.status = "FAILURE", !.target = req[r].target,
                                       !.batch = req[r].batch]
    <3>1. PICK f \in Deploy : event' = [event EXCEPT ![f] = row]  BY <1>4, <2>4 DEF WriteCallback
    <3>2. row.batch = req[r].batch /\ row.target = req[r].target  BY DEF NoEvent
    <3>. HIDE DEF row
    <3>3. event'[f] = row /\ \A g \in Deploy : g # f => event'[g] = event[g]
      BY <3>1 DEF TypeOK
    <3>4. UNCHANGED <<batch, passed>>  BY <1>4, <2>4 DEF WriteCallback
    <3>5. req[r].batch \in Batch /\ req[r].target = "PRODUCTION" => passed[req[r].batch]
      BY DEF PassedFirst
    <3>. QED  BY <2>1, <3>2, <3>3, <3>4, <3>5, OnlyReq, Kept DEF Return
  <2>. QED  BY <1>4, <2>2, <2>3, <2>4 DEF WriteCallback
<1>5. CASE FetchRuns
  BY <1>5, Kept DEF FetchRuns
<1>6. ASSUME NEW w \in Deploy, SyncRun(w)
      PROVE  PassedFirst'
  <2>1. event' = event \/ \E f \in Deploy : event' = [event EXCEPT ![f].status = StatusOf(listed[w])]
    BY <1>6 DEF SyncRun
  <2>2. \A g \in Deploy : event'[g].batch = event[g].batch /\ event'[g].target = event[g].target
    <3>1. ASSUME NEW f \in Deploy, event' = [event EXCEPT ![f].status = StatusOf(listed[w])]
          PROVE  \A g \in Deploy : event'[g].batch = event[g].batch /\ event'[g].target = event[g].target
      BY <3>1 DEF EventRow, TypeOK
    <3>. QED  BY <2>1, <3>1
  <2>. QED  BY <1>6, <2>2, Kept DEF SyncRun
<1>. QED  BY <1>1, <1>2, <1>3, <1>4, <1>5, <1>6 DEF Callback, GitHub
-----------------------------------------------------------------------------
(* Theorems.                                                                *)

\* Every batch, handler, row and run has its type and the permission it needs, in
\* every reachable state.
THEOREM StagingInvariant == Spec => []IInv
<1>1. Init => IInv
  <2>. SUFFICES ASSUME Init  PROVE IInv
    OBVIOUS
  <2>1. NoEvent \in EventRow  BY DEF NoEvent, EventRow, EventStatus, Target
  <2>2. TypeOK  BY <2>1, BlankIsHandler DEF Init, RunStatus, TypeOK
  <2>3. Blank.batch = None /\ NoEvent.batch = None  BY DEF Blank, NoEvent
  <2>4. PassedFirst  BY <2>3, NoneIsNoBatch DEF Init, PassedFirst
  <2>. QED  BY <2>2, <2>4 DEF IInv
<1>2. IInv /\ [Next]_vars => IInv'
  <2>. SUFFICES ASSUME IInv, [Next]_vars  PROVE IInv'
    OBVIOUS
  <2>0. TypeOK  BY DEF IInv
  <2>1. CASE \E b \in Batch, prs \in SUBSET PullRequest : CreateBatch(b, prs)
    <3>1. PICK b \in Batch, prs \in SUBSET PullRequest : CreateBatch(b, prs)  BY <2>1
    <3>2. SetState(b, "COLLECTING") /\ Connect(prs, b) /\ UNCHANGED <<event, run, req, polling>>
      BY <3>1 DEF CreateBatch
    <3>3. home' \in [PullRequest -> Batch \cup {None}]  BY <2>0, <3>2 DEF Connect, TypeOK
    <3>4. TypeOK'  BY <2>0, <3>2, <3>3, StateSet DEF State, polling, TypeOK
    <3>5. PassedFirst'  BY <2>0, <3>2, StateSet, Kept DEF State, IInv
    <3>. QED  BY <3>4, <3>5 DEF IInv
  <2>2. CASE \E r \in Request : BatchRequest(r)
    BY <2>0, <2>2, TypesOfBatches, PassedByBatches DEF IInv
  <2>3. CASE \E r \in Request : DeployRequest(r) \/ Kill(r)
    BY <2>0, <2>3, TypesOfDeploys, PassedByDeploys DEF IInv
  <2>4. CASE (\E r \in Request : Callback(r)) \/ GitHub
    BY <2>0, <2>4, TypesOfRuns, PassedByRuns DEF IInv
  <2>5. CASE UNCHANGED vars
    BY <2>5 DEF vars, polling, IInv, TypeOK, PassedFirst, Running
  <2>. QED  BY <2>1, <2>2, <2>3, <2>4, <2>5 DEF Next
<1>. QED  BY <1>1, <1>2, PTL DEF Spec

\* Types, by themselves.
THEOREM StagingTypeCorrect == Spec => []TypeOK
BY StagingInvariant, PTL DEF IInv

\* Whatever callbacks, cancels, reverts and polls overlap, a batch that is RELEASED
\* has been PASSED.
THEOREM ReleasedAfterPassed == Spec => []ReleasedWasPassed
<1>1. IInv => ReleasedWasPassed  BY DEF IInv, PassedFirst, ReleasedWasPassed
<1>. QED  BY <1>1, StagingInvariant, PTL

-----------------------------------------------------------------------------
(* How many deploys run at once.                                            *)

RunsFor(e, b, t) == event[e].status = "RUNNING" /\ event[e].batch = b /\ event[e].target = t

\* The deploys of batch b to target t that run, and the handlers that have found
\* none and are about to insert one.
RunsOf(b, t)  == {e \in Deploy : RunsFor(e, b, t)}
Checked(b, t) == {r \in Request : req[r].pc = "insert" /\ req[r].batch = b /\ req[r].target = t}

\* A handler passes the check only while nothing runs, so the two together are
\* never more than the handlers.
Counted(b, t) ==
    /\ IsFiniteSet(RunsOf(b, t))
    /\ Cardinality(RunsOf(b, t)) + Cardinality(Checked(b, t)) <= Cardinality(Request)

Bounded == \A b \in Batch, t \in Target : Counted(b, t)

LEMMA CheckedFinite ==
    ASSUME IsFiniteSet(Request), NEW S \in SUBSET Request
    PROVE  IsFiniteSet(S) /\ Cardinality(S) \in Nat /\ Cardinality(S) <= Cardinality(Request)
BY FS_Subset, FS_CardinalityType

LEMMA FewerCounted ==
    ASSUME IsFiniteSet(Request), NEW b, NEW t, Counted(b, t),
           RunsOf(b, t)' \subseteq RunsOf(b, t), Checked(b, t)' \subseteq Checked(b, t)
    PROVE  Counted(b, t)'
<1>1. IsFiniteSet(Checked(b, t)) /\ IsFiniteSet(RunsOf(b, t))
  BY CheckedFinite DEF Checked, Counted
<1>2. /\ IsFiniteSet(RunsOf(b, t)') /\ IsFiniteSet(Checked(b, t)')
      /\ Cardinality(RunsOf(b, t)') <= Cardinality(RunsOf(b, t))
      /\ Cardinality(Checked(b, t)') <= Cardinality(Checked(b, t))
  BY <1>1, FS_Subset
<1>3. /\ Cardinality(RunsOf(b, t)) \in Nat /\ Cardinality(Checked(b, t)) \in Nat
      /\ Cardinality(RunsOf(b, t)') \in Nat /\ Cardinality(Checked(b, t)') \in Nat
      /\ Cardinality(Request) \in Nat
  BY <1>1, <1>2, FS_CardinalityType
<1>4. Cardinality(RunsOf(b, t)) + Cardinality(Checked(b, t)) <= Cardinality(Request)
  BY DEF Counted
<1>5. Cardinality(RunsOf(b, t)') + Cardinality(Checked(b, t)') <= Cardinality(Request)
  BY <1>2, <1>3, <1>4
<1>. QED  BY <1>2, <1>5 DEF Counted

\* A step that starts no deploy and passes no check.
LEMMA Quiet ==
    ASSUME IsFiniteSet(Request), Bounded,
           \A e \in Deploy : event'[e].status = "RUNNING" => event'[e] = event[e],
           \A q \in Request : req'[q].pc = "insert" => req'[q] = req[q]
    PROVE  Bounded'
<1>1. ASSUME NEW b \in Batch, NEW t \in Target  PROVE Counted(b, t)'
  <2>1. RunsOf(b, t)' \subseteq RunsOf(b, t)  BY DEF RunsOf, RunsFor
  <2>2. Checked(b, t)' \subseteq Checked(b, t)  BY DEF Checked
  <2>. QED  BY <2>1, <2>2, FewerCounted DEF Bounded
<1>. QED  BY <1>1 DEF Bounded

LEMMA QuietReturn ==
    ASSUME TypeOK, NEW r \in Request, NEW h, Become(r, h), h.pc # "insert"
    PROVE  \A q \in Request : req'[q].pc = "insert" => req'[q] = req[q]
BY OnlyReq

LEMMA BlankPc == Blank.pc = "idle"  BY DEF Blank

LEMMA QuietBatches ==
    ASSUME TypeOK, NEW r \in Request, BatchRequest(r) \/ Kill(r)
    PROVE  event' = event /\ \A q \in Request : req'[q].pc = "insert" => req'[q] = req[q]
<1>1. ASSUME NEW b \in Batch, NEW prs \in SUBSET PullRequest,
             BeginMembers(r, b, prs) \/ CollectMerged(r, b, prs)
      PROVE  event' = event /\ \E h : Become(r, h) /\ h.pc # "insert"
  <2>. DEFINE h(pc) == [Blank EXCEPT !.pc = pc, !.batch = b, !.prs = prs]
  <2>1. \A pc : h(pc).pc = pc  BY DEF Blank
  <2>2. event' = event /\ \E pc \in {"attach", "detach", "connect"} : Become(r, h(pc))
    BY <1>1 DEF BeginMembers, CollectMerged
  <2>. HIDE DEF h
  <2>3. PICK pc \in {"attach", "detach", "connect"} : Become(r, h(pc))  BY <2>2
  <2>4. h(pc).pc # "insert"  BY <2>1
  <2>. QED  BY <2>2, <2>3, <2>4
<1>2. ASSUME NEW b \in Batch, NEW to \in State, BeginTransition(r, b, to)
      PROVE  event' = event /\ \E h : Become(r, h) /\ h.pc # "insert"
  <2>. DEFINE h == [Blank EXCEPT !.pc = "transition", !.batch = b, !.to = to]
  <2>1. h.pc = "transition"  BY DEF Blank
  <2>2. event' = event /\ Become(r, h)  BY <1>2 DEF BeginTransition
  <2>. HIDE DEF h
  <2>. QED  BY <2>1, <2>2
<1>3. CASE WriteMembers(r) \/ WriteTransition(r) \/ Kill(r)
  BY <1>3, BlankPc, QuietReturn DEF WriteMembers, WriteTransition, Kill, Return
<1>4. CASE ConnectNext(r)
  <2>1. req[r] \in Handler  BY DEF TypeOK
  <2>2. req[r].pc = "connect"  BY <1>4 DEF ConnectNext
  <2>3. \A p : [req[r] EXCEPT !.prs = @ \ {p}].pc = "connect"  BY <2>1, <2>2 DEF Handler
  <2>. DEFINE h(p) == [req[r] EXCEPT !.prs = @ \ {p}]
  <2>4. event' = event /\ (Become(r, Blank) \/ \E p : Become(r, h(p)))
    BY <1>4 DEF ConnectNext, Return
  <2>5. \A p : h(p).pc # "insert"  BY <2>3
  <2>. HIDE DEF h
  <2>. QED  BY <2>4, <2>5, BlankPc, QuietReturn
<1>. QED  BY <1>1, <1>2, <1>3, <1>4, QuietReturn DEF BatchRequest

LEMMA QuietDeploys ==
    ASSUME TypeOK, NEW r \in Request,
           \/ \E b \in Batch, target \in Target : BeginDeploy(r, b, target)
           \/ \E b \in Batch, e \in Deploy \cup {None} : BeginCancel(r, b, e)
           \/ Dispatch(r) \/ Revert(r) \/ WriteCancel(r)
    PROVE  /\ \A e \in Deploy : event'[e].status = "RUNNING" => event'[e] = event[e]
           /\ \A q \in Request : req'[q].pc = "insert" => req'[q] = req[q]
<1>1. req[r] \in Handler  BY DEF TypeOK
<1>2. CASE \/ \E b \in Batch, target \in Target : BeginDeploy(r, b, target)
           \/ \E b \in Batch, e \in Deploy \cup {None} : BeginCancel(r, b, e)
           \/ Dispatch(r)
  <2>1. event' = event /\ \E h : Become(r, h) /\ h.pc # "insert"
    <3>1. ASSUME NEW b \in Batch, NEW target \in Target, BeginDeploy(r, b, target)
          PROVE  event' = event /\ \E h : Become(r, h) /\ h.pc # "insert"
      <4>. DEFINE h == [Blank EXCEPT !.pc = "check", !.batch = b, !.to = batch[b],
                                     !.target = target]
      <4>1. h.pc = "check"  BY DEF Blank
      <4>2. event' = event /\ Become(r, h)  BY <3>1 DEF BeginDeploy
      <4>. HIDE DEF h
      <4>. QED  BY <4>1, <4>2
    <3>2. ASSUME NEW b \in Batch, NEW e \in Deploy \cup {None}, BeginCancel(r, b, e)
          PROVE  event' = event /\ \E h : Become(r, h) /\ h.pc # "insert"
      <4>. DEFINE h == [Blank EXCEPT !.pc = "cancel", !.batch = b, !.event = e]
      <4>1. h.pc = "cancel"  BY DEF Blank
      <4>2. event' = event /\ Become(r, h)  BY <3>2 DEF BeginCancel
      <4>. HIDE DEF h
      <4>. QED  BY <4>1, <4>2
    <3>3. CASE Dispatch(r)
      <4>. DEFINE h == [req[r] EXCEPT !.pc = "revert"]
      <4>1. h.pc = "revert"  BY <1>1 DEF Handler
      <4>2. event' = event /\ (Become(r, h) \/ Become(r, Blank))
        BY <3>3 DEF Dispatch, Return
      <4>. HIDE DEF h
      <4>. QED  BY <4>1, <4>2, BlankPc
    <3>. QED  BY <1>2, <3>1, <3>2, <3>3
  <2>. QED  BY <2>1, QuietReturn
<1>3. CASE Revert(r) \/ WriteCancel(r)
  <2>1. Become(r, Blank)  BY <1>3 DEF Revert, WriteCancel, Return
  <2>2. event' = event \/ \E e \in Deploy : event' = [event EXCEPT ![e].status = "FAILURE"]
    BY <1>1, <1>3, NoneIsNoBatch DEF Revert, WriteCancel, Handler, TypeOK
  <2>3. \A e \in Deploy : event'[e].status = "RUNNING" => event'[e] = event[e]
    BY <2>2 DEF TypeOK, EventRow
  <2>. QED  BY <2>1, <2>3, BlankPc, QuietReturn
<1>. QED  BY <1>2, <1>3

LEMMA QuietRuns ==
    ASSUME TypeOK, ~RunIdsFit, (\E r \in Request : Callback(r)) \/ GitHub
    PROVE  /\ \A e \in Deploy : event'[e].status = "RUNNING" => event'[e] = event[e]
           /\ \A q \in Request : req'[q].pc = "insert" => req'[q] = req[q]
<1>1. ASSUME NEW r \in Request, NEW w \in Deploy, NEW e \in Deploy \cup {None},
             NEW result \in {"success", "failure"}, BeginCallback(r, w, e, result)
      PROVE  event' = event /\ \E h : Become(r, h) /\ h.pc # "insert"
  <2>. DEFINE h == [Blank EXCEPT !.pc = "callback", !.batch = event[w].batch, !.event = e,
                                 !.run = w, !.to = AfterDeploy(e, result),
                                 !.target = event[w].target]
  <2>1. h.pc = "callback"  BY DEF Blank
  <2>2. event' = event /\ (Become(r, h) \/ Become(r, Blank))
    BY <1>1 DEF BeginCallback, Return
  <2>. HIDE DEF h
  <2>. QED  BY <2>1, <2>2, BlankPc
<1>2. ASSUME NEW r \in Request, WriteCallback(r)
      PROVE  /\ \A e \in Deploy : event'[e].status = "RUNNING" => event'[e] = event[e]
             /\ Become(r, Blank)
  <2>1. Become(r, Blank)  BY <1>2 DEF WriteCallback, Return
  <2>2. event' = event \/ \E e \in Deploy : event' =
            [event EXCEPT ![e] = [NoEvent EXCEPT !.status = "FAILURE",
                            !.target = req[r].target, !.batch = req[r].batch]]
    BY <1>2 DEF WriteCallback
  <2>3. [NoEvent EXCEPT !.status = "FAILURE", !.target = req[r].target,
                        !.batch = req[r].batch].status = "FAILURE"
    BY DEF NoEvent
  <2>4. \A e \in Deploy : event'[e].status = "RUNNING" => event'[e] = event[e]
    BY <2>2, <2>3 DEF TypeOK
  <2>. QED  BY <2>1, <2>4
<1>3. CASE GitHub
  <2>1. UNCHANGED <<event, req>>
    BY <1>3 DEF GitHub, StartRun, EndRun, SyncRun, FetchRuns
  <2>. QED  BY <2>1
<1>. QED  BY <1>1, <1>2, <1>3, BlankPc, QuietReturn DEF Callback

\* A check is passed while nothing runs, and an INSERT is one handler less that
\* may insert; the poll brings no event back as long as no run id can be stored.
LEMMA BoundedStep ==
    ASSUME IInv, Bounded, ~RunIdsFit, IsFiniteSet(Request), [Next]_vars
    PROVE  Bounded'
<1>0. TypeOK  BY DEF IInv
<1>1. CASE UNCHANGED vars  BY <1>1, Quiet DEF vars
<1>2. ASSUME NEW b \in Batch, NEW prs \in SUBSET PullRequest, CreateBatch(b, prs)
      PROVE  Bounded'
  BY <1>2, Quiet DEF CreateBatch
<1>3. ASSUME NEW r \in Request, BatchRequest(r) \/ Kill(r)
      PROVE  Bounded'
  BY <1>0, <1>3, QuietBatches, Quiet
<1>4. ASSUME NEW r \in Request, CheckRunning(r)
      PROVE  Bounded'
  <2>0. req[r] \in Handler /\ event' = event /\ req[r].pc = "check"
    BY <1>0, <1>4 DEF CheckRunning, TypeOK
  <2>1. CASE \E e \in Running(req[r].batch) : event[e].target = req[r].target
    <3>1. Become(r, Blank)  BY <1>4, <2>1 DEF CheckRunning, Return
    <3>. QED  BY <1>0, <2>0, <3>1, BlankPc, QuietReturn, Quiet
  <2>2. CASE ~\E e \in Running(req[r].batch) : event[e].target = req[r].target
    <3>1. Become(r, [req[r] EXCEPT !.pc = "insert"])  BY <1>4, <2>2 DEF CheckRunning
    <3>2. /\ req'[r].batch = req[r].batch /\ req'[r].target = req[r].target
          /\ \A q \in Request : q # r => req'[q] = req[q]
      BY <1>0, <2>0, <3>1, OnlyReq DEF Handler
    <3>3. ASSUME NEW b \in Batch, NEW t \in Target  PROVE Counted(b, t)'
      <4>1. RunsOf(b, t)' = RunsOf(b, t)  BY <2>0 DEF RunsOf, RunsFor
      <4>2. CASE b = req[r].batch /\ t = req[r].target
        <5>1. RunsOf(b, t) = {}  BY <2>2, <4>2 DEF RunsOf, RunsFor, Running
        <5>2. Cardinality(RunsOf(b, t)') = 0 /\ IsFiniteSet(RunsOf(b, t)')
          BY <4>1, <5>1, FS_EmptySet
        <5>3. Checked(b, t)' \in SUBSET Request  BY DEF Checked
        <5>4. /\ Cardinality(Checked(b, t)') \in Nat
              /\ Cardinality(Checked(b, t)') <= Cardinality(Request)
          BY <5>3, CheckedFinite
        <5>. QED  BY <5>2, <5>4 DEF Counted
      <4>3. CASE ~(b = req[r].batch /\ t = req[r].target)
        <5>1. Checked(b, t)' \subseteq Checked(b, t)  BY <3>2, <4>3 DEF Checked
        <5>. QED  BY <4>1, <5>1, FewerCounted DEF Bounded
      <4>. QED  BY <4>2, <4>3
    <3>. QED  BY <3>3 DEF Bounded
  <2>. QED  BY <2>1, <2>2
<1>5. ASSUME NEW r \in Request, NEW e \in Deploy, InsertEvent(r, e)
      PROVE  Bounded'
  <2>1. req[r] \in Handler /\ req[r].pc = "insert"  BY <1>0, <1>5 DEF InsertEvent, TypeOK
  <2>2. req'[r].pc = "dispatch" /\ \A q \in Request : q # r => req'[q] = req[q]
    <3>1. /\ req'[r] = [req[r] EXCEPT !.pc = "dispatch", !.event = e]
          /\ \A q \in Request : q # r => req'[q] = req[q]
      BY <1>0, <1>5, OnlyReq DEF InsertEvent
    <3>. QED  BY <2>1, <3>1 DEF Handler
  <2>3. /\ event'[e].batch = req[r].batch /\ event'[e].target = req[r].target
        /\ \A f \in Deploy \ {e} : event'[f] = event[f]
    BY <1>0, <1>5 DEF InsertEvent, TypeOK, NoEvent
  <2>4. ASSUME NEW b \in Batch, NEW t \in Target  PROVE Counted(b, t)'
    <3>1. CASE b = req[r].batch /\ t = req[r].target
      <4>1. RunsOf(b, t)' \subseteq RunsOf(b, t) \cup {e}  BY <2>3 DEF RunsOf, RunsFor
      <4>2. Checked(b, t)' = Checked(b, t) \ {r} /\ r \in Checked(b, t)
        BY <2>1, <2>2, <3>1 DEF Checked
      <4>3. /\ IsFiniteSet(RunsOf(b, t))
            /\ Cardinality(RunsOf(b, t)) + Cardinality(Checked(b, t)) <= Cardinality(Request)
        BY DEF Bounded, Counted
      <4>4. IsFiniteSet(Checked(b, t)) /\ Cardinality(Checked(b, t)) \in Nat
        BY CheckedFinite DEF Checked
      <4>5. Cardinality(Checked(b, t)') = Cardinality(Checked(b, t)) - 1
        BY <4>2, <4>4, FS_RemoveElement
      <4>6. /\ IsFiniteSet(RunsOf(b, t) \cup {e})
            /\ Cardinality(RunsOf(b, t) \cup {e}) <= Cardinality(RunsOf(b, t)) + 1
        <5>1. Cardinality(RunsOf(b, t)) \in Nat  BY <4>3, FS_CardinalityType
        <5>2. /\ IsFiniteSet(RunsOf(b, t) \cup {e})
              /\ Cardinality(RunsOf(b, t) \cup {e}) =
                   IF e \in RunsOf(b, t) THEN Cardinality(RunsOf(b, t))
                                         ELSE Cardinality(RunsOf(b, t)) + 1
          BY <4>3, FS_AddElement
        <5>. QED  BY <5>1, <5>2
      <4>7. /\ IsFiniteSet(RunsOf(b, t)')
            /\ Cardinality(RunsOf(b, t)') <= Cardinality(RunsOf(b, t) \cup {e})
        BY <4>1, <4>6, FS_Subset
      <4>8. /\ Cardinality(RunsOf(b, t)) \in Nat /\ Cardinality(RunsOf(b, t)') \in Nat
            /\ Cardinality(RunsOf(b, t) \cup {e}) \in Nat /\ Cardinality(Request) \in Nat
        BY <4>3, <4>6, <4>7, FS_CardinalityType
      <4>9. Cardinality(RunsOf(b, t)') + Cardinality(Checked(b, t)') <= Cardinality(Request)
        BY <4>3, <4>4, <4>5, <4>6, <4>7, <4>8
      <4>. QED  BY <4>7, <4>9 DEF Counted
    <3>2. CASE ~(b = req[r].batch /\ t = req[r].target)
      <4>1. RunsOf(b, t)' \subseteq RunsOf(b, t)  BY <2>3, <3>2 DEF RunsOf, RunsFor
      <4>2. Checked(b, t)' \subseteq Checked(b, t)  BY <2>2 DEF Checked
      <4>. QED  BY <4>1, <4>2, FewerCounted DEF Bounded
    <3>. QED  BY <3>1, <3>2
  <2>. QED  BY <2>4 DEF Bounded
<1>6. ASSUME NEW r \in Request, DeployRequest(r)
      PROVE  Bounded'
  BY <1>0, <1>4, <1>5, <1>6, QuietDeploys, Quiet DEF DeployRequest
<1>7. CASE (\E r \in Request : Callback(r)) \/ GitHub
  BY <1>0, <1>7, QuietRuns, Quiet
<1>. QED  BY <1>1, <1>2, <1>3, <1>6, <1>7 DEF Next

\* The check for a running deploy does not keep a batch to one (OneRunningDeploy),
\* and this is how far it is missed: at most one running deploy per handler, since
\* a handler inserts only after it has found none.  Where a run id can be stored,
\* polls that bring finished events back lift this bound too.
THEOREM RunningDeploysBounded ==
    ASSUME IsFiniteSet(Request), ~RunIdsFit
    PROVE  Spec => []OneDeployPerHandler
<1>1. Init => Bounded
  <2>. SUFFICES ASSUME Init, NEW b \in Batch, NEW t \in Target  PROVE Counted(b, t)
    BY DEF Bounded
  <2>1. RunsOf(b, t) = {} /\ Checked(b, t) = {}
    BY BlankPc DEF Init, RunsOf, Checked, RunsFor, NoEvent
  <2>. QED  BY <2>1, FS_EmptySet, FS_CardinalityType DEF Counted
<1>2. IInv /\ Bounded /\ [Next]_vars => Bounded'
  BY BoundedStep
<1>3. Bounded => OneDeployPerHandler
  <2>. SUFFICES ASSUME Bounded, NEW b \in Batch, NEW t \in Target
                PROVE  Cardinality({e \in Running(b) : event[e].target = t}) <= Cardinality(Request)
    BY DEF OneDeployPerHandler
  <2>1. {e \in Running(b) : event[e].target = t} = RunsOf(b, t)
    BY DEF Running, RunsOf, RunsFor
  <2>2. Counted(b, t)  BY DEF Bounded
  <2>3. Cardinality(Checked(b, t)) \in Nat  BY CheckedFinite DEF Checked
  <2>4. Cardinality(RunsOf(b, t)) \in Nat /\ Cardinality(Request) \in Nat
    BY <2>2, FS_CardinalityType DEF Counted
  <2>5. Cardinality(RunsOf(b, t)) + Cardinality(Checked(b, t)) <= Cardinality(Request)
    BY <2>2 DEF Counted
  <2>6. Cardinality(RunsOf(b, t)) <= Cardinality(Request)  BY <2>3, <2>4, <2>5
  <2>. QED  BY <2>1, <2>6
<1>. QED  BY <1>1, <1>2, <1>3, StagingInvariant, PTL DEF Spec

===============================================================================
