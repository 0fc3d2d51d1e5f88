----------------------------- MODULE BulkIntake ------------------------------
(***************************************************************************)
(* bulk-operations.service.ts: preview, create, retry-failed and cancel as *)
(* HTTP requests handled by the backend.  An element of Req is one         *)
(* request, which may never be made; each await that touches Postgres or   *)
(* Redis is an action, so other requests and the processor run in between. *)
(***************************************************************************)
EXTENDS BulkStore

CONSTANT Req             \* bound: the requests made in a behaviour

VARIABLES
    preview,   \* the Redis keys `bulk-op:preview:{token}`
    req        \* the local state of each request

intakeVars == <<preview, req>>

ReqPc == {"idle", "consume", "quota", "insert", "refetch", "push",
          "rollback", "rows", "lookup", "cancel", "done"}

Answer == {0, 200, 201, 400, 404, 409, 410, 429, 500, 503}

\* token is None in a retry; retryOf is 0 in a create; op is the operation
\* inserted or answered.
ReqState == [pc : ReqPc, user : User \cup {None}, key : Key \cup {None},
             token : Token \cup {None}, retryOf : 0..MaxOps,
             ids : Seq(Issue), op : 0..MaxOps, answer : Answer]

IdleReq == [pc |-> "idle", user |-> None, key |-> None, token |-> None,
            retryOf |-> 0, ids |-> << >>, op |-> 0, answer |-> 0]

PreviewState == [state : {"none", "stored", "gone"}, user : User \cup {None},
                 ids : Seq(Issue)]

IntakeTypeOK ==
    /\ preview \in [Token -> PreviewState]
    /\ req \in [Req -> ReqState]

IntakeInit ==
    /\ preview = [t \in Token |->
                    [state |-> "none", user |-> None, ids |-> << >>]]
    /\ req = [r \in Req |-> IdleReq]

-----------------------------------------------------------------------------
AtReq(r, pc) == req[r].pc = pc
GotoReq(r, pc) == req' = [req EXCEPT ![r].pc = pc]

\* The request ends with a status code, about operation o (0 for none).
Reply(r, answer, o) ==
    req' = [req EXCEPT ![r].pc = "done", ![r].answer = answer, ![r].op = o,
                       ![r].ids = << >>]

\* The id of the next INSERT; MaxOps bounds how many there are.
IsNextId(n) == /\ op[n].status = "ABSENT"
               /\ \A p \in 1..(n - 1) : op[p].status # "ABSENT"

\* previewBulkOperation: resolve the scope and store it under a fresh token.
Preview(u, t, ids) ==
    /\ preview[t].state = "none"
    /\ preview' = [preview EXCEPT
                     ![t] = [state |-> "stored", user |-> u, ids |-> ids]]
    /\ UNCHANGED <<storeVars, req>>

\* PREVIEW_TOKEN_TTL_SECONDS run out, or the SET had failed silently.
ExpirePreview(t) ==
    /\ preview[t].state = "stored"
    /\ preview' = [preview EXCEPT ![t].state = "gone"]
    /\ UNCHANGED <<storeVars, req>>

\* create: look the idempotency key up; the same key gets the same operation.
BeginCreate(r, u, k, t) ==
    /\ AtReq(r, "idle") /\ preview[t].state # "none"
    /\ LET begun == [IdleReq EXCEPT !.user = u, !.key = k, !.token = t] IN
       \/ /\ WithKey(u, k) = {}
          /\ req' = [req EXCEPT ![r] = [begun EXCEPT !.pc = "consume"]]
       \/ \E o \in WithKey(u, k) :
            req' = [req EXCEPT ![r] =
                      [begun EXCEPT !.pc = "done", !.answer = 200, !.op = o]]
    /\ UNCHANGED <<storeVars, preview>>

\* GETDEL leaves nothing behind.  Mutant: GET.
TokenStays(t) == preview' = preview
DeleteToken(t) == preview' = [preview EXCEPT ![t].state = "gone"]

\* GETDEL of the preview token and the checks on what it held.  When Redis
\* fails the token looks expired, deleted or not.
ConsumeToken(r) ==
    /\ AtReq(r, "consume")
    /\ LET t == req[r].token
           p == preview[t] IN
       \/ /\ p.state = "stored"
          /\ DeleteToken(t) /\ UNCHANGED faults
          /\ CASE p.user # req[r].user  -> Reply(r, 404, 0)
               [] p.user = req[r].user /\ (p.ids = << >> \/ Len(p.ids) > MaxItems)
                                        -> Reply(r, 400, 0)
               [] OTHER -> req' = [req EXCEPT ![r].pc = "quota",
                                              ![r].ids = p.ids]
       \/ /\ p.state = "gone"
          /\ Reply(r, 409, 0) /\ UNCHANGED <<preview, faults>>
       \/ /\ Fault /\ Reply(r, 409, 0)
          /\ UNCHANGED preview \/ DeleteToken(t)
    /\ UNCHANGED <<op, scope, queue, items, applied, late>>

\* The quota of active operations, then isRedisAvailable.
CheckQuota(r) ==
    /\ AtReq(r, "quota")
    /\ \/ /\ ActiveOf(req[r].user) >= MaxConcurrent
          /\ Reply(r, 429, 0) /\ UNCHANGED faults
       \/ /\ ActiveOf(req[r].user) < MaxConcurrent
          /\ \/ GotoReq(r, "insert") /\ UNCHANGED faults
             \/ Fault /\ Reply(r, 503, 0)
    /\ UNCHANGED <<op, scope, queue, items, applied, late, preview>>

\* P2002 of the unique key.  Mutant: no such constraint.
NeverTaken(u, k) == FALSE
KeyTaken(u, k) == WithKey(u, k) # {}

\* INSERT the QUEUED row, unless the unique key stops it (P2002).
InsertOp(r) ==
    /\ AtReq(r, "insert")
    /\ LET q == req[r] IN
       \/ /\ KeyTaken(q.user, q.key)
          /\ GotoReq(r, "refetch") /\ UNCHANGED <<op, scope>>
       \/ /\ ~KeyTaken(q.user, q.key)
          /\ \E n \in Op :
               /\ IsNextId(n)
               /\ op' = [op EXCEPT ![n] =
                    [AbsentOp EXCEPT !.status = "QUEUED", !.owner = q.user,
                       !.key = q.key, !.token = q.token, !.retryOf = q.retryOf,
                       !.total = Len(q.ids)]]
               /\ scope' = [scope EXCEPT ![n] = q.ids]
               /\ req' = [req EXCEPT ![r].pc = "push", ![r].op = n,
                                     ![r].ids = << >>]
    /\ UNCHANGED <<queue, items, applied, late, faults, preview>>

\* After P2002: answer with the operation that won, if it is still there.
Refetch(r) ==
    /\ AtReq(r, "refetch")
    /\ LET winners == WithKey(req[r].user, req[r].key) IN
       \/ winners # {} /\ \E o \in winners : Reply(r, 200, o)
       \/ winners = {} /\ Reply(r, 500, 0)
    /\ UNCHANGED <<storeVars, preview>>

\* RPUSH the ids.  A null answer means roll back, even if Redis did push; the
\* audit row that follows a push may still fail the request.
PushQueue(r) ==
    /\ AtReq(r, "push")
    /\ LET o == req[r].op
           pushed == queue' = [queue EXCEPT ![o] = 1..Len(scope[o])] IN
       \/ pushed /\ Reply(r, 201, o) /\ UNCHANGED faults
       \/ pushed /\ Reply(r, 500, o) /\ Fault
       \/ /\ Fault /\ GotoReq(r, "rollback")
          /\ pushed \/ UNCHANGED queue
    /\ UNCHANGED <<op, scope, items, applied, late, preview>>

\* DELETE the row, and with it its items, to free the idempotency key.
Rollback(r) ==
    /\ AtReq(r, "rollback")
    /\ LET o == req[r].op IN
       \/ /\ Exists(o)
          /\ op' = [op EXCEPT ![o].status = "DELETED"]
          /\ items' = [items EXCEPT ![o] = {}]
          /\ Reply(r, 503, o)
       \/ /\ ~Exists(o)
          /\ Reply(r, 500, o) /\ UNCHANGED <<op, items>>
    /\ UNCHANGED <<scope, queue, applied, late, faults, preview>>

\* retry-failed: the source operation must have finished.
BeginRetry(r, u, k, o) ==
    /\ AtReq(r, "idle") /\ Exists(o) /\ op[o].owner = u
    /\ LET begun == [IdleReq EXCEPT !.user = u, !.key = k, !.retryOf = o] IN
       req' = [req EXCEPT ![r] =
                 IF Active(o) THEN [begun EXCEPT !.pc = "done", !.answer = 409]
                 ELSE [begun EXCEPT !.pc = "rows"]]
    /\ UNCHANGED <<storeVars, preview>>

\* The rows a retry starts from: not those of cancelled entries.  Mutant: the
\* whole item list again.
RetryWholeScope(o) ==
    {[entry |-> k, outcome |-> "FAILED"] : k \in DOMAIN scope[o]}
RetryRows(o) == items[o] \ RowsOf(o, "CANCELLED")

\* The issues of those rows, in the order of an unordered SELECT.
ReadRows(r) ==
    /\ AtReq(r, "rows")
    /\ LET o == req[r].retryOf
           rows == RetryRows(o) IN
       \/ rows = {} /\ Reply(r, 410, 0)
       \/ /\ rows # {}
          /\ \E order \in [1..Cardinality(rows) -> rows] :
               /\ \A i, j \in DOMAIN order : order[i] = order[j] => i = j
               /\ req' = [req EXCEPT ![r].pc = "lookup",
                    ![r].ids = [i \in DOMAIN order |-> scope[o][order[i].entry]]]
    /\ UNCHANGED <<storeVars, preview>>

\* The idempotency key of a retry is looked up only after its rows.
LookupRetry(r) ==
    /\ AtReq(r, "lookup")
    /\ LET same == WithKey(req[r].user, req[r].key) IN
       \/ same # {} /\ \E o \in same : Reply(r, 200, o)
       \/ same = {} /\ GotoReq(r, "quota")
    /\ UNCHANGED <<storeVars, preview>>

\* cancel: a no-op on a finished operation ...
BeginCancel(r, u, o) ==
    /\ AtReq(r, "idle") /\ Exists(o) /\ op[o].owner = u
    /\ LET begun == [IdleReq EXCEPT !.user = u, !.op = o] IN
       req' = [req EXCEPT ![r] =
                 IF Active(o) THEN [begun EXCEPT !.pc = "cancel"]
                 ELSE [begun EXCEPT !.pc = "done", !.answer = 200]]
    /\ UNCHANGED <<storeVars, preview>>

\* ... otherwise the flag is set by id, whatever the status is by now; writing
\* the audit row may fail the request after that.
SetCancel(r) ==
    /\ AtReq(r, "cancel")
    /\ LET o == req[r].op IN
       \/ /\ Exists(o)
          /\ op' = [op EXCEPT ![o].cancelRequested = TRUE]
          /\ \/ Reply(r, 200, o) /\ UNCHANGED faults
             \/ Reply(r, 500, o) /\ Fault
       \/ ~Exists(o) /\ Reply(r, 500, o) /\ UNCHANGED <<op, faults>>
    /\ UNCHANGED <<scope, queue, items, applied, late, preview>>

\* The process dies, or a database call of the request rejects.
KillRequest(r) ==
    /\ req[r].pc \notin {"idle", "done"}
    /\ Fault
    /\ req' = [req EXCEPT ![r] = [IdleReq EXCEPT !.pc = "done"]]
    /\ UNCHANGED <<op, scope, queue, items, applied, late, preview>>
=============================================================================
