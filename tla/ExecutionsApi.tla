---------------------------- MODULE ExecutionsApi ----------------------------
(***************************************************************************)
(* POST /executions (executions/routes.py).  One request names some        *)
(* companies, a trigger and a period; its transaction inserts a row for    *)
(* every company with no open row of the same key, then enqueues each row  *)
(* it inserted, and commits when the response is ready.                    *)
(*                                                                         *)
(* A request refused by validation, or by the ping of Redis, changes       *)
(* nothing and is not an action.  POST /reprocess creates its executions   *)
(* the same way under the trigger 'reprocess', which is one more key.      *)
(***************************************************************************)
EXTENDS ExecutionStore

CONSTANT ApiKeys        \* the keys requests ask for; any trigger is accepted

ASSUME ApiAssumption == ApiKeys \subseteq Keys

VARIABLES
    reqPc,              \* where each request handler is
    reqKey,             \* the key its payload asks for
    reqTodo             \* companies of the payload it has still to visit

apiVars == <<reqPc, reqKey, reqTodo>>

ApiTypeOK ==
    /\ reqPc \in [Clients -> {"idle", "insert", "enqueue"}]
    /\ reqKey \in [Clients -> Keys \cup {None}]
    /\ reqTodo \in [Clients -> SUBSET Companies]
    /\ \A r \in Clients : reqPc[r] # "idle" => reqKey[r] \in Keys

ApiInit ==
    /\ reqPc = [r \in Clients |-> "idle"]
    /\ reqKey = [r \in Clients |-> None]
    /\ reqTodo = [r \in Clients |-> {}]

-----------------------------------------------------------------------------
\* The payload has been validated: every company has an active credential.
RequestStart(r, cs, k) ==
    /\ reqPc[r] = "idle"
    /\ cs # {}
    /\ \A c \in cs : cred[c]
    /\ reqPc' = [reqPc EXCEPT ![r] = "insert"]
    /\ reqKey' = [reqKey EXCEPT ![r] = k]
    /\ reqTodo' = [reqTodo EXCEPT ![r] = cs]
    /\ UNCHANGED storeVars

\* A dedupe that looks for queued rows only.
HasQueuedExecution(r, c, k) ==
    \E e \in Execs : /\ VisibleTo(r, e)
                     /\ status[e] = "queued"
                     /\ row[e].company = c
                     /\ row[e].key = k

\* _find_open_execution sees committed rows and the request's own.
HasOpenExecution(r, c, k) ==
    \E e \in Execs : /\ VisibleTo(r, e)
                     /\ Open(e)
                     /\ row[e].company = c
                     /\ row[e].key = k

\* One company of the payload: reuse its open execution or insert a row.
RequestInsert(r, c) ==
    /\ reqPc[r] = "insert"
    /\ c \in reqTodo[r]
    /\ IF HasOpenExecution(r, c, reqKey[r]) THEN UNCHANGED storeVars
                                            ELSE InsertRow(r, c, reqKey[r])
    /\ reqTodo' = [reqTodo EXCEPT ![r] = @ \ {c}]
    /\ reqPc' = [reqPc EXCEPT ![r] = IF reqTodo[r] = {c} THEN "enqueue" ELSE @]
    /\ UNCHANGED reqKey

\* Rows are enqueued in the order they were inserted.
RequestEnqueue(r, e) ==
    /\ reqPc[r] = "enqueue"
    /\ e \in pending[r]
    /\ \A f \in pending[r] : e <= f
    /\ Enqueue(r, e)
    /\ UNCHANGED apiVars

RequestCommit(r) ==
    /\ reqPc[r] = "enqueue"
    /\ pending[r] = {}
    /\ Commit(r)
    /\ reqPc' = [reqPc EXCEPT ![r] = "idle"]
    /\ reqKey' = [reqKey EXCEPT ![r] = None]
    /\ UNCHANGED reqTodo

\* A statement or the commit fails, or the API process dies.
RequestAbort(r) ==
    /\ MayAbort
    /\ reqPc[r] # "idle"
    /\ Rollback(r)
    /\ reqPc' = [reqPc EXCEPT ![r] = "idle"]
    /\ reqKey' = [reqKey EXCEPT ![r] = None]
    /\ reqTodo' = [reqTodo EXCEPT ![r] = {}]

RequestStep(r) ==
    \/ \E cs \in SUBSET Companies, k \in ApiKeys : RequestStart(r, cs, k)
    \/ \E c \in Companies : RequestInsert(r, c)
    \/ \E e \in Execs : RequestEnqueue(r, e)
    \/ RequestCommit(r)
=============================================================================
