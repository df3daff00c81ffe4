--------------------------- MODULE ExecutionStore ---------------------------
(***************************************************************************)
(* The two stores every process of the collector shares: the executions    *)
(* table in Postgres and the job queue in Redis (RQ).                      *)
(*                                                                         *)
(* A row written by an open transaction is visible to that transaction     *)
(* only (READ COMMITTED); a job pushed to Redis is visible at once.  The   *)
(* code pushes the job before it commits the row, so the two stores can    *)
(* disagree, and that window is what the modules above this one explore.   *)
(***************************************************************************)
EXTENDS Naturals

CONSTANTS
    Clients,        \* API request handlers (POST /executions, POST /reprocess)
    Schedulers,     \* scheduler processes
    Companies,      \* companies of one tenant, numbered in created_at order
    Keys,           \* (trigger, period_start, period_end) of an execution
    SchedKey,       \* the key of the rows the scheduler inserts
    MaxExecs,       \* bound: how many rows are ever inserted
    Faults,         \* the faults this instance may suffer
    None

Procs == Clients \cup Schedulers
Execs == 1 .. MaxExecs

\* "ambiguous": Redis accepts the job but the client times out (5 s socket
\*              timeout) and reports an enqueue failure;
\* "abort":     a transaction fails or its process dies before the commit;
\* "skip":      a due schedule has an invalid cron, or its companies cannot
\*              be read;
\* "death":     a worker is killed, or cannot write the row's next status;
\* "revoke":    credentials are revoked and uploaded;
\* "requeue", "abandon": the operator follows the runbook fila-travada.md.
AllFaults == {"ambiguous", "abort", "skip", "death", "revoke", "requeue", "abandon"}

ASSUME StoreAssumption ==
    /\ Companies \subseteq Nat
    /\ MaxExecs \in Nat
    /\ SchedKey \in Keys
    /\ None \notin Procs \cup Execs
    /\ Clients \cap Schedulers = {}
    /\ Faults \subseteq AllFaults

VARIABLES
    status,         \* executions.status; "absent" when there is no row
    row,            \* the columns fixed by the INSERT, and who inserted it
    txn,            \* the open transaction that wrote the row; None: committed
    issued,         \* how many ids gen_random_uuid() has handed out
    pending,        \* rows each open transaction has still to enqueue
    jobs,           \* how many run_execution(e) jobs wait in the RQ queue
    cred            \* does the company have an active credential?

storeVars == <<status, row, txn, issued, pending, jobs, cred>>

Terminal == {"succeeded", "partial", "failed"}
Statuses == {"absent", "queued", "running"} \cup Terminal

RowType == [company : Companies, key : Keys, by : Procs]

StoreTypeOK ==
    /\ status \in [Execs -> Statuses]
    /\ row \in [Execs -> RowType \cup {None}]
    /\ txn \in [Execs -> Procs \cup {None}]
    /\ issued \in 0 .. MaxExecs
    /\ pending \in [Procs -> SUBSET Execs]
    /\ jobs \in [Execs -> Nat]
    /\ cred \in [Companies -> BOOLEAN]

StoreInit ==
    /\ status = [e \in Execs |-> "absent"]
    /\ row = [e \in Execs |-> None]
    /\ txn = [e \in Execs |-> None]
    /\ issued = 0
    /\ pending = [p \in Procs |-> {}]
    /\ jobs = [e \in Execs |-> 0]
    /\ cred = [c \in Companies |-> TRUE]

Open(e) == status[e] \in {"queued", "running"}
Committed(e) == status[e] # "absent" /\ txn[e] = None
VisibleTo(p, e) == status[e] # "absent" /\ txn[e] \in {None, p}

-----------------------------------------------------------------------------
\* INSERT INTO executions (..., status = 'queued') in p's transaction.
InsertRow(p, c, k) ==
    /\ issued < MaxExecs
    /\ issued' = issued + 1
    /\ status' = [status EXCEPT ![issued + 1] = "queued"]
    /\ row' = [row EXCEPT ![issued + 1] = [company |-> c, key |-> k, by |-> p]]
    /\ txn' = [txn EXCEPT ![issued + 1] = p]
    /\ pending' = [pending EXCEPT ![p] = @ \cup {issued + 1}]
    /\ UNCHANGED <<jobs, cred>>

\* An enqueue that forgets to fail the row when Redis refuses the job.
EnqueueKeepsQueued(p, e) ==
    /\ \/ jobs' = [jobs EXCEPT ![e] = @ + 1]
       \/ UNCHANGED jobs
    /\ pending' = [pending EXCEPT ![p] = @ \ {e}]
    /\ UNCHANGED <<status, row, txn, issued, cred>>

\* queue.enqueue(run_execution, e), still inside p's transaction.  When it
\* raises, the row is marked failed ('enqueue_failed') in that transaction;
\* it may raise although Redis has taken the job.
Enqueue(p, e) ==
    /\ \/ /\ jobs' = [jobs EXCEPT ![e] = @ + 1]
          /\ UNCHANGED status
       \/ /\ status' = [status EXCEPT ![e] = "failed"]
          /\ UNCHANGED jobs
       \/ /\ "ambiguous" \in Faults
          /\ jobs' = [jobs EXCEPT ![e] = @ + 1]
          /\ status' = [status EXCEPT ![e] = "failed"]
    /\ pending' = [pending EXCEPT ![p] = @ \ {e}]
    /\ UNCHANGED <<row, txn, issued, cred>>

\* The context manager of the session commits: p's rows become visible.
Commit(p) ==
    /\ txn' = [e \in Execs |-> IF txn[e] = p THEN None ELSE txn[e]]
    /\ UNCHANGED <<status, row, issued, pending, jobs, cred>>

\* The transaction is rolled back: p's rows vanish, the jobs it has pushed
\* stay in Redis.
Rollback(p) ==
    /\ status' = [e \in Execs |-> IF txn[e] = p THEN "absent" ELSE status[e]]
    /\ row' = [e \in Execs |-> IF txn[e] = p THEN None ELSE row[e]]
    /\ txn' = [e \in Execs |-> IF txn[e] = p THEN None ELSE txn[e]]
    /\ pending' = [pending EXCEPT ![p] = {}]
    /\ UNCHANGED <<issued, jobs, cred>>

\* A transaction may fail at any point under the fault "abort"; an instance
\* that has used up its MaxExecs rows reads the next INSERT as a failure.
MayAbort == "abort" \in Faults \/ issued = MaxExecs
=============================================================================
