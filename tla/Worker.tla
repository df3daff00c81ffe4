------------------------------- MODULE Worker -------------------------------
(***************************************************************************)
(* The RQ worker running run_execution (worker_core/jobs.py), seen from    *)
(* the executions table: it takes a job, reads the row and the company's   *)
(* credential, marks the row running, collects, and writes the final       *)
(* status.  What the collection itself does is the module Collection.      *)
(*                                                                         *)
(* RQ keeps a job that returned in its finished registry and one that      *)
(* raised, or whose process was killed, in its failed registry.  Nothing   *)
(* retries it; the operator may, following docs/runbooks/fila-travada.md.  *)
(***************************************************************************)
EXTENDS ExecutionStore

CONSTANT Workers

VARIABLES
    workPc,         \* where each worker is in run_execution
    workOn,         \* the execution of its job
    failedReg,      \* executions whose job is in RQ's failed registry
    finishedReg     \* executions whose job is in RQ's finished registry

workVars == <<workPc, workOn, failedReg, finishedReg>>

WorkTypeOK ==
    /\ workPc \in [Workers -> {"idle", "picked", "loaded", "running"}]
    /\ workOn \in [Workers -> Execs \cup {None}]
    /\ failedReg \in SUBSET Execs
    /\ finishedReg \in SUBSET Execs
    /\ \A w \in Workers : workPc[w] # "idle" => workOn[w] \in Execs

WorkInit ==
    /\ workPc = [w \in Workers |-> "idle"]
    /\ workOn = [w \in Workers |-> None]
    /\ failedReg = {}
    /\ finishedReg = {}

\* UPDATE executions SET status = st WHERE id = e: no guard on the old status.
SetStatus(e, st) ==
    /\ status' = [status EXCEPT ![e] = st]
    /\ UNCHANGED <<row, txn, issued, pending, jobs, cred>>

JobReturns(w) ==
    /\ finishedReg' = finishedReg \cup {workOn[w]}
    /\ workPc' = [workPc EXCEPT ![w] = "idle"]
    /\ workOn' = [workOn EXCEPT ![w] = None]
    /\ UNCHANGED failedReg

JobRaises(w) ==
    /\ failedReg' = failedReg \cup {workOn[w]}
    /\ workPc' = [workPc EXCEPT ![w] = "idle"]
    /\ workOn' = [workOn EXCEPT ![w] = None]
    /\ UNCHANGED finishedReg

-----------------------------------------------------------------------------
\* A reliable-queue pick that leaves the job where another worker sees it.
PickPeek(w, e) ==
    /\ workPc[w] = "idle"
    /\ jobs[e] > 0
    /\ workPc' = [workPc EXCEPT ![w] = "picked"]
    /\ workOn' = [workOn EXCEPT ![w] = e]
    /\ UNCHANGED <<storeVars, failedReg, finishedReg>>

\* RQ pops the job and forks the process that runs it.
Pick(w, e) ==
    /\ workPc[w] = "idle"
    /\ jobs[e] > 0
    /\ jobs' = [jobs EXCEPT ![e] = @ - 1]
    /\ workPc' = [workPc EXCEPT ![w] = "picked"]
    /\ workOn' = [workOn EXCEPT ![w] = e]
    /\ UNCHANGED <<status, row, txn, issued, pending, cred>>
    /\ UNCHANGED <<failedReg, finishedReg>>

\* _load_execution_context against a replica that shows uncommitted rows.
LoadDirty(w) ==
    /\ workPc[w] = "picked"
    /\ LET e == workOn[w]
       IN  IF status[e] # "absent" /\ cred[row[e].company]
           THEN /\ workPc' = [workPc EXCEPT ![w] = "loaded"]
                /\ UNCHANGED <<workOn, failedReg, finishedReg>>
           ELSE JobReturns(w)
    /\ UNCHANGED storeVars

\* _load_execution_context: None, whatever the reason, ends the job normally
\* with status not_found and leaves the row as it is.
LoadContext(w) ==
    /\ workPc[w] = "picked"
    /\ LET e == workOn[w]
       IN  IF Committed(e) /\ cred[row[e].company]
           THEN /\ workPc' = [workPc EXCEPT ![w] = "loaded"]
                /\ UNCHANGED <<workOn, failedReg, finishedReg>>
           ELSE JobReturns(w)
    /\ UNCHANGED storeVars

MarkRunning(w) ==
    /\ workPc[w] = "loaded"
    /\ SetStatus(workOn[w], "running")
    /\ workPc' = [workPc EXCEPT ![w] = "running"]
    /\ UNCHANGED <<workOn, failedReg, finishedReg>>

\* The collection ended and _mark_finished writes what it decided.  The job
\* may still raise: the NSU is written after the status.
FinishJob(w, st) ==
    /\ workPc[w] = "running"
    /\ SetStatus(workOn[w], st)
    /\ JobReturns(w) \/ ("death" \in Faults /\ JobRaises(w))

\* A failure handler that re-raises before it marks the row.
FailJobUnmarked(w) ==
    /\ workPc[w] = "running"
    /\ JobRaises(w)
    /\ UNCHANGED storeVars

\* A credential, mTLS, portal or unforeseen error: _mark_failed, JobError.
FailJob(w) ==
    /\ workPc[w] = "running"
    /\ SetStatus(workOn[w], "failed")
    /\ JobRaises(w)

\* The worker is killed (SIGKILL after the drain, RQ's hard timeout), or the
\* write of the next status fails: the row keeps the status it has.
JobDies(w) ==
    /\ "death" \in Faults
    /\ workPc[w] # "idle"
    /\ JobRaises(w)
    /\ UNCHANGED storeVars

\* Runbook 3.3: FailedJobRegistry.requeue.
Requeue(e) ==
    /\ "requeue" \in Faults
    /\ e \in failedReg
    /\ failedReg' = failedReg \ {e}
    /\ jobs' = [jobs EXCEPT ![e] = @ + 1]
    /\ UNCHANGED <<status, row, txn, issued, pending, cred>>
    /\ UNCHANGED <<workPc, workOn, finishedReg>>

\* Runbook 3.5: UPDATE ... SET status = 'failed' WHERE status IN (queued,
\* running), for an execution the operator believes abandoned.
MarkAbandoned(e) ==
    /\ "abandon" \in Faults
    /\ Committed(e)
    /\ Open(e)
    /\ SetStatus(e, "failed")
    /\ UNCHANGED workVars

\* DELETE and POST /companies/{id}/credential.
ToggleCredential(c) ==
    /\ "revoke" \in Faults
    /\ cred' = [cred EXCEPT ![c] = ~@]
    /\ UNCHANGED <<status, row, txn, issued, pending, jobs>>
    /\ UNCHANGED workVars

WorkerStep(w) ==
    \/ \E e \in Execs : Pick(w, e)
    \/ LoadContext(w)
    \/ MarkRunning(w)
    \/ \E st \in Terminal : FinishJob(w, st)
    \/ FailJob(w)
=============================================================================
