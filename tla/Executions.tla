----------------------------- MODULE Executions -----------------------------
(***************************************************************************)
(* The life of an execution: the API and the scheduler create rows and     *)
(* push jobs, workers run them, all over one executions table and one job  *)
(* queue.                                                                  *)
(***************************************************************************)
EXTENDS Scheduler, ExecutionsApi, Worker

vars == <<storeVars, schedVars, apiVars, workVars>>

TypeOK == StoreTypeOK /\ SchedTypeOK /\ ApiTypeOK /\ WorkTypeOK

Init == StoreInit /\ SchedInit /\ ApiInit /\ WorkInit

Clock == (\E s \in Schedules : BecomeDue(s)) /\ UNCHANGED <<apiVars, workVars>>

Scheduling(p) ==
    (SchedulerStep(p) \/ SchedulerFault(p)) /\ UNCHANGED <<apiVars, workVars>>

Serving(r) ==
    (RequestStep(r) \/ RequestAbort(r)) /\ UNCHANGED <<schedVars, workVars>>

Working(w) ==
    (WorkerStep(w) \/ JobDies(w)) /\ UNCHANGED <<schedVars, apiVars>>

Operating ==
    /\ \/ \E e \in Execs : Requeue(e) \/ MarkAbandoned(e)
       \/ \E c \in Companies : ToggleCredential(c)
    /\ UNCHANGED <<schedVars, apiVars>>

Next ==
    \/ Clock
    \/ \E p \in Schedulers : Scheduling(p)
    \/ \E r \in Clients : Serving(r)
    \/ \E w \in Workers : Working(w)
    \/ Operating

Spec == Init /\ [][Next]_vars

(***************************************************************************)
(* Fairness.  A scheduler between two statements takes the next one, and   *)
(* one that waits for an advisory lock gets it when its turn comes         *)
(* (Postgres grants locks in order of arrival: strong fairness).  A worker *)
(* process goes on with its job, whose requests have finite retries and    *)
(* timeouts, and RQ's queue is first in, first out, so a job that keeps    *)
(* waiting while workers become free is taken.  Nothing is assumed of      *)
(* clients, faults, operators or the clock.                                *)
(***************************************************************************)
FairSpec ==
    /\ Spec
    /\ \A p \in Schedulers :
        SF_vars(SchedulerStep(p) /\ UNCHANGED <<apiVars, workVars>>)
    /\ \A w \in Workers :
        WF_vars(WorkerStep(w) /\ UNCHANGED <<schedVars, apiVars>>)
    /\ \A e \in Execs :
        SF_vars((\E w \in Workers : Pick(w, e)) /\ UNCHANGED <<schedVars, apiVars>>)

-----------------------------------------------------------------------------
\* An execution has at most one job in the whole of RQ: in the queue, in the
\* hands of one worker, or in one of the registries.  Two workers (runbook
\* 3.2 scales them) therefore never run the same execution at once, although
\* nothing in run_execution looks at the status it overwrites.
OneJobPerExecution ==
    \A e \in Execs :
        LET holders == {w \in Workers : workOn[w] = e}
        IN  /\ jobs[e] <= 1
            /\ \A v, w \in holders : v = w
            /\ jobs[e] = 1 => holders = {} /\ e \notin failedReg \cup finishedReg
            /\ holders # {} => e \notin failedReg \cup finishedReg
            /\ e \notin failedReg \cap finishedReg

\* A row that readers see as queued was handed to Redis: its job waits, is
\* being run, or has ended.  The enqueue is the step before the commit, so
\* the row that could not be enqueued must have been failed by then.
QueuedRowHasJob ==
    \A e \in Execs :
        Committed(e) /\ status[e] = "queued" =>
            \/ jobs[e] > 0
            \/ \E w \in Workers : workOn[w] = e
            \/ e \in failedReg \cup finishedReg

\* Two schedulers reading the same due schedule never leave one company with
\* two open executions of theirs: the advisory lock covers check and insert
\* up to the commit (scheduler.py, _lock_company_execution_slot).
AtMostOneScheduled ==
    \A e, f \in Execs :
        /\ Open(e) /\ Open(f)
        /\ row[e].by \in Schedulers /\ row[f].by \in Schedulers
        /\ row[e].company = row[f].company
        => e = f

\* No two schedulers wait for each other: each one holds only locks of
\* companies before the one it wants.
NoLockCycle ==
    \A p, q \in Schedulers, c, d \in Companies :
        ~ (Wants(p, c) /\ lock[c] = q /\ Wants(q, d) /\ lock[d] = p /\ p # q)

\* Two requests never leave one company with two open executions of the same
\* trigger and period (executions/routes.py, _find_open_execution).
NoTwinOpen ==
    \A e, f \in Execs :
        /\ Open(e) /\ Open(f)
        /\ row[e].by \in Clients /\ row[f].by \in Clients
        /\ row[e].company = row[f].company /\ row[e].key = row[f].key
        => e = f

\* A job that has returned leaves no row waiting: not_found is only for an
\* execution that is gone (jobs.py, the comment in run_execution).
ReturnedJobLeavesNoQueuedRow ==
    \A e \in finishedReg : ~ (Committed(e) /\ status[e] = "queued")

\* A row committed while its job is still in Redis is collected: the job is
\* taken, runs and leaves the row in a final status, whatever was requeued or
\* marked by hand meanwhile, unless the company is without a credential.
CommittedJobFinishes ==
    \A e \in Execs :
        (Committed(e) /\ jobs[e] > 0) ~>
            (status[e] \in Terminal \/ (row[e] # None /\ ~cred[row[e].company]))

\* A schedule that is due is served, whatever its companies are doing: its
\* next_run_at moves on even when every company overlaps.  (An instance that
\* has used up its rows stops there.)
DueScheduleIsServed ==
    \A s \in Schedules : due[s] ~> (~due[s] \/ issued = MaxExecs)

\* No tick waits for ever: the locks it needs are released in the end.
TickEnds ==
    \A p \in Schedulers :
        (tickPc[p] # "idle") ~> (tickPc[p] = "idle" \/ issued = MaxExecs)

-----------------------------------------------------------------------------
\* What a reader of the table sees of a row.
Life ==
    [e \in Execs |->
        IF ~Committed(e) THEN "absent"
        ELSE IF status[e] \in Terminal THEN "done" ELSE status[e]]

Lifecycle == INSTANCE ExecutionLifecycle WITH life <- Life

\* Seen by readers, every row lives the life ExecutionLifecycle promises.
RefinesLifecycle == Lifecycle!Spec
=============================================================================
