------------------------------- MODULE Exports -------------------------------
(***************************************************************************)
(* Exports: POST /exports (exports/routes.py) inserts a row and pushes a   *)
(* build_export job (worker_core/jobs.py), whose worker lists the notes of *)
(* the period, uploads the archive, registers the file and notifies.       *)
(*                                                                         *)
(* As for executions, the job reaches Redis before the row is committed;   *)
(* unlike run_execution, build_export raises when it does not find the     *)
(* row, and leaves alone a row that has already finished.                  *)
(***************************************************************************)
EXTENDS Naturals

CONSTANTS
    Exports,        \* export ids, each asked for by one request
    Builders,       \* worker processes
    MaxUploads,     \* bound: a job is killed and requeued while its export has fewer archives
    Faults          \* the faults this instance may suffer

\* "ambiguous": Redis takes the job and the client reports a failure;
\* "abort":     the request's transaction is rolled back;
\* "build":     listing, downloading, the size limit or the upload fails;
\* "death":     the worker is killed, or a write of the row fails;
\* "requeue":   the operator requeues failed jobs (fila-travada.md, 3.3).
AllFaults == {"ambiguous", "abort", "build", "death", "requeue"}

ASSUME ExportsAssumption ==
    /\ MaxUploads \in Nat \ {0}
    /\ Faults \subseteq AllFaults

VARIABLES
    status,         \* exports.status; "absent" when there is no row
    request,        \* where the request that creates the row is
    jobs,           \* how many build_export(e) jobs wait in the queue
    failedReg,      \* exports whose job is in RQ's failed registry
    pc,             \* per export, where the worker that holds its job is (one
                    \* worker at most: OneBuilderPerExport)
    builder,        \* per worker, the exports (at most one) whose job it holds
    archives,       \* how many archives of the export were uploaded
    files,          \* how many rows of files register one of them
    notified        \* how many times export.ready was queued

table == <<status, files, notified>>
vars == <<table, request, jobs, failedReg, pc, builder, archives>>

Finished == {"ready", "failed", "empty"}
BuildSteps == {"none", "picked", "loaded", "running", "listed", "uploaded", "ready"}

TypeOK ==
    /\ status \in [Exports -> {"absent", "queued", "running"} \cup Finished]
    /\ request \in [Exports -> {"new", "inserted", "enqueued", "closed"}]
    /\ jobs \in [Exports -> Nat]
    /\ failedReg \in SUBSET Exports
    /\ pc \in [Exports -> BuildSteps]
    /\ builder \in [Builders -> SUBSET Exports]
    /\ archives \in [Exports -> Nat]
    /\ files \in [Exports -> Nat]
    /\ notified \in [Exports -> Nat]

Init ==
    /\ status = [e \in Exports |-> "absent"]
    /\ request = [e \in Exports |-> "new"]
    /\ jobs = [e \in Exports |-> 0]
    /\ failedReg = {}
    /\ pc = [e \in Exports |-> "none"]
    /\ builder = [b \in Builders |-> {}]
    /\ archives = [e \in Exports |-> 0]
    /\ files = [e \in Exports |-> 0]
    /\ notified = [e \in Exports |-> 0]

\* The row can be read outside the request's own transaction.
Committed(e) == request[e] = "closed" /\ status[e] # "absent"

-----------------------------------------------------------------------------
\* create_export.  A request refused by validation or by the ping of Redis
\* changes nothing and is not an action.
InsertExport(e) ==
    /\ request[e] = "new"
    /\ request' = [request EXCEPT ![e] = "inserted"]
    /\ status' = [status EXCEPT ![e] = "queued"]
    /\ UNCHANGED <<files, notified, jobs, failedReg, pc, builder, archives>>

\* The job is pushed, or the row is failed with enqueue_failed.
EnqueueExport(e) ==
    /\ request[e] = "inserted"
    /\ request' = [request EXCEPT ![e] = "enqueued"]
    /\ \/ /\ jobs' = [jobs EXCEPT ![e] = @ + 1]
          /\ UNCHANGED status
       \/ /\ status' = [status EXCEPT ![e] = "failed"]
          /\ UNCHANGED jobs
       \/ /\ "ambiguous" \in Faults
          /\ jobs' = [jobs EXCEPT ![e] = @ + 1]
          /\ status' = [status EXCEPT ![e] = "failed"]
    /\ UNCHANGED <<files, notified, failedReg, pc, builder, archives>>

CommitExport(e) ==
    /\ request[e] = "enqueued"
    /\ request' = [request EXCEPT ![e] = "closed"]
    /\ UNCHANGED <<table, jobs, failedReg, pc, builder, archives>>

\* The row vanishes; a job already pushed stays in Redis.
AbortExport(e) ==
    /\ "abort" \in Faults
    /\ request[e] \in {"inserted", "enqueued"}
    /\ request' = [request EXCEPT ![e] = "closed"]
    /\ status' = [status EXCEPT ![e] = "absent"]
    /\ UNCHANGED <<files, notified, jobs, failedReg, pc, builder, archives>>

-----------------------------------------------------------------------------
\* build_export.  At(b, e, s): worker b runs the job of e and is at step s.
At(b, e, s) == e \in builder[b] /\ pc[e] = s

GoTo(e, s) ==
    /\ pc' = [pc EXCEPT ![e] = s]
    /\ UNCHANGED <<builder, failedReg>>

Release(b, e) ==
    /\ builder' = [builder EXCEPT ![b] = {}]
    /\ pc' = [pc EXCEPT ![e] = "none"]

JobReturns(b, e) == Release(b, e) /\ UNCHANGED failedReg
JobRaises(b, e) == Release(b, e) /\ failedReg' = failedReg \cup {e}

PickExport(b, e) ==
    /\ builder[b] = {}
    /\ jobs[e] > 0
    /\ jobs' = [jobs EXCEPT ![e] = @ - 1]
    /\ builder' = [builder EXCEPT ![b] = {e}]
    /\ pc' = [pc EXCEPT ![e] = "picked"]
    /\ UNCHANGED <<table, request, failedReg, archives>>

\* A load that answers not_found like run_execution: the job returns.
LoadReturnsNotFound(b, e) ==
    /\ At(b, e, "picked")
    /\ IF Committed(e) /\ status[e] \notin Finished
       THEN GoTo(e, "loaded")
       ELSE JobReturns(b, e)
    /\ UNCHANGED <<table, request, jobs, archives>>

\* A load without the check for a row that has finished.
LoadUnchecked(b, e) ==
    /\ At(b, e, "picked")
    /\ IF Committed(e) THEN GoTo(e, "loaded") ELSE JobRaises(b, e)
    /\ UNCHANGED <<table, request, jobs, archives>>

\* No row yet: ExportError not_found.  A finished row: nothing to do.
LoadExport(b, e) ==
    /\ At(b, e, "picked")
    /\ \/ ~Committed(e) /\ JobRaises(b, e)
       \/ Committed(e) /\ status[e] \in Finished /\ JobReturns(b, e)
       \/ Committed(e) /\ status[e] \notin Finished /\ GoTo(e, "loaded")
    /\ UNCHANGED <<table, request, jobs, archives>>

MarkExportRunning(b, e) ==
    /\ At(b, e, "loaded")
    /\ status' = [status EXCEPT ![e] = "running"]
    /\ GoTo(e, "running")
    /\ UNCHANGED <<files, notified, request, jobs, archives>>

\* An empty period that is reported but not written.
ListItemsUnmarked(b, e) ==
    /\ At(b, e, "running")
    /\ GoTo(e, "listed") \/ JobReturns(b, e)
    /\ UNCHANGED <<table, request, jobs, archives>>

\* _list_items, and _mark_empty when the period has no note.
ListItems(b, e) ==
    /\ At(b, e, "running")
    /\ \/ GoTo(e, "listed") /\ UNCHANGED status
       \/ status' = [status EXCEPT ![e] = "empty"] /\ JobReturns(b, e)
    /\ UNCHANGED <<files, notified, request, jobs, archives>>

\* Listing, a download, the size limit or the upload fails.  The handler
\* calls _mark_failed(conn, eid, code=..., message=...), and that name is
\* bound to the _mark_failed(ctx, *, error_summary) defined below it in the
\* module: the call raises TypeError and the row stays running.
BuildFails(b, e) ==
    /\ "build" \in Faults
    /\ At(b, e, "running") \/ At(b, e, "listed")
    /\ JobRaises(b, e)
    /\ UNCHANGED <<table, request, jobs, archives>>

\* The archive is built in tmpfs and uploaded under a new file id.
UploadArchive(b, e) ==
    /\ At(b, e, "listed")
    /\ archives' = [archives EXCEPT ![e] = @ + 1]
    /\ GoTo(e, "uploaded")
    /\ UNCHANGED <<table, request, jobs>>

\* _insert_file that commits before _mark_ready, and a crash between them.
MarkReadyInTwo(b, e) ==
    /\ At(b, e, "uploaded")
    /\ files' = [files EXCEPT ![e] = @ + 1]
    /\ \/ status' = [status EXCEPT ![e] = "ready"] /\ GoTo(e, "ready")
       \/ "death" \in Faults /\ JobRaises(b, e) /\ UNCHANGED status
    /\ UNCHANGED <<notified, request, jobs, archives>>

\* _insert_file and _mark_ready share one commit.
MarkReady(b, e) ==
    /\ At(b, e, "uploaded")
    /\ files' = [files EXCEPT ![e] = @ + 1]
    /\ status' = [status EXCEPT ![e] = "ready"]
    /\ GoTo(e, "ready")
    /\ UNCHANGED <<notified, request, jobs, archives>>

\* _enqueue_notifications, a transaction of its own.
Notify(b, e) ==
    /\ At(b, e, "ready")
    /\ notified' = [notified EXCEPT ![e] = @ + 1]
    /\ JobReturns(b, e) \/ ("death" \in Faults /\ JobRaises(b, e))
    /\ UNCHANGED <<status, files, request, jobs, archives>>

\* The worker is killed, or the next write fails: the row stays as it is.
BuilderDies(b, e) ==
    /\ "death" \in Faults
    /\ e \in builder[b] /\ archives[e] < MaxUploads
    /\ JobRaises(b, e)
    /\ UNCHANGED <<table, request, jobs, archives>>

\* Runbook 3.3: FailedJobRegistry.requeue.
RequeueExport(e) ==
    /\ "requeue" \in Faults
    /\ e \in failedReg
    /\ archives[e] < MaxUploads
    /\ failedReg' = failedReg \ {e}
    /\ jobs' = [jobs EXCEPT ![e] = @ + 1]
    /\ UNCHANGED <<table, request, pc, builder, archives>>

Build(b, e) ==
    \/ LoadExport(b, e)
    \/ MarkExportRunning(b, e)
    \/ ListItems(b, e)
    \/ UploadArchive(b, e)
    \/ MarkReady(b, e)
    \/ Notify(b, e)

Requesting(e) == InsertExport(e) \/ EnqueueExport(e) \/ CommitExport(e) \/ AbortExport(e)

Next ==
    \/ \E e \in Exports : Requesting(e) \/ RequeueExport(e)
    \/ \E b \in Builders, e \in Exports :
        PickExport(b, e) \/ Build(b, e) \/ BuildFails(b, e) \/ BuilderDies(b, e)

Spec == Init /\ [][Next]_vars

(***************************************************************************)
(* Fairness.  A worker goes on with its job (downloads have finite retries *)
(* and the job a timeout), and a job that keeps waiting while workers      *)
(* become free is taken (the queue is first in, first out).  The operator  *)
(* keeps requeueing failed jobs where the instance has "requeue".          *)
(***************************************************************************)
FairSpec ==
    /\ Spec
    /\ \A b \in Builders, e \in Exports : WF_vars(Build(b, e))
    /\ \A e \in Exports : SF_vars(\E b \in Builders : PickExport(b, e))
    /\ \A e \in Exports : WF_vars(CommitExport(e)) /\ WF_vars(RequeueExport(e))

-----------------------------------------------------------------------------
\* An export that readers see unfinished can always be finished: its job
\* waits, is being run, or is in the failed registry, where the operator can
\* requeue it.  A job that returned normally has finished its export, even
\* the one that was picked before the row was committed.
OpenExportIsRecoverable ==
    \A e \in Exports :
        Committed(e) /\ status[e] \in {"queued", "running"} =>
            jobs[e] > 0 \/ pc[e] # "none" \/ e \in failedReg

\* The job of an export is in one place only, whatever is requeued, so two
\* workers never build it at once: the status check of build_export and the
\* UPDATE that follows it need no lock.
OneBuilderPerExport ==
    \A e \in Exports :
        LET holders == {b \in Builders : e \in builder[b]}
        IN  /\ jobs[e] <= 1
            /\ \A a, b \in holders : a = b
            /\ jobs[e] = 1 => holders = {}
            /\ jobs[e] = 1 \/ holders # {} => e \notin failedReg

\* The panel's download link: a ready export, and no other, has its row in
\* files, one, and an uploaded archive behind it, however often the build
\* was killed and requeued.
FilesMatchReady ==
    \A e \in Exports :
        /\ files[e] = (IF status[e] = "ready" THEN 1 ELSE 0)
        /\ files[e] <= archives[e]

\* The user hears of an export once, and only when the file is there.
NotifiedOnce ==
    \A e \in Exports : notified[e] <= 1 /\ notified[e] <= files[e]

\* A build that raised has marked its export failed (build_export; the test
\* test_build_export_limite_2gb_marca_failed).
FailedBuildIsMarked ==
    \A e \in failedReg : status[e] # "running"

\* Every export that is asked for finishes, the early pick included, unless its
\* own request is rolled back: as long as failed jobs are requeued and jobs do
\* not fail for ever, by kills, failed writes or failed builds.
ExportFinishes ==
    <>[][failedReg' \subseteq failedReg]_vars =>
        \A e \in Exports :
            (request[e] = "enqueued") ~>
                (Committed(e) /\ status[e] \in Finished) \/ status[e] = "absent"

-----------------------------------------------------------------------------
\* What a reader of the exports table sees of a row.
Life ==
    [e \in Exports |->
        IF ~Committed(e) THEN "absent"
        ELSE IF status[e] \in Finished THEN "done" ELSE status[e]]

Lifecycle == INSTANCE ExecutionLifecycle WITH Execs <- Exports, life <- Life

\* The panel stops polling a finished export: seen by readers it never moves
\* again.  It holds even when Redis takes a job and reports a failure, the
\* case in which an execution does not live up to it.
RefinesLifecycle == Lifecycle!Spec
=============================================================================
