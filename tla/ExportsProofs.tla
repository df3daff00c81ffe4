---------------------------- MODULE ExportsProofs ----------------------------
(***************************************************************************)
(* Proofs about Exports, for any number of exports and workers, any bound  *)
(* on the requeues and any set of faults.                                  *)
(***************************************************************************)
EXTENDS Exports, TLAPS

\* A worker holds one job, a job has one holder, and the step of a held job
\* is known.
HoldersOK ==
    /\ \A b \in Builders : \A e, f \in builder[b] : e = f
    /\ \A a, b \in Builders, e \in Exports : e \in builder[a] /\ e \in builder[b] => a = b
    /\ \A b \in Builders : \A e \in builder[b] : pc[e] # "none"

\* Where a request is, its row has the status that the request wrote, and
\* its job is not in Redis before it was pushed.
RequestOK(e) ==
    /\ request[e] = "new" => status[e] = "absent"
    /\ request[e] = "inserted" => status[e] = "queued"
    /\ request[e] = "enqueued" => status[e] \in {"queued", "failed"}
    /\ request[e] \in {"new", "inserted"} =>
          jobs[e] = 0 /\ pc[e] = "none" /\ e \notin failedReg

\* The job of a row is in one place, and an unfinished row has a job.
JobOK(e) ==
    /\ jobs[e] <= 1
    /\ jobs[e] > 0 => pc[e] = "none"
    /\ jobs[e] > 0 \/ pc[e] # "none" => e \notin failedReg
    /\ request[e] \in {"enqueued", "closed"} /\ status[e] \in {"queued", "running"} =>
          jobs[e] > 0 \/ pc[e] # "none" \/ e \in failedReg

\* What a worker past a step of build_export knows of the row: nobody else
\* has moved it since.
StepOK(e) ==
    /\ pc[e] = "loaded" => request[e] = "closed" /\ status[e] \in {"queued", "running"}
    /\ pc[e] \in {"running", "listed", "uploaded"} =>
          request[e] = "closed" /\ status[e] = "running"
    /\ pc[e] = "uploaded" => archives[e] >= 1
    /\ pc[e] = "ready" => request[e] = "closed" /\ status[e] = "ready" /\ notified[e] = 0

FileOK(e) ==
    /\ files[e] = (IF status[e] = "ready" THEN 1 ELSE 0)
    /\ files[e] <= archives[e]
    /\ notified[e] <= files[e]

ExportOK(e) == RequestOK(e) /\ JobOK(e) /\ StepOK(e) /\ FileOK(e)

IndInv == TypeOK /\ HoldersOK /\ \A e \in Exports : ExportOK(e)

LEMMA InitIndInv == Init => IndInv
BY DEF Init, IndInv, TypeOK, HoldersOK, ExportOK, RequestOK, JobOK, StepOK, FileOK,
       Finished, BuildSteps

-----------------------------------------------------------------------------
LEMMA StepTypeOK == TypeOK /\ [Next]_vars => TypeOK'
<1> SUFFICES ASSUME TypeOK, [Next]_vars PROVE TypeOK'
  OBVIOUS
<1> USE DEF TypeOK, Finished, BuildSteps, table, GoTo, JobReturns, JobRaises, Release
<1>1. UNCHANGED vars => TypeOK'
  BY DEF vars
<1>2. ASSUME NEW e \in Exports, Requesting(e) \/ RequeueExport(e) PROVE TypeOK'
  BY <1>2 DEF Requesting, InsertExport, EnqueueExport, CommitExport, AbortExport,
              RequeueExport
<1>3. ASSUME NEW b \in Builders, NEW e \in Exports,
             PickExport(b, e) \/ Build(b, e) \/ BuildFails(b, e) \/ BuilderDies(b, e)
      PROVE  TypeOK'
  <2>1. CASE PickExport(b, e)
    BY <2>1 DEF PickExport
  <2>2. CASE LoadExport(b, e) \/ BuildFails(b, e) \/ BuilderDies(b, e)
    BY <2>2 DEF LoadExport, BuildFails, BuilderDies
  <2>3. CASE MarkExportRunning(b, e) \/ ListItems(b, e)
    BY <2>3 DEF MarkExportRunning, ListItems
  <2>4. CASE UploadArchive(b, e) \/ MarkReady(b, e) \/ Notify(b, e)
    BY <2>4 DEF UploadArchive, MarkReady, Notify
  <2>5. QED
    BY <1>3, <2>1, <2>2, <2>3, <2>4 DEF Build
<1>4. QED
  BY <1>1, <1>2, <1>3 DEF Next

\* No step gives a job a second holder or a worker a second job.
LEMMA StepHolders == IndInv /\ [Next]_vars => HoldersOK'
<1> SUFFICES ASSUME IndInv, [Next]_vars PROVE HoldersOK'
  OBVIOUS
<1> USE DEF IndInv, TypeOK, HoldersOK, table, GoTo, JobReturns, JobRaises, Release, At
<1>1. UNCHANGED vars => HoldersOK'
  BY DEF vars
<1>2. ASSUME NEW e \in Exports, Requesting(e) \/ RequeueExport(e) PROVE HoldersOK'
  BY <1>2 DEF Requesting, InsertExport, EnqueueExport, CommitExport, AbortExport,
              RequeueExport
<1>3. ASSUME NEW b \in Builders, NEW e \in Exports,
             PickExport(b, e) \/ Build(b, e) \/ BuildFails(b, e) \/ BuilderDies(b, e)
      PROVE  HoldersOK'
  <2>1. CASE PickExport(b, e)
    <3>1. pc[e] = "none"
      BY <2>1 DEF PickExport, ExportOK, JobOK
    <3>2. \A a \in Builders : e \notin builder[a]
      BY <3>1
    <3>3. QED
      BY <2>1, <3>2 DEF PickExport
  <2>2. ASSUME e \in builder[b], Release(b, e) PROVE HoldersOK'
    BY <2>2
  <2>3. ASSUME e \in builder[b], NEW s \in {"loaded", "running", "listed", "uploaded", "ready"},
               GoTo(e, s)
        PROVE  HoldersOK'
    BY <2>3
  <2>4. CASE LoadExport(b, e) \/ BuildFails(b, e) \/ BuilderDies(b, e)
    BY <2>2, <2>3, <2>4 DEF LoadExport, BuildFails, BuilderDies
  <2>5. CASE MarkExportRunning(b, e) \/ ListItems(b, e)
    BY <2>2, <2>3, <2>5 DEF MarkExportRunning, ListItems
  <2>6. CASE UploadArchive(b, e) \/ MarkReady(b, e) \/ Notify(b, e)
    BY <2>2, <2>3, <2>6 DEF UploadArchive, MarkReady, Notify
  <2>7. QED
    BY <1>3, <2>1, <2>4, <2>5, <2>6 DEF Build
<1>4. QED
  BY <1>1, <1>2, <1>3 DEF Next

\* Every step keeps what is known of each export, the one it moves and the
\* ones it does not.
LEMMA StepExports == IndInv /\ [Next]_vars => \A x \in Exports : ExportOK(x)'
<1> SUFFICES ASSUME IndInv, [Next]_vars, NEW x \in Exports PROVE ExportOK(x)'
  OBVIOUS
<1> USE DEF ExportOK, RequestOK, JobOK, StepOK, FileOK, table
<1>1. UNCHANGED vars => ExportOK(x)'
  BY DEF vars, IndInv
<1>2. ASSUME NEW e \in Exports, Requesting(e) \/ RequeueExport(e) PROVE ExportOK(x)'
  <2> USE DEF IndInv, TypeOK
  <2>1. CASE InsertExport(e) \/ CommitExport(e) \/ AbortExport(e)
    BY <2>1 DEF InsertExport, CommitExport, AbortExport
  <2>2. CASE EnqueueExport(e)
    BY <2>2 DEF EnqueueExport
  <2>3. CASE RequeueExport(e)
    BY <2>3 DEF RequeueExport
  <2>4. QED
    BY <1>2, <2>1, <2>2, <2>3 DEF Requesting
<1>3. ASSUME NEW b \in Builders, NEW e \in Exports,
             PickExport(b, e) \/ Build(b, e) \/ BuildFails(b, e) \/ BuilderDies(b, e)
      PROVE  ExportOK(x)'
  <2> USE DEF IndInv, TypeOK, HoldersOK, GoTo, JobReturns, JobRaises, Release, At
  <2>1. CASE PickExport(b, e)
    BY <2>1 DEF PickExport
  <2>2. CASE LoadExport(b, e)
    BY <2>2 DEF LoadExport, Committed, Finished
  <2>3. CASE BuildFails(b, e) \/ BuilderDies(b, e)
    BY <2>3 DEF BuildFails, BuilderDies
  <2>4. CASE MarkExportRunning(b, e)
    BY <2>4 DEF MarkExportRunning
  <2>5. CASE ListItems(b, e)
    BY <2>5 DEF ListItems
  <2>6. CASE UploadArchive(b, e)
    BY <2>6 DEF UploadArchive
  <2>7. CASE MarkReady(b, e)
    BY <2>7 DEF MarkReady
  <2>8. CASE Notify(b, e)
    BY <2>8 DEF Notify
  <2>9. QED
    BY <1>3, <2>1, <2>2, <2>3, <2>4, <2>5, <2>6, <2>7, <2>8 DEF Build
<1>4. QED
  BY <1>1, <1>2, <1>3 DEF Next

LEMMA IndInvHolds == Spec => []IndInv
<1>1. IndInv /\ [Next]_vars => IndInv'
  BY StepTypeOK, StepHolders, StepExports DEF IndInv
<1>2. QED
  BY <1>1, InitIndInv, PTL DEF Spec

-----------------------------------------------------------------------------
\* Every variable of the exports model stays in its type (the columns of the
\* exports table and the RQ registries).
THEOREM ExportsTypes == Spec => []TypeOK
BY IndInvHolds, PTL DEF IndInv

\* A row of exports that readers see unfinished always has a job that can
\* finish it or be requeued (build_export raises not_found for an early pick).
THEOREM OpenExportsAreRecoverable == Spec => []OpenExportIsRecoverable
<1>1. IndInv => OpenExportIsRecoverable
  BY DEF IndInv, ExportOK, JobOK, OpenExportIsRecoverable, Committed
<1>2. QED
  BY <1>1, IndInvHolds, PTL

\* The job of an export is in one place: queue, one worker or the failed
\* registry (queue.enqueue, RQ's pick and FailedJobRegistry.requeue).
THEOREM ExportsHaveOneBuilder == Spec => []OneBuilderPerExport
<1>1. IndInv => OneBuilderPerExport
  <2>1. SUFFICES ASSUME IndInv, NEW e \in Exports,
                        NEW holders, holders = {b \in Builders : e \in builder[b]}
                 PROVE  /\ jobs[e] <= 1
                        /\ \A a, b \in holders : a = b
                        /\ jobs[e] = 1 => holders = {}
                        /\ jobs[e] = 1 \/ holders # {} => e \notin failedReg
    BY DEF OneBuilderPerExport
  <2>2. \A b \in holders : pc[e] # "none"
    BY <2>1 DEF IndInv, HoldersOK
  <2>3. \A a, b \in holders : a = b
    BY <2>1 DEF IndInv, HoldersOK
  <2>4. QED
    BY <2>1, <2>2, <2>3 DEF IndInv, ExportOK, JobOK
<1>2. QED
  BY <1>1, IndInvHolds, PTL

\* A ready export, and no other, has its one file and an archive behind it
\* (_insert_file and _mark_ready commit together).
THEOREM FilesAlwaysMatchReady == Spec => []FilesMatchReady
<1>1. IndInv => FilesMatchReady
  BY DEF IndInv, ExportOK, FileOK, FilesMatchReady
<1>2. QED
  BY <1>1, IndInvHolds, PTL

\* An export is notified once at most, with its file in place
\* (_enqueue_notifications after _mark_ready, terminal rows skipped).
THEOREM ExportsAreNotifiedOnce == Spec => []NotifiedOnce
<1>1. IndInv => NotifiedOnce
  <2>1. SUFFICES ASSUME IndInv, NEW e \in Exports
                 PROVE  notified[e] <= 1 /\ notified[e] <= files[e]
    BY DEF NotifiedOnce
  <2>2. notified[e] \in Nat /\ files[e] \in {0, 1} /\ notified[e] <= files[e]
    BY <2>1 DEF IndInv, TypeOK, ExportOK, FileOK
  <2>3. QED
    BY <2>2
<1>2. QED
  BY <1>1, IndInvHolds, PTL

-----------------------------------------------------------------------------
\* What readers see of a row changes only when its request commits, when a
\* worker marks it running, and when a worker marks it finished.
LEMMA StepLife == IndInv /\ [Next]_vars => [Lifecycle!Next]_Life
<1> SUFFICES ASSUME IndInv, [Next]_vars PROVE Lifecycle!Next \/ UNCHANGED Life
  OBVIOUS
<1>1. UNCHANGED <<status, request>> => UNCHANGED Life
  BY DEF Life, Committed
<1>2. UNCHANGED vars => UNCHANGED Life
  BY <1>1 DEF vars, table
<1>3. ASSUME NEW e \in Exports, Requesting(e) \/ RequeueExport(e)
      PROVE  Lifecycle!Next \/ UNCHANGED Life
  <2>1. CASE InsertExport(e) \/ EnqueueExport(e) \/ AbortExport(e)
    <3>1. ~Committed(e) /\ ~Committed(e)'
      BY <2>1 DEF IndInv, TypeOK, InsertExport, EnqueueExport, AbortExport, Committed
    <3>2. \A x \in Exports : x # e => status'[x] = status[x] /\ request'[x] = request[x]
      BY <2>1 DEF IndInv, TypeOK, InsertExport, EnqueueExport, AbortExport
    <3>3. UNCHANGED Life
      BY <3>1, <3>2 DEF Life, Committed
    <3>4. QED
      BY <3>3
  <2>2. CASE CommitExport(e)
    <3>1. status[e] \in {"queued", "failed"} /\ request[e] = "enqueued"
      BY <2>2 DEF CommitExport, IndInv, ExportOK, RequestOK
    <3>2. Life[e] = "absent"
      BY <3>1 DEF Life, Committed
    <3>3. CASE status[e] = "queued"
      <4>1. Life' = [x \in Exports |-> IF x \in {e} THEN "queued" ELSE Life[x]]
        BY <2>2, <3>3 DEF CommitExport, table, IndInv, TypeOK, Life, Committed, Finished
      <4>2. Lifecycle!Create({e}, {})
        BY <3>2, <4>1 DEF Lifecycle!Create
      <4>3. QED
        BY <4>2 DEF Lifecycle!Next
    <3>4. CASE status[e] = "failed"
      <4>1. Life' = [x \in Exports |-> IF x \in {e} THEN "done" ELSE Life[x]]
        BY <2>2, <3>4 DEF CommitExport, table, IndInv, TypeOK, Life, Committed, Finished
      <4>2. Lifecycle!Create({}, {e})
        BY <3>2, <4>1 DEF Lifecycle!Create
      <4>3. QED
        BY <4>2 DEF Lifecycle!Next
    <3>5. QED
      BY <3>1, <3>3, <3>4
  <2>3. CASE RequeueExport(e)
    BY <1>1, <2>3 DEF RequeueExport, table
  <2>4. QED
    BY <1>3, <2>1, <2>2, <2>3 DEF Requesting
<1>4. ASSUME NEW b \in Builders, NEW e \in Exports,
             PickExport(b, e) \/ Build(b, e) \/ BuildFails(b, e) \/ BuilderDies(b, e)
      PROVE  Lifecycle!Next \/ UNCHANGED Life
  <2>1. CASE \/ PickExport(b, e) \/ LoadExport(b, e) \/ UploadArchive(b, e)
             \/ Notify(b, e) \/ BuildFails(b, e) \/ BuilderDies(b, e)
    BY <1>1, <2>1 DEF PickExport, LoadExport, UploadArchive, Notify, BuildFails,
                      BuilderDies, table
  <2>2. CASE MarkExportRunning(b, e)
    <3>1. request[e] = "closed" /\ status[e] \in {"queued", "running"}
      BY <2>2 DEF MarkExportRunning, At, IndInv, ExportOK, StepOK
    <3>2. Life' = [Life EXCEPT ![e] = "running"]
      BY <2>2, <3>1 DEF MarkExportRunning, IndInv, TypeOK, Life, Committed, Finished
    <3>3. CASE status[e] = "queued"
      <4>1. Lifecycle!Start(e)
        BY <3>1, <3>2, <3>3 DEF Lifecycle!Start, Life, Committed, Finished
      <4>2. QED
        BY <4>1 DEF Lifecycle!Next
    <3>4. CASE status[e] = "running"
      BY <3>1, <3>2, <3>4 DEF Life, Committed, Finished
    <3>5. QED
      BY <3>1, <3>3, <3>4
  <2>3. ASSUME NEW s \in Finished, status' = [status EXCEPT ![e] = s],
               UNCHANGED request, request[e] = "closed", status[e] = "running"
        PROVE  Lifecycle!Next
    <3>1. Life[e] = "running" /\ Life' = [Life EXCEPT ![e] = "done"]
      BY <2>3 DEF IndInv, TypeOK, Life, Committed, Finished
    <3>2. QED
      BY <3>1 DEF Lifecycle!Finish, Lifecycle!Next
  <2>4. CASE ListItems(b, e)
    <3>1. request[e] = "closed" /\ status[e] = "running"
      BY <2>4 DEF ListItems, At, IndInv, ExportOK, StepOK
    <3>2. UNCHANGED request /\ (UNCHANGED status \/ status' = [status EXCEPT ![e] = "empty"])
      BY <2>4 DEF ListItems
    <3>3. QED
      BY <1>1, <2>3, <3>1, <3>2 DEF Finished
  <2>5. CASE MarkReady(b, e)
    <3>1. request[e] = "closed" /\ status[e] = "running"
      BY <2>5 DEF MarkReady, At, IndInv, ExportOK, StepOK
    <3>2. QED
      BY <2>3, <2>5, <3>1 DEF MarkReady, Finished
  <2>6. QED
    BY <1>4, <2>1, <2>2, <2>4, <2>5 DEF Build
<1>5. QED
  BY <1>2, <1>3, <1>4 DEF Next

\* Exports implements the lifecycle that ExecutionLifecycle promises, for
\* every set of faults (build_export skips a row that has finished).
THEOREM ExportsRefineLifecycle == Spec => RefinesLifecycle
<1>1. Init => Lifecycle!Init
  BY DEF Init, Lifecycle!Init, Life, Committed
<1>2. QED
  BY <1>1, StepLife, IndInvHolds, PTL DEF Spec, RefinesLifecycle, Lifecycle!Spec
=============================================================================
