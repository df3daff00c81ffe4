-------------------------- MODULE ExecutionsProofs --------------------------
(***************************************************************************)
(* Proofs about Executions, for any number of companies, schedules, API    *)
(* requests, schedulers, workers and executions: the rows and their jobs,  *)
(* then the schedulers and their locks, then the life of an execution.     *)
(***************************************************************************)
EXTENDS Executions, TLAPS

USE DEF Procs, Execs

\* The operations on the shared stores keep their types.
LEMMA InsertRowType ==
    ASSUME StoreTypeOK, NEW p \in Procs, NEW c \in Companies, NEW k \in Keys,
           InsertRow(p, c, k)
    PROVE  StoreTypeOK'
<1> USE StoreAssumption DEF StoreTypeOK, InsertRow
<1> DEFINE e == issued + 1
<1>1. e \in Execs
  OBVIOUS
<1>2. [company |-> c, key |-> k, by |-> p] \in RowType
  BY DEF RowType
<1>3. status' \in [Execs -> Statuses]
  BY DEF Statuses
<1>4. row' \in [Execs -> RowType \cup {None}]
  <2> HIDE DEF RowType
  <2> QED
    BY <1>2
<1>5. txn' \in [Execs -> Procs \cup {None}]
  OBVIOUS
<1>6. issued' \in 0 .. MaxExecs
  OBVIOUS
<1>7. pending' \in [Procs -> SUBSET Execs]
  BY <1>1
<1>8. QED
  BY <1>3, <1>4, <1>5, <1>6, <1>7

LEMMA EnqueueType ==
    ASSUME StoreTypeOK, NEW p \in Procs, NEW e \in Execs, Enqueue(p, e)
    PROVE  StoreTypeOK'
<1> USE DEF StoreTypeOK, Enqueue
<1>1. status' \in [Execs -> Statuses]
  BY DEF Statuses, Terminal
<1>2. jobs' \in [Execs -> Nat]
  OBVIOUS
<1>3. pending' \in [Procs -> SUBSET Execs]
  OBVIOUS
<1>4. QED
  BY <1>1, <1>2, <1>3

\* Every variable stays in its type; the lemma the other proofs start from.
LEMMA StepTypeOK == TypeOK /\ [Next]_vars => TypeOK'
<1> SUFFICES ASSUME TypeOK, [Next]_vars PROVE TypeOK'
  OBVIOUS
<1> USE StoreAssumption, SchedulerAssumption, ApiAssumption
        DEF TypeOK, StoreTypeOK, SchedTypeOK, ApiTypeOK, WorkTypeOK,
            Statuses, Terminal, storeVars, schedVars, apiVars, workVars
<1>1. CASE Clock
  BY <1>1 DEF Clock, BecomeDue
<1>2. ASSUME NEW p \in Schedulers, Scheduling(p) PROVE TypeOK'
  <2> USE <1>2 DEF Scheduling
  <2>1. CASE TickStart(p)
    BY <2>1 DEF TickStart
  <2>2. ASSUME NEW s \in Schedules, OpenSchedule(p, s) PROVE TypeOK'
    BY <2>2 DEF OpenSchedule
  <2>3. ASSUME NEW c \in Companies, LockCompany(p, c) PROVE TypeOK'
    BY <2>3 DEF LockCompany
  <2>4. ASSUME NEW c \in Companies, CheckAndInsert(p, c) PROVE TypeOK'
    <3>1. StoreTypeOK'
      <4>1. CASE InsertRow(p, c, SchedKey)
        BY <4>1, InsertRowType
      <4>2. CASE UNCHANGED storeVars
        BY <4>2
      <4>3. QED
        BY <2>4, <4>1, <4>2 DEF CheckAndInsert
    <3>2. SchedTypeOK' /\ ApiTypeOK' /\ WorkTypeOK'
      BY <2>4 DEF CheckAndInsert
    <3>3. QED
      BY <3>1, <3>2
  <2>5. ASSUME NEW e \in Execs, EnqueueScheduled(p, e) PROVE TypeOK'
    <3>1. StoreTypeOK'
      BY <2>5, EnqueueType DEF EnqueueScheduled, Procs
    <3>2. SchedTypeOK' /\ ApiTypeOK' /\ WorkTypeOK'
      BY <2>5 DEF EnqueueScheduled, Enqueue
    <3>3. QED
      BY <3>1, <3>2
  <2>6. CASE CommitSchedule(p)
    BY <2>6 DEF CommitSchedule, Commit, ReleaseLocks, AfterSchedule
  <2>7. CASE TickEnd(p)
    BY <2>7 DEF TickEnd
  <2>8. ASSUME NEW s \in Schedules, SkipSchedule(p, s) PROVE TypeOK'
    BY <2>8 DEF SkipSchedule
  <2>9. CASE TickAbort(p)
    BY <2>9 DEF TickAbort, Rollback, ReleaseLocks
  <2>10. QED
    BY <2>1, <2>2, <2>3, <2>4, <2>5, <2>6, <2>7, <2>8, <2>9
       DEF SchedulerStep, SchedulerFault
<1>3. ASSUME NEW r \in Clients, Serving(r) PROVE TypeOK'
  <2> USE <1>3 DEF Serving
  <2>1. ASSUME NEW cs \in SUBSET Companies, NEW k \in ApiKeys, RequestStart(r, cs, k)
        PROVE  TypeOK'
    BY <2>1 DEF RequestStart
  <2>2. ASSUME NEW c \in Companies, RequestInsert(r, c) PROVE TypeOK'
    <3>1. StoreTypeOK'
      <4>1. ASSUME InsertRow(r, c, reqKey[r]) PROVE StoreTypeOK'
        BY <4>1, <2>2, InsertRowType DEF RequestInsert
      <4>2. CASE UNCHANGED storeVars
        BY <4>2
      <4>3. QED
        BY <2>2, <4>1, <4>2 DEF RequestInsert
    <3>2. SchedTypeOK' /\ ApiTypeOK' /\ WorkTypeOK'
      BY <2>2 DEF RequestInsert
    <3>3. QED
      BY <3>1, <3>2
  <2>3. ASSUME NEW e \in Execs, RequestEnqueue(r, e) PROVE TypeOK'
    <3>1. StoreTypeOK'
      BY <2>3, EnqueueType DEF RequestEnqueue, Procs
    <3>2. SchedTypeOK' /\ ApiTypeOK' /\ WorkTypeOK'
      BY <2>3 DEF RequestEnqueue, Enqueue
    <3>3. QED
      BY <3>1, <3>2
  <2>4. CASE RequestCommit(r)
    BY <2>4 DEF RequestCommit, Commit
  <2>5. CASE RequestAbort(r)
    BY <2>5 DEF RequestAbort, Rollback
  <2>6. QED
    BY <2>1, <2>2, <2>3, <2>4, <2>5 DEF RequestStep
<1>4. ASSUME NEW w \in Workers, Working(w) PROVE TypeOK'
  <2> USE <1>4 DEF Working, SetStatus, JobReturns, JobRaises
  <2>1. ASSUME NEW e \in Execs, Pick(w, e) PROVE TypeOK'
    <3>1. StoreTypeOK'
      BY <2>1 DEF Pick
    <3>2. WorkTypeOK'
      BY <2>1 DEF Pick
    <3>3. SchedTypeOK' /\ ApiTypeOK'
      BY <2>1 DEF Pick
    <3>4. QED
      BY <3>1, <3>2, <3>3
  <2>2. CASE LoadContext(w)
    <3>1. CASE JobReturns(w) /\ UNCHANGED storeVars
      BY <2>2, <3>1 DEF LoadContext
    <3>2. CASE workPc' = [workPc EXCEPT ![w] = "loaded"]
               /\ UNCHANGED <<workOn, failedReg, finishedReg, storeVars>>
      BY <2>2, <3>2 DEF LoadContext
    <3>3. QED
      BY <2>2, <3>1, <3>2 DEF LoadContext
  <2>3. CASE MarkRunning(w)
    BY <2>3 DEF MarkRunning
  <2>4. ASSUME NEW st \in Terminal, FinishJob(w, st) PROVE TypeOK'
    BY <2>4 DEF FinishJob
  <2>5. CASE FailJob(w)
    BY <2>5 DEF FailJob
  <2>6. CASE JobDies(w)
    BY <2>6 DEF JobDies
  <2>7. QED
    BY <2>1, <2>2, <2>3, <2>4, <2>5, <2>6 DEF WorkerStep
<1>5. CASE Operating
  <2>1. ASSUME NEW e \in Execs, Requeue(e) PROVE TypeOK'
    <3>1. /\ jobs' \in [Execs -> Nat] /\ failedReg' \subseteq Execs
          /\ UNCHANGED <<status, row, txn, issued, pending, cred>>
          /\ UNCHANGED <<workPc, workOn, finishedReg>>
      BY <2>1 DEF Requeue
    <3>2. UNCHANGED <<schedVars, apiVars>>
      BY <1>5 DEF Operating
    <3>3. QED
      BY <3>1, <3>2
  <2>2. ASSUME NEW e \in Execs, MarkAbandoned(e) PROVE TypeOK'
    BY <1>5, <2>2 DEF Operating, MarkAbandoned, SetStatus
  <2>3. ASSUME NEW c \in Companies, ToggleCredential(c) PROVE TypeOK'
    BY <1>5, <2>3 DEF Operating, ToggleCredential
  <2>4. QED
    BY <1>5, <2>1, <2>2, <2>3 DEF Operating
<1>6. CASE UNCHANGED vars
  BY <1>6 DEF vars
<1>7. QED
  BY <1>1, <1>2, <1>3, <1>4, <1>5, <1>6 DEF Next

LEMMA InitTypeOK == Init => TypeOK
  BY StoreAssumption, SchedulerAssumption
     DEF Init, StoreInit, SchedInit, ApiInit, WorkInit, TypeOK, StoreTypeOK,
         SchedTypeOK, ApiTypeOK, WorkTypeOK, Statuses, Terminal

\* Type correctness: every reachable state assigns each column, lock, job
\* counter and program point a value the code can give it.
THEOREM TypeCorrect == Spec => []TypeOK
  BY InitTypeOK, StepTypeOK, PTL DEF Spec

-----------------------------------------------------------------------------
\* e has never been in Redis.
Fresh(e) ==
    /\ jobs[e] = 0
    /\ \A w \in Workers : workOn[w] # e
    /\ e \notin failedReg \cup finishedReg

\* The job of e is in one place of RQ.
JobOK(e) ==
    /\ jobs[e] \in {0, 1}
    /\ jobs[e] = 1 => \A w \in Workers : workOn[w] # e
    /\ jobs[e] = 1 => e \notin failedReg \cup finishedReg
    /\ \A w \in Workers : workOn[w] = e => e \notin failedReg \cup finishedReg
    /\ e \notin failedReg \cap finishedReg
    /\ \A v, w \in Workers : workOn[v] = e /\ workOn[w] = e => v = w

\* A row that is queued, committed or not, has been in Redis unless the
\* transaction that inserted it has still to enqueue it; ids that have not
\* been handed out have left no trace.
RowOK(e) ==
    /\ e > issued => Fresh(e) /\ status[e] = "absent" /\ txn[e] = None
    /\ status[e] = "queued" => ~Fresh(e) \/ (txn[e] # None /\ e \in pending[txn[e]])

\* What a transaction has still to enqueue is its own and new to Redis.
PendingOK(p) ==
    \A e \in pending[p] :
        e <= issued /\ txn[e] = p /\ status[e] = "queued" /\ Fresh(e)

\* A scheduler enqueues a row right after it has inserted it.
TickOK(p) ==
    /\ tickPc[p] # "enqueue" => pending[p] = {}
    /\ \A e, f \in pending[p] : e = f

WorkerOK(w) == workPc[w] = "idle" => workOn[w] = None

QueueOK ==
    /\ \A e \in Execs : JobOK(e) /\ RowOK(e)
    /\ \A p \in Procs : PendingOK(p)

QueueInv ==
    /\ TypeOK
    /\ QueueOK
    /\ \A p \in Schedulers : TickOK(p)
    /\ \A w \in Workers : WorkerOK(w)

LEMMA InitQueueInv == Init => QueueInv
<1> SUFFICES ASSUME Init PROVE QueueInv
  OBVIOUS
<1>1. TypeOK
  BY InitTypeOK
<1>2. QED
  BY <1>1, StoreAssumption
     DEF Init, StoreInit, SchedInit, ApiInit, WorkInit, QueueInv, QueueOK, JobOK, RowOK, Fresh,
         PendingOK, TickOK, WorkerOK

\* The operations on the stores keep the queue in order.
LEMMA InsertQueue ==
    ASSUME QueueInv, NEW p \in Procs, NEW c \in Companies, NEW k \in Keys,
           InsertRow(p, c, k), UNCHANGED workVars
    PROVE  QueueOK'
<1> USE StoreAssumption
        DEF QueueInv, QueueOK, TypeOK, StoreTypeOK, WorkTypeOK, workVars, InsertRow, Fresh
<1>1. ASSUME NEW e \in Execs PROVE JobOK(e)'
  BY DEF JobOK
<1>2. ASSUME NEW e \in Execs PROVE RowOK(e)'
  <2>1. CASE e = issued + 1
    BY <2>1 DEF RowOK
  <2>2. CASE e # issued + 1
    BY <2>2 DEF RowOK
  <2>3. QED
    BY <2>1, <2>2
<1>3. ASSUME NEW q \in Procs, NEW e \in pending'[q] PROVE e <= issued' /\ txn'[e] = q /\ status'[e] = "queued" /\ Fresh(e)'
  <2>1. CASE e = issued + 1
    <3>1. e \in Execs /\ e > issued
      BY <2>1
    <3>2. q = p
      BY <2>1, <3>1 DEF PendingOK
    <3>3. Fresh(e)
      BY <3>1 DEF RowOK
    <3>4. QED
      BY <2>1, <3>1, <3>2, <3>3
  <2>2. CASE e # issued + 1
    BY <2>2 DEF PendingOK
  <2>3. QED
    BY <2>1, <2>2
<1>4. QED
  BY <1>1, <1>2, <1>3 DEF PendingOK

LEMMA EnqueueQueue ==
    ASSUME QueueInv, NEW p \in Procs, NEW x \in pending[p], Enqueue(p, x),
           UNCHANGED workVars
    PROVE  QueueOK'
<1> USE StoreAssumption
        DEF QueueInv, QueueOK, TypeOK, StoreTypeOK, WorkTypeOK, workVars, Enqueue, Fresh
<1>1. /\ x \in Execs /\ x <= issued /\ txn[x] = p /\ Fresh(x)
      /\ \A q \in Procs : x \in pending[q] => q = p
  BY DEF PendingOK
<1>2. jobs'[x] \in {0, 1} /\ \A e \in Execs : e # x => jobs'[e] = jobs[e]
  BY <1>1
<1>3. /\ jobs'[x] = 1 \/ status'[x] # "queued"
      /\ \A e \in Execs : e # x => status'[e] = status[e]
  BY <1>1
<1>4. ASSUME NEW e \in Execs PROVE JobOK(e)'
  BY <1>1, <1>2 DEF JobOK
<1>5. ASSUME NEW e \in Execs PROVE RowOK(e)'
  <2>1. CASE e = x
    BY <2>1, <1>1, <1>2, <1>3 DEF RowOK
  <2>2. CASE e # x
    <3>1. pending'[p] = pending[p] \ {x} /\ \A q \in Procs : q # p => pending'[q] = pending[q]
      OBVIOUS
    <3>2. QED
      BY <2>2, <3>1, <1>2, <1>3 DEF RowOK
  <2>3. QED
    BY <2>1, <2>2
<1>6. ASSUME NEW q \in Procs, NEW e \in pending'[q]
      PROVE  e <= issued' /\ txn'[e] = q /\ status'[e] = "queued" /\ Fresh(e)'
  <2>1. e \in pending[q] /\ e \in Execs /\ e # x
    BY <1>1
  <2>2. QED
    BY <2>1, <1>2, <1>3 DEF PendingOK
<1>7. QED
  BY <1>4, <1>5, <1>6 DEF PendingOK

LEMMA CommitQueue ==
    ASSUME QueueInv, NEW p \in Procs, Commit(p), pending[p] = {}, UNCHANGED workVars
    PROVE  QueueOK'
<1> USE StoreAssumption
        DEF QueueInv, QueueOK, TypeOK, StoreTypeOK, WorkTypeOK, workVars, Commit, Fresh
<1>1. ASSUME NEW e \in Execs PROVE JobOK(e)'
  BY DEF JobOK
<1>2. ASSUME NEW e \in Execs PROVE RowOK(e)'
  BY DEF RowOK
<1>3. ASSUME NEW q \in Procs PROVE PendingOK(q)'
  BY DEF PendingOK
<1>4. QED
  BY <1>1, <1>2, <1>3

LEMMA RollbackQueue ==
    ASSUME QueueInv, NEW p \in Procs, Rollback(p), UNCHANGED workVars
    PROVE  QueueOK'
<1> USE StoreAssumption
        DEF QueueInv, QueueOK, TypeOK, StoreTypeOK, WorkTypeOK, workVars, Rollback, Fresh
<1>1. ASSUME NEW e \in Execs PROVE JobOK(e)'
  BY DEF JobOK
<1>2. ASSUME NEW e \in Execs PROVE RowOK(e)'
  BY DEF RowOK
<1>3. ASSUME NEW q \in Procs PROVE PendingOK(q)'
  BY DEF PendingOK
<1>4. QED
  BY <1>1, <1>2, <1>3

LEMMA FrameQueue ==
    ASSUME QueueInv, UNCHANGED <<status, txn, issued, pending, jobs, workVars>>
    PROVE  QueueOK'
BY DEF QueueInv, QueueOK, JobOK, RowOK, PendingOK, Fresh, workVars

\* A status that is not "queued" is written to a row whose job has left the
\* queue, or to a committed row: nobody has it to enqueue.
LEMMA StatusQueue ==
    ASSUME QueueInv, NEW x \in Execs, NEW st \in Statuses, st # "queued", SetStatus(x, st),
           x <= issued, \A p \in Procs : x \notin pending[p], UNCHANGED workVars
    PROVE  QueueOK'
<1> USE StoreAssumption
        DEF QueueInv, QueueOK, TypeOK, StoreTypeOK, WorkTypeOK, workVars, SetStatus, Fresh
<1>1. ASSUME NEW e \in Execs PROVE JobOK(e)'
  BY DEF JobOK
<1>2. ASSUME NEW e \in Execs PROVE RowOK(e)'
  BY DEF RowOK
<1>3. ASSUME NEW q \in Procs PROVE PendingOK(q)'
  BY DEF PendingOK
<1>4. QED
  BY <1>1, <1>2, <1>3

\* A worker lets go of its job, which goes to one of the registries; the
\* row keeps its status or gets one that is not "queued".
LEMMA ReleaseQueue ==
    ASSUME QueueInv, NEW w \in Workers, NEW x \in Execs, x = workOn[w],
           JobReturns(w) \/ JobRaises(w), UNCHANGED <<txn, issued, pending, jobs>>,
           UNCHANGED status \/ \E st \in Statuses \ {"queued"} : SetStatus(x, st)
    PROVE  QueueOK'
<1> USE StoreAssumption
        DEF QueueInv, QueueOK, TypeOK, StoreTypeOK, WorkTypeOK, JobReturns, JobRaises
<1>1. /\ ~Fresh(x) /\ ~Fresh(x)'
      /\ \A e \in Execs : e # x => (e \in failedReg' <=> e \in failedReg)
                                 /\ (e \in finishedReg' <=> e \in finishedReg)
      /\ \A v \in Workers : v # w => workOn'[v] = workOn[v]
      /\ workOn'[w] = None
  BY DEF Fresh
<1>2. /\ status'[x] # "queued" \/ status'[x] = status[x]
      /\ \A e \in Execs : e # x => status'[e] = status[e]
  BY <1>1 DEF SetStatus
<1>3. x <= issued /\ \A p \in Procs : x \notin pending[p]
  BY <1>1 DEF RowOK, PendingOK
<1>4. ASSUME NEW e \in Execs PROVE JobOK(e)'
  <2>1. \A v \in Workers : workOn'[v] = e => v # w /\ workOn[v] = e
    BY <1>1
  <2>2. CASE e = x
    BY <2>1, <2>2, <1>1 DEF JobOK
  <2>3. CASE e # x
    BY <2>1, <2>3, <1>1 DEF JobOK
  <2>4. QED
    BY <2>2, <2>3
<1>5. ASSUME NEW e \in Execs, e # x PROVE Fresh(e)' <=> Fresh(e)
  BY <1>1, <1>5 DEF Fresh
<1>6. ASSUME NEW e \in Execs PROVE RowOK(e)'
  <2>1. CASE e = x
    BY <2>1, <1>1, <1>3 DEF RowOK
  <2>2. CASE e # x
    BY <2>2, <1>2, <1>5 DEF RowOK
  <2>3. QED
    BY <2>1, <2>2
<1>7. ASSUME NEW q \in Procs PROVE PendingOK(q)'
  BY <1>2, <1>3, <1>5 DEF PendingOK
<1>8. QED
  BY <1>4, <1>6, <1>7

LEMMA PickQueue ==
    ASSUME QueueInv, NEW w \in Workers, NEW x \in Execs, Pick(w, x)
    PROVE  QueueOK'
<1> USE StoreAssumption
        DEF QueueInv, QueueOK, TypeOK, StoreTypeOK, WorkTypeOK, Pick
<1>1. /\ jobs[x] = 1 /\ jobs'[x] = 0 /\ workOn[w] = None /\ workOn'[w] = x
      /\ \A e \in Execs : e # x => jobs'[e] = jobs[e]
      /\ \A v \in Workers : v # w => workOn'[v] = workOn[v]
  BY DEF JobOK, WorkerOK
<1>2. /\ x <= issued /\ ~Fresh(x) /\ ~Fresh(x)'
      /\ \A p \in Procs : x \notin pending[p]
  BY <1>1 DEF RowOK, PendingOK, Fresh
<1>3. ASSUME NEW e \in Execs PROVE JobOK(e)'
  BY <1>1 DEF JobOK
<1>4. ASSUME NEW e \in Execs, e # x PROVE Fresh(e)' <=> Fresh(e)
  BY <1>1, <1>4 DEF Fresh
<1>5. ASSUME NEW e \in Execs PROVE RowOK(e)'
  BY <1>2, <1>4 DEF RowOK
<1>6. ASSUME NEW q \in Procs PROVE PendingOK(q)'
  BY <1>2, <1>4 DEF PendingOK
<1>7. QED
  BY <1>3, <1>5, <1>6

LEMMA RequeueQueue ==
    ASSUME QueueInv, NEW x \in Execs, Requeue(x)
    PROVE  QueueOK'
<1> USE StoreAssumption
        DEF QueueInv, QueueOK, TypeOK, StoreTypeOK, WorkTypeOK, Requeue
<1>1. /\ jobs[x] = 0 /\ jobs'[x] = 1
      /\ \A e \in Execs : e # x => jobs'[e] = jobs[e]
      /\ \A v \in Workers : workOn[v] # x
  BY DEF JobOK
<1>2. /\ x <= issued /\ ~Fresh(x) /\ ~Fresh(x)'
      /\ \A p \in Procs : x \notin pending[p]
  BY <1>1 DEF RowOK, PendingOK, Fresh
<1>3. ASSUME NEW e \in Execs PROVE JobOK(e)'
  BY <1>1 DEF JobOK
<1>4. ASSUME NEW e \in Execs, e # x PROVE Fresh(e)' <=> Fresh(e)
  BY <1>1, <1>4 DEF Fresh
<1>5. ASSUME NEW e \in Execs PROVE RowOK(e)'
  BY <1>2, <1>4 DEF RowOK
<1>6. ASSUME NEW q \in Procs PROVE PendingOK(q)'
  BY <1>2, <1>4 DEF PendingOK
<1>7. QED
  BY <1>3, <1>5, <1>6

\* QueueInv is inductive: one step per action that touches the queue, the
\* rows or what is still to be enqueued.
LEMMA StepQueueOK == QueueInv /\ [Next]_vars => QueueOK'
<1> SUFFICES ASSUME QueueInv, [Next]_vars PROVE QueueOK'
  OBVIOUS
<1> USE DEF storeVars, workVars
<1>1. CASE Clock
  BY <1>1, FrameQueue DEF Clock, BecomeDue
<1>2. ASSUME NEW p \in Schedulers, Scheduling(p) PROVE QueueOK'
  <2> USE <1>2 DEF Scheduling
  <2>1. CASE TickStart(p) \/ TickEnd(p) \/ \E s \in Schedules : OpenSchedule(p, s) \/ SkipSchedule(p, s)
    BY <2>1, FrameQueue DEF TickStart, TickEnd, OpenSchedule, SkipSchedule
  <2>2. ASSUME NEW c \in Companies, LockCompany(p, c) PROVE QueueOK'
    BY <2>2, FrameQueue DEF LockCompany
  <2>3. ASSUME NEW c \in Companies, CheckAndInsert(p, c) PROVE QueueOK'
    BY <2>3, FrameQueue, InsertQueue, StoreAssumption DEF CheckAndInsert
  <2>4. ASSUME NEW e \in Execs, EnqueueScheduled(p, e) PROVE QueueOK'
    BY <2>4, EnqueueQueue DEF EnqueueScheduled
  <2>5. CASE CommitSchedule(p)
    BY <2>5, CommitQueue DEF CommitSchedule, QueueInv, TickOK
  <2>6. CASE TickAbort(p)
    BY <2>6, RollbackQueue DEF TickAbort
  <2>7. QED
    BY <2>1, <2>2, <2>3, <2>4, <2>5, <2>6 DEF SchedulerStep, SchedulerFault
<1>3. ASSUME NEW r \in Clients, Serving(r) PROVE QueueOK'
  <2> USE <1>3 DEF Serving
  <2>1. ASSUME NEW cs \in SUBSET Companies, NEW k \in ApiKeys, RequestStart(r, cs, k)
        PROVE  QueueOK'
    BY <2>1, FrameQueue DEF RequestStart
  <2>2. ASSUME NEW c \in Companies, RequestInsert(r, c) PROVE QueueOK'
    <3>1. reqKey[r] \in Keys
      BY <2>2 DEF RequestInsert, QueueInv, TypeOK, ApiTypeOK
    <3>2. QED
      BY <2>2, <3>1, FrameQueue, InsertQueue DEF RequestInsert
  <2>3. ASSUME NEW e \in Execs, RequestEnqueue(r, e) PROVE QueueOK'
    BY <2>3, EnqueueQueue DEF RequestEnqueue
  <2>4. CASE RequestCommit(r)
    BY <2>4, CommitQueue DEF RequestCommit
  <2>5. CASE RequestAbort(r)
    BY <2>5, RollbackQueue DEF RequestAbort
  <2>6. QED
    BY <2>1, <2>2, <2>3, <2>4, <2>5 DEF RequestStep
<1>4. ASSUME NEW w \in Workers, Working(w) PROVE QueueOK'
  <2> USE <1>4 DEF Working
  <2>1. ASSUME NEW e \in Execs, Pick(w, e) PROVE QueueOK'
    BY <2>1, PickQueue
  <2>2. ASSUME workPc[w] # "idle" PROVE workOn[w] \in Execs
    BY <2>2 DEF QueueInv, TypeOK, WorkTypeOK
  <2>3. CASE LoadContext(w)
    <3>1. workOn[w] \in Execs
      BY <2>2, <2>3 DEF LoadContext
    <3>2. CASE JobReturns(w) /\ UNCHANGED storeVars
      BY <3>1, <3>2, ReleaseQueue
    <3>3. CASE /\ workPc' = [workPc EXCEPT ![w] = "loaded"]
               /\ UNCHANGED <<workOn, failedReg, finishedReg, storeVars>>
      BY <3>3 DEF QueueInv, QueueOK, JobOK, RowOK, PendingOK, Fresh
    <3>4. QED
      BY <2>3, <3>2, <3>3 DEF LoadContext
  <2>4. CASE MarkRunning(w)
    <3>1. workOn[w] \in Execs
      BY <2>2, <2>4 DEF MarkRunning
    <3>2. PICK x \in Execs : x = workOn[w]
      BY <3>1
    <3>3. x <= issued /\ \A q \in Procs : x \notin pending[q]
      <4>1. ~Fresh(x)
        BY <3>2 DEF Fresh
      <4>2. \A q \in Procs : x \notin pending[q]
        BY <4>1 DEF QueueInv, QueueOK, PendingOK
      <4>3. x <= issued
        BY <4>1, StoreAssumption DEF QueueInv, QueueOK, RowOK, TypeOK, StoreTypeOK
      <4>4. QED
        BY <4>2, <4>3
    <3>4. /\ status' = [status EXCEPT ![x] = "running"]
          /\ UNCHANGED <<txn, issued, pending, jobs, workOn, failedReg, finishedReg>>
      BY <2>4, <3>2 DEF MarkRunning, SetStatus
    <3>5. ASSUME NEW e \in Execs PROVE JobOK(e)' /\ RowOK(e)'
      BY <3>3, <3>4 DEF QueueInv, QueueOK, JobOK, RowOK, Fresh, TypeOK, StoreTypeOK
    <3>6. ASSUME NEW q \in Procs PROVE PendingOK(q)'
      BY <3>3, <3>4 DEF QueueInv, QueueOK, PendingOK, Fresh, TypeOK, StoreTypeOK
    <3>7. QED
      BY <3>5, <3>6 DEF QueueOK
  <2>5. ASSUME NEW st \in Terminal, FinishJob(w, st) PROVE QueueOK'
    BY <2>2, <2>5, ReleaseQueue DEF FinishJob, SetStatus, Statuses, Terminal
  <2>6. CASE FailJob(w)
    BY <2>2, <2>6, ReleaseQueue DEF FailJob, SetStatus, Statuses, Terminal
  <2>7. CASE JobDies(w)
    BY <2>2, <2>7, ReleaseQueue DEF JobDies
  <2>8. QED
    BY <2>1, <2>3, <2>4, <2>5, <2>6, <2>7 DEF WorkerStep
<1>5. CASE Operating
  <2>1. ASSUME NEW e \in Execs, Requeue(e) PROVE QueueOK'
    BY <2>1, RequeueQueue
  <2>2. ASSUME NEW e \in Execs, MarkAbandoned(e) PROVE QueueOK'
    <3>1. e <= issued /\ \A p \in Procs : e \notin pending[p]
      BY <2>2, StoreAssumption
         DEF MarkAbandoned, Committed, QueueInv, QueueOK, RowOK, PendingOK, TypeOK, StoreTypeOK
    <3>2. QED
      BY <2>2, <3>1, StatusQueue DEF MarkAbandoned, Statuses, Terminal
  <2>3. ASSUME NEW c \in Companies, ToggleCredential(c) PROVE QueueOK'
    BY <2>3, FrameQueue DEF ToggleCredential
  <2>4. QED
    BY <1>5, <2>1, <2>2, <2>3 DEF Operating
<1>6. CASE UNCHANGED vars
  BY <1>6, FrameQueue DEF vars
<1>7. QED
  BY <1>1, <1>2, <1>3, <1>4, <1>5, <1>6 DEF Next

\* A scheduler has a row to enqueue only in the step between its INSERT and
\* its enqueue; a worker without a job holds none.
LEMMA StepTickOK == QueueInv /\ [Next]_vars => \A p \in Schedulers : TickOK(p)'
<1> SUFFICES ASSUME QueueInv, [Next]_vars, NEW q \in Schedulers PROVE TickOK(q)'
  OBVIOUS
<1> USE StoreAssumption DEF storeVars, workVars, QueueInv, TypeOK, StoreTypeOK, SchedTypeOK, TickOK
<1>1. CASE Clock \/ UNCHANGED vars
  <2>1. UNCHANGED <<pending, tickPc>>
    BY <1>1 DEF Clock, BecomeDue, vars, schedVars
  <2>2. QED
    BY <2>1
<1>2. ASSUME NEW p \in Schedulers, Scheduling(p) PROVE TickOK(q)'
  <2> USE <1>2 DEF Scheduling
  <2>1. CASE TickStart(p) \/ TickEnd(p) \/ \E s \in Schedules : OpenSchedule(p, s) \/ SkipSchedule(p, s)
    <3>1. /\ UNCHANGED pending
          /\ \/ UNCHANGED tickPc
             \/ \E pc \in {"scan", "lock", "idle"} : tickPc' = [tickPc EXCEPT ![p] = pc]
      <4>1. CASE TickStart(p)
        BY <4>1 DEF TickStart
      <4>2. CASE TickEnd(p)
        BY <4>2 DEF TickEnd
      <4>3. ASSUME NEW s \in Schedules, OpenSchedule(p, s)
            PROVE  UNCHANGED pending /\ tickPc' = [tickPc EXCEPT ![p] = "lock"]
        BY <4>3 DEF OpenSchedule
      <4>4. ASSUME NEW s \in Schedules, SkipSchedule(p, s) PROVE UNCHANGED <<pending, tickPc>>
        BY <4>4 DEF SkipSchedule
      <4>5. QED
        BY <2>1, <4>1, <4>2, <4>3, <4>4
    <3>2. tickPc[p] \in {"idle", "scan"} /\ pending[p] = {}
      BY <2>1 DEF TickStart, TickEnd, OpenSchedule, SkipSchedule
    <3>3. CASE UNCHANGED tickPc
      BY <3>1, <3>3
    <3>4. ASSUME NEW pc \in {"scan", "lock", "idle"}, tickPc' = [tickPc EXCEPT ![p] = pc] PROVE TickOK(q)'
      <4>1. tickPc'[q] = IF q = p THEN pc ELSE tickPc[q]
        BY <3>4
      <4>2. QED
        BY <3>1, <3>2, <4>1
    <3>5. QED
      BY <3>1, <3>3, <3>4, Zenon
  <2>2. ASSUME NEW c \in Companies, LockCompany(p, c) PROVE TickOK(q)'
    BY <2>2 DEF LockCompany
  <2>3. ASSUME NEW c \in Companies, CheckAndInsert(p, c) PROVE TickOK(q)'
    <3>1. pending[p] = {} /\ p \in Procs /\ q \in Procs
      BY <2>3 DEF CheckAndInsert
    <3>2. CASE UNCHANGED storeVars /\ tickPc' = [tickPc EXCEPT ![p] = "lock"]
      BY <3>1, <3>2
    <3>3. CASE InsertRow(p, c, SchedKey) /\ tickPc' = [tickPc EXCEPT ![p] = "enqueue"]
      <4>1. /\ pending' = [pending EXCEPT ![p] = {issued + 1}]
            /\ tickPc' = [tickPc EXCEPT ![p] = "enqueue"]
        BY <3>1, <3>3 DEF InsertRow
      <4>2. QED
        BY <3>1, <4>1
    <3>4. QED
      BY <2>3, <3>2, <3>3 DEF CheckAndInsert
  <2>4. ASSUME NEW e \in Execs, EnqueueScheduled(p, e) PROVE TickOK(q)'
    BY <2>4 DEF EnqueueScheduled, Enqueue
  <2>5. CASE CommitSchedule(p)
    BY <2>5 DEF CommitSchedule, Commit, AfterSchedule
  <2>6. CASE TickAbort(p)
    BY <2>6 DEF TickAbort, Rollback
  <2>7. QED
    BY <2>1, <2>2, <2>3, <2>4, <2>5, <2>6 DEF SchedulerStep, SchedulerFault
<1>3. ASSUME NEW r \in Clients, Serving(r) PROVE TickOK(q)'
  <2>1. r # q /\ r \in Procs /\ q \in Procs
    OBVIOUS
  <2>2. UNCHANGED tickPc
    BY <1>3 DEF Serving, schedVars
  <2>3. UNCHANGED pending \/ \E ids : pending' = [pending EXCEPT ![r] = ids]
    <3>1. ASSUME NEW cs \in SUBSET Companies, NEW k \in ApiKeys, RequestStart(r, cs, k) PROVE UNCHANGED pending
      BY <3>1 DEF RequestStart
    <3>2. ASSUME NEW c \in Companies, RequestInsert(r, c)
          PROVE  UNCHANGED pending \/ pending' = [pending EXCEPT ![r] = @ \cup {issued + 1}]
      BY <3>2 DEF RequestInsert, InsertRow
    <3>3. ASSUME NEW e \in Execs, RequestEnqueue(r, e) PROVE pending' = [pending EXCEPT ![r] = @ \ {e}]
      BY <3>3 DEF RequestEnqueue, Enqueue
    <3>4. ASSUME RequestCommit(r) PROVE UNCHANGED pending
      BY <3>4 DEF RequestCommit, Commit
    <3>5. ASSUME RequestAbort(r) PROVE pending' = [pending EXCEPT ![r] = {}]
      BY <3>5 DEF RequestAbort, Rollback
    <3>6. QED
      BY <1>3, <3>1, <3>2, <3>3, <3>4, <3>5 DEF Serving, RequestStep
  <2>4. QED
    BY <2>1, <2>2, <2>3
<1>4. ASSUME NEW w \in Workers, Working(w) PROVE TickOK(q)'
  <2>1. UNCHANGED <<pending, tickPc>>
    BY <1>4 DEF Working, schedVars, WorkerStep, Pick, LoadContext, MarkRunning, FinishJob,
       FailJob, JobDies, SetStatus
  <2>2. QED
    BY <2>1
<1>5. CASE Operating
  <2>1. UNCHANGED <<pending, tickPc>>
    BY <1>5 DEF Operating, schedVars, Requeue, MarkAbandoned, SetStatus, ToggleCredential
  <2>2. QED
    BY <2>1
<1>6. QED
  BY <1>1, <1>2, <1>3, <1>4, <1>5 DEF Next

LEMMA StepWorkerOK == QueueInv /\ [Next]_vars => \A w \in Workers : WorkerOK(w)'
<1> SUFFICES ASSUME QueueInv, [Next]_vars, NEW v \in Workers PROVE WorkerOK(v)'
  OBVIOUS
<1> USE DEF storeVars, workVars, QueueInv, TypeOK, WorkTypeOK, WorkerOK
<1>1. CASE Clock \/ Operating \/ UNCHANGED vars
  BY <1>1 DEF Clock, Operating, Requeue, MarkAbandoned, ToggleCredential, vars
<1>2. ASSUME NEW p \in Schedulers, Scheduling(p) PROVE WorkerOK(v)'
  BY <1>2 DEF Scheduling
<1>3. ASSUME NEW r \in Clients, Serving(r) PROVE WorkerOK(v)'
  BY <1>3 DEF Serving
<1>4. ASSUME NEW w \in Workers, Working(w) PROVE WorkerOK(v)'
  BY <1>4 DEF Working, WorkerStep, Pick, LoadContext, MarkRunning, FinishJob,
       FailJob, JobDies, JobReturns, JobRaises
<1>5. QED
  BY <1>1, <1>2, <1>3, <1>4 DEF Next

LEMMA QueueAlwaysOK == Spec => []QueueInv
<1>1. QueueInv /\ [Next]_vars => QueueInv'
  BY StepTypeOK, StepQueueOK, StepTickOK, StepWorkerOK DEF QueueInv
<1>2. QED
  BY <1>1, InitQueueInv, PTL DEF Spec

\* Whatever is enqueued in doubt, requeued or killed, the job of an execution
\* is in one place: the queue, one worker, or one of RQ's registries.
THEOREM OneJobEach == Spec => []OneJobPerExecution
<1>1. QueueInv => OneJobPerExecution
  BY DEF QueueInv, QueueOK, JobOK, OneJobPerExecution
<1>2. QED
  BY <1>1, QueueAlwaysOK, PTL

\* No transaction commits a queued row that was not handed to Redis.
THEOREM QueuedRowsHaveJobs == Spec => []QueuedRowHasJob
<1>1. QueueInv => QueuedRowHasJob
  BY DEF QueueInv, QueueOK, JobOK, RowOK, Fresh, QueuedRowHasJob, Committed
<1>2. QED
  BY <1>1, QueueAlwaysOK, PTL

-----------------------------------------------------------------------------
(* The locks, and the rows as readers see them.                             *)

\* A scheduler holds locks inside a transaction only, and only of companies
\* before those it has still to visit; the company it is about to check is
\* the one it has locked last.
LockOK(p) ==
    /\ \A d \in Companies :
          lock[d] = p =>
              /\ InTx(p)
              /\ \A c \in todo[p] : d < c \/ (d = c /\ tickPc[p] = "check")
    /\ tickPc[p] = "check" => \A c \in Companies : IsNext(p, c) => lock[c] = p

LockInv == TypeOK /\ \A p \in Schedulers : LockOK(p)

\* Only a scheduler's own steps touch its locks and its todo list.
LEMMA OthersKeepLocks ==
    ASSUME LockInv, UNCHANGED <<tickPc, todo, lock>>, NEW q \in Schedulers
    PROVE  LockOK(q)'
BY DEF LockInv, LockOK, InTx, IsNext

LEMMA StepLock ==
    ASSUME LockInv, NEW p \in Schedulers, Scheduling(p), NEW q \in Schedulers
    PROVE  LockOK(q)'
<1> USE StoreAssumption, SchedulerAssumption
        DEF LockInv, TypeOK, StoreTypeOK, SchedTypeOK, Scheduling
<1>1. CASE TickStart(p)
  BY <1>1 DEF TickStart, LockOK, InTx, IsNext
<1>2. CASE TickEnd(p)
  BY <1>2 DEF TickEnd, LockOK, InTx, IsNext
<1>3. ASSUME NEW s \in Schedules, OpenSchedule(p, s) PROVE LockOK(q)'
  BY <1>3 DEF OpenSchedule, LockOK, InTx, IsNext
<1>4. ASSUME NEW s \in Schedules, SkipSchedule(p, s) PROVE LockOK(q)'
  BY <1>4, OthersKeepLocks DEF SkipSchedule
<1>5. ASSUME NEW c \in Companies, LockCompany(p, c) PROVE LockOK(q)'
  <2>1. /\ tickPc[p] = "lock" /\ tickPc' = [tickPc EXCEPT ![p] = "check"]
        /\ lock[c] \in {None, p} /\ lock' = [lock EXCEPT ![c] = p] /\ UNCHANGED todo
        /\ c \in todo[p] /\ \A d \in todo[p] : c <= d
    BY <1>5 DEF LockCompany, IsNext
  <2>2. CASE q # p
    <3>1. /\ tickPc'[q] = tickPc[q] /\ todo'[q] = todo[q]
          /\ \A d \in Companies : lock'[d] = q <=> lock[d] = q
      BY <2>1, <2>2
    <3>2. QED
      BY <3>1 DEF LockOK, InTx, IsNext
  <2>3. CASE q = p
    <3>1. ASSUME NEW d \in Companies, lock'[d] = p, NEW x \in todo[p]
          PROVE  d < x \/ d = x
      <4>0. c <= x /\ c \in Nat /\ x \in Nat
        BY <2>1, <3>1
      <4>1. CASE d = c
        BY <4>0, <4>1
      <4>2. CASE d # c
        BY <2>1, <2>3, <3>1, <4>2 DEF LockOK
      <4>3. QED
        BY <4>1, <4>2
    <3>2. ASSUME NEW x \in Companies, x \in todo[p], \A d \in todo[p] : x <= d
          PROVE  x = c
      <4>1. x <= c /\ c <= x /\ x \in Nat /\ c \in Nat
        BY <2>1, <3>2
      <4>2. QED
        BY <4>1
    <3>3. QED
      BY <2>1, <2>3, <3>1, <3>2 DEF LockOK, InTx, IsNext
  <2>4. QED
    BY <2>2, <2>3
<1>6. ASSUME NEW c \in Companies, CheckAndInsert(p, c) PROVE LockOK(q)'
  <2>1. /\ tickPc[p] = "check" /\ UNCHANGED lock /\ todo' = [todo EXCEPT ![p] = @ \ {c}]
        /\ c \in todo[p] /\ \A d \in todo[p] : c <= d
    BY <1>6 DEF CheckAndInsert, IsNext
  <2>2. \E s \in {"lock", "enqueue"} : tickPc' = [tickPc EXCEPT ![p] = s]
    BY <1>6 DEF CheckAndInsert
  <2>3. CASE q # p
    <3>1. tickPc'[q] = tickPc[q] /\ todo'[q] = todo[q] /\ lock' = lock
      BY <2>1, <2>2, <2>3
    <3>2. QED
      BY <3>1 DEF LockOK, InTx, IsNext
  <2>4. CASE q = p
    <3>1. ASSUME NEW d \in Companies, lock[d] = p, NEW x \in todo[p] \ {c}
          PROVE  d < x
      <4>1. d < x \/ d = x
        BY <2>4, <3>1 DEF LockOK
      <4>2. d < c \/ d = c
        BY <2>1, <2>4, <3>1 DEF LockOK
      <4>3. c \in Nat /\ d \in Nat /\ x \in Nat
        BY <3>1
      <4>4. c <= x /\ x # c
        BY <2>1, <3>1
      <4> HIDE DEF LockInv, TypeOK, Scheduling
      <4>5. QED
        BY <4>1, <4>2, <4>3, <4>4
    <3>2. QED
      BY <2>1, <2>2, <2>4, <3>1 DEF LockOK, InTx
  <2>5. QED
    BY <2>3, <2>4
<1>7. ASSUME NEW e \in Execs, EnqueueScheduled(p, e) PROVE LockOK(q)'
  BY <1>7 DEF EnqueueScheduled, LockOK, InTx, IsNext
<1>8. CASE CommitSchedule(p)
  BY <1>8 DEF CommitSchedule, ReleaseLocks, AfterSchedule, LockOK, InTx, IsNext
<1>9. CASE TickAbort(p)
  BY <1>9 DEF TickAbort, ReleaseLocks, LockOK, InTx, IsNext
<1>10. QED
  BY <1>1, <1>2, <1>3, <1>4, <1>5, <1>6, <1>7, <1>8, <1>9
     DEF SchedulerStep, SchedulerFault

LEMMA LocksAlwaysOK == Spec => []LockInv
<1>1. Init => LockInv
  BY InitTypeOK, StoreAssumption DEF Init, SchedInit, LockInv, LockOK, InTx, IsNext
<1>2. LockInv /\ [Next]_vars => LockInv'
  <2> SUFFICES ASSUME LockInv, [Next]_vars PROVE LockInv'
    OBVIOUS
  <2>1. TypeOK'
    BY StepTypeOK DEF LockInv
  <2>2. ASSUME NEW q \in Schedulers PROVE LockOK(q)'
    <3>1. ASSUME NEW p \in Schedulers, Scheduling(p) PROVE LockOK(q)'
      BY <3>1, StepLock
    <3>2. CASE Clock \/ Operating \/ UNCHANGED vars
      BY <3>2, OthersKeepLocks DEF Clock, BecomeDue, Operating, vars, schedVars
    <3>3. ASSUME NEW r \in Clients, Serving(r) PROVE LockOK(q)'
      BY <3>3, OthersKeepLocks DEF Serving, schedVars
    <3>4. ASSUME NEW w \in Workers, Working(w) PROVE LockOK(q)'
      BY <3>4, OthersKeepLocks DEF Working, schedVars
    <3>5. QED
      BY <3>1, <3>2, <3>3, <3>4 DEF Next
  <2>3. QED
    BY <2>1, <2>2 DEF LockInv
<1>3. QED
  BY <1>1, <1>2, PTL DEF Spec

\* Two schedulers never wait for each other: each waits for a company after
\* all those it has locked.
THEOREM SchedulersNeverDeadlock == Spec => []NoLockCycle
<1>1. LockInv => NoLockCycle
  <2> SUFFICES ASSUME LockInv, NEW p \in Schedulers, NEW q \in Schedulers,
                      NEW c \in Companies, NEW d \in Companies,
                      Wants(p, c), lock[c] = q, Wants(q, d), lock[d] = p
               PROVE  FALSE
    BY DEF NoLockCycle
  <2>1. d < c
    BY DEF LockInv, LockOK, Wants, IsNext
  <2>2. c < d
    BY DEF LockInv, LockOK, Wants, IsNext
  <2>3. QED
    BY <2>1, <2>2, StoreAssumption
<1>2. QED
  BY <1>1, LocksAlwaysOK, PTL

-----------------------------------------------------------------------------
(* The lifecycle of a row, and the open rows a company can have, when no     *)
(* enqueue is doubtful and the operator does not requeue or abandon.         *)

NoLateJobs == Faults \cap {"ambiguous", "requeue", "abandon"} = {}

\* A job that waits was pushed for a row that has not moved since; a row
\* that is not committed was not run.
FlowOK(e) ==
    /\ jobs[e] > 0 => status[e] \in {"absent", "queued"}
    /\ status[e] # "absent" => row[e] \in RowType
    /\ txn[e] # None => /\ row[e] \in RowType
                        /\ row[e].by = txn[e]
                        /\ status[e] \in {"queued", "failed"}

\* What a worker knows of the row of its job, at each point of run_execution.
HoldOK(w) ==
    /\ workPc[w] = "picked" => status[workOn[w]] \in {"absent", "queued"}
    /\ workPc[w] = "loaded" => status[workOn[w]] = "queued" /\ txn[workOn[w]] = None
    /\ workPc[w] = "running" => status[workOn[w]] = "running" /\ txn[workOn[w]] = None

FlowInv ==
    /\ QueueInv
    /\ \A e \in Execs : FlowOK(e)
    /\ \A w \in Workers : HoldOK(w)

-----------------------------------------------------------------------------
\* What the steps of the processes are to the rows and jobs.
RowsStay ==
    UNCHANGED <<status, row, txn, issued, pending, jobs, workVars>>

Inserts ==
    /\ \E p \in Procs, c \in Companies, k \in Keys : InsertRow(p, c, k)
    /\ UNCHANGED workVars

Enqueues ==
    /\ \E p \in Procs : \E x \in pending[p] : Enqueue(p, x)
    /\ UNCHANGED workVars

Commits == (\E p \in Procs : Commit(p)) /\ UNCHANGED workVars

Rollbacks == (\E p \in Procs : Rollback(p)) /\ UNCHANGED workVars

WorkerMoves == \E w \in Workers : WorkerStep(w) \/ JobDies(w)

LEMMA SchedulerKinds ==
    ASSUME TypeOK, NEW p \in Schedulers, Scheduling(p)
    PROVE  RowsStay \/ Inserts \/ Enqueues \/ Commits \/ Rollbacks
<1> USE DEF Scheduling, storeVars, workVars
<1>1. CASE TickStart(p) \/ TickEnd(p) \/ \E s \in Schedules : OpenSchedule(p, s) \/ SkipSchedule(p, s)
  BY <1>1 DEF TickStart, TickEnd, OpenSchedule, SkipSchedule, RowsStay
<1>2. ASSUME NEW c \in Companies, LockCompany(p, c) PROVE RowsStay
  BY <1>2 DEF LockCompany, RowsStay
<1>3. ASSUME NEW c \in Companies, CheckAndInsert(p, c) PROVE RowsStay \/ Inserts
  <2>1. CASE UNCHANGED storeVars
    BY <2>1 DEF RowsStay
  <2>2. CASE InsertRow(p, c, SchedKey)
    BY <2>2, StoreAssumption DEF Inserts
  <2>3. QED
    BY <1>3, <2>1, <2>2 DEF CheckAndInsert
<1>4. ASSUME NEW e \in Execs, EnqueueScheduled(p, e) PROVE Enqueues
  BY <1>4 DEF EnqueueScheduled, Enqueues
<1>5. ASSUME CommitSchedule(p) PROVE Commits
  BY <1>5 DEF CommitSchedule, Commits
<1>6. ASSUME TickAbort(p) PROVE Rollbacks
  BY <1>6 DEF TickAbort, Rollbacks
<1>7. QED
  BY <1>1, <1>2, <1>3, <1>4, <1>5, <1>6 DEF SchedulerStep, SchedulerFault

LEMMA RequestKinds ==
    ASSUME TypeOK, NEW r \in Clients, Serving(r)
    PROVE  RowsStay \/ Inserts \/ Enqueues \/ Commits \/ Rollbacks
<1> USE DEF Serving, storeVars, workVars
<1>1. ASSUME NEW cs \in SUBSET Companies, NEW k \in ApiKeys, RequestStart(r, cs, k) PROVE RowsStay
  BY <1>1 DEF RequestStart, RowsStay
<1>2. ASSUME NEW c \in Companies, RequestInsert(r, c) PROVE RowsStay \/ Inserts
  <2>1. CASE UNCHANGED storeVars
    BY <2>1 DEF RowsStay
  <2>2. CASE InsertRow(r, c, reqKey[r])
    <3>1. reqKey[r] \in Keys
      BY <1>2 DEF RequestInsert, TypeOK, ApiTypeOK
    <3>2. QED
      BY <2>2, <3>1 DEF Inserts
  <2>3. UNCHANGED storeVars \/ InsertRow(r, c, reqKey[r])
    <3>1. IF HasOpenExecution(r, c, reqKey[r]) THEN UNCHANGED storeVars ELSE InsertRow(r, c, reqKey[r])
      BY <1>2, Zenon DEF RequestInsert
    <3>2. QED
      BY <3>1, Zenon
  <2>4. QED
    BY <2>1, <2>2, <2>3, Zenon
<1>3. ASSUME NEW e \in Execs, RequestEnqueue(r, e) PROVE Enqueues
  BY <1>3 DEF RequestEnqueue, Enqueues
<1>4. ASSUME RequestCommit(r) PROVE Commits
  BY <1>4 DEF RequestCommit, Commits
<1>5. ASSUME RequestAbort(r) PROVE Rollbacks
  BY <1>5 DEF RequestAbort, Rollbacks
<1>6. QED
  BY <1>1, <1>2, <1>3, <1>4, <1>5 DEF RequestStep

LEMMA StepKinds ==
    ASSUME NoLateJobs, TypeOK, [Next]_vars
    PROVE  RowsStay \/ Inserts \/ Enqueues \/ Commits \/ Rollbacks \/ WorkerMoves
<1>1. CASE Clock \/ UNCHANGED vars
  BY <1>1 DEF Clock, BecomeDue, vars, storeVars, RowsStay, workVars
<1>2. CASE Operating
  BY <1>2 DEF NoLateJobs, Operating, Requeue, MarkAbandoned, ToggleCredential, RowsStay
<1>3. ASSUME NEW p \in Schedulers, Scheduling(p)
      PROVE  RowsStay \/ Inserts \/ Enqueues \/ Commits \/ Rollbacks
  BY <1>3, SchedulerKinds
<1>4. ASSUME NEW r \in Clients, Serving(r)
      PROVE  RowsStay \/ Inserts \/ Enqueues \/ Commits \/ Rollbacks
  BY <1>4, RequestKinds
<1>5. ASSUME NEW w \in Workers, Working(w) PROVE WorkerMoves
  BY <1>5 DEF Working, WorkerMoves
<1>6. QED
  BY <1>1, <1>2, <1>3, <1>4, <1>5 DEF Next

-----------------------------------------------------------------------------
FlowsOK == (\A e \in Execs : FlowOK(e)) /\ (\A w \in Workers : HoldOK(w))

LEMMA InsertFlow == FlowInv /\ Inserts => FlowsOK'
<1> SUFFICES ASSUME FlowInv, Inserts PROVE FlowsOK'
  OBVIOUS
<1> USE StoreAssumption
        DEF FlowInv, FlowsOK, QueueInv, QueueOK, TypeOK, StoreTypeOK, WorkTypeOK, workVars, InsertRow
<1>1. PICK p \in Procs, c \in Companies, k \in Keys : InsertRow(p, c, k) /\ UNCHANGED workVars
  BY DEF Inserts
<1> DEFINE x == issued + 1
           new == [company |-> c, key |-> k, by |-> p]
<1>2. x \in Execs /\ jobs[x] = 0 /\ \A w \in Workers : workOn[w] # x
  <2>1. x \in Execs /\ x > issued
    BY <1>1
  <2>2. QED
    BY <2>1 DEF RowOK, Fresh
<1>3. /\ status' = [status EXCEPT ![x] = "queued"]
      /\ row' = [row EXCEPT ![x] = new]
      /\ txn' = [txn EXCEPT ![x] = p]
      /\ UNCHANGED <<jobs, workPc, workOn>>
  BY <1>1
<1>4. new \in RowType /\ new.by = p
  BY DEF RowType
<1>5. ASSUME NEW e \in Execs PROVE FlowOK(e)'
  <2> HIDE DEF new, x
  <2>1. CASE e = x
    BY <1>2, <1>3, <1>4, <2>1 DEF FlowOK
  <2>2. CASE e # x
    BY <1>3, <2>2 DEF FlowOK
  <2>3. QED
    BY <2>1, <2>2
<1>6. ASSUME NEW w \in Workers PROVE HoldOK(w)'
  <2> HIDE DEF new, x
  <2>1. QED
    BY <1>2, <1>3 DEF HoldOK
<1>7. QED
  BY <1>5, <1>6

LEMMA EnqueueFlow == NoLateJobs /\ FlowInv /\ Enqueues => FlowsOK'
<1> SUFFICES ASSUME NoLateJobs, FlowInv, Enqueues PROVE FlowsOK'
  OBVIOUS
<1> USE StoreAssumption
        DEF FlowInv, FlowsOK, QueueInv, QueueOK, TypeOK, StoreTypeOK, WorkTypeOK, workVars
<1>0. PICK p \in Procs : \E x \in pending[p] : Enqueue(p, x) /\ UNCHANGED workVars
  BY DEF Enqueues
<1>1. PICK x \in pending[p] : Enqueue(p, x) /\ UNCHANGED workVars
  BY <1>0
<1>2. /\ x \in Execs /\ jobs[x] = 0 /\ status[x] = "queued" /\ txn[x] = p
      /\ \A w \in Workers : workOn[w] # x
  BY DEF PendingOK, Fresh
<1>3. /\ UNCHANGED <<row, txn, workPc, workOn>>
      /\ \A e \in Execs : e # x => status'[e] = status[e] /\ jobs'[e] = jobs[e]
      /\ \/ jobs'[x] = 1 /\ status'[x] = "queued"
         \/ jobs'[x] = 0 /\ status'[x] = "failed"
  BY <1>1, <1>2 DEF Enqueue, NoLateJobs
<1>4. ASSUME NEW e \in Execs PROVE FlowOK(e)'
  BY <1>2, <1>3 DEF FlowOK
<1>5. ASSUME NEW w \in Workers PROVE HoldOK(w)'
  BY <1>2, <1>3 DEF HoldOK
<1>6. QED
  BY <1>4, <1>5

LEMMA EndFlow == FlowInv /\ (Commits \/ Rollbacks) => FlowsOK'
<1> SUFFICES ASSUME FlowInv, Commits \/ Rollbacks PROVE FlowsOK'
  OBVIOUS
<1> USE StoreAssumption
        DEF FlowInv, FlowsOK, QueueInv, QueueOK, TypeOK, StoreTypeOK, WorkTypeOK, workVars
<1>1. PICK p \in Procs : Commit(p) \/ Rollback(p)
  BY DEF Commits, Rollbacks
<1>2. /\ UNCHANGED <<jobs, workPc, workOn>>
      /\ \A e \in Execs : txn[e] # p =>
            status'[e] = status[e] /\ row'[e] = row[e] /\ txn'[e] = txn[e]
      /\ \A e \in Execs : txn[e] = p =>
            /\ txn'[e] = None
            /\ \/ status'[e] = status[e] /\ row'[e] = row[e]
               \/ status'[e] = "absent"
  BY <1>1 DEF Commit, Rollback, Commits, Rollbacks
<1>3. p # None
  OBVIOUS
<1>4. ASSUME NEW e \in Execs PROVE FlowOK(e)'
  BY <1>2 DEF FlowOK
<1>5. ASSUME NEW w \in Workers PROVE HoldOK(w)'
  BY <1>2, <1>3 DEF HoldOK
<1>6. QED
  BY <1>4, <1>5

\* One worker moves, and only the row of its job.
LEMMA WorkerFlow == FlowInv /\ WorkerMoves => FlowsOK'
<1> SUFFICES ASSUME FlowInv, WorkerMoves PROVE FlowsOK'
  OBVIOUS
<1> USE StoreAssumption
        DEF FlowInv, FlowsOK, QueueInv, QueueOK, TypeOK, StoreTypeOK, WorkTypeOK, storeVars, workVars
<1>1. PICK w \in Workers : WorkerStep(w) \/ JobDies(w)
  BY DEF WorkerMoves
<1>2. ASSUME NEW x \in Execs, Pick(w, x) PROVE FlowsOK'
  <2>1. jobs[x] > 0 /\ status[x] \in {"absent", "queued"}
    BY <1>2 DEF Pick, FlowOK
  <2>2. ASSUME NEW e \in Execs PROVE FlowOK(e)'
    BY <1>2, <2>1 DEF Pick, FlowOK
  <2>3. ASSUME NEW v \in Workers PROVE HoldOK(v)'
    BY <1>2, <2>1 DEF Pick, HoldOK
  <2>4. QED
    BY <2>2, <2>3
<1>3. CASE workPc[w] # "idle"
  <2>1. PICK x \in Execs : x = workOn[w]
    BY <1>3
  <2>2. jobs[x] = 0 /\ \A v \in Workers : v # w => workOn[v] # x
    BY <2>1 DEF JobOK
  <2>3. ASSUME LoadContext(w) PROVE FlowsOK'
    <3>1. ASSUME NEW e \in Execs PROVE FlowOK(e)'
      BY <2>3 DEF LoadContext, FlowOK
    <3>2. ASSUME NEW v \in Workers PROVE HoldOK(v)'
      <4>1. CASE v # w
        BY <2>3, <4>1 DEF LoadContext, JobReturns, HoldOK
      <4>2. CASE v = w
        BY <2>3, <4>2 DEF LoadContext, JobReturns, HoldOK, Committed
      <4>3. QED
        BY <4>1, <4>2
    <3>3. QED
      BY <3>1, <3>2
  <2>4. ASSUME NEW st \in Statuses, SetStatus(x, st), txn[x] = None, row[x] \in RowType,
               \A v \in Workers : v # w => workPc'[v] = workPc[v] /\ workOn'[v] = workOn[v],
               \/ workPc'[w] = "idle"
               \/ workPc'[w] = "running" /\ st = "running" /\ workOn'[w] = x
        PROVE  FlowsOK'
    <3>1. ASSUME NEW e \in Execs PROVE FlowOK(e)'
      <4>1. /\ UNCHANGED <<row, txn, jobs>>
            /\ e # x => status'[e] = status[e]
        BY <2>4 DEF SetStatus
      <4>2. CASE e = x
        BY <2>2, <2>4, <4>1, <4>2 DEF FlowOK
      <4>3. CASE e # x
        BY <4>1, <4>3 DEF FlowOK
      <4>4. QED
        BY <4>2, <4>3
    <3>2. ASSUME NEW v \in Workers PROVE HoldOK(v)'
      BY <2>2, <2>4 DEF SetStatus, HoldOK
    <3>3. QED
      BY <3>1, <3>2
  <2>5. ASSUME workPc[w] \in {"loaded", "running"} PROVE txn[x] = None /\ row[x] \in RowType
    BY <2>1, <2>5 DEF HoldOK, FlowOK
  <2>6. ASSUME MarkRunning(w) PROVE FlowsOK'
    BY <2>1, <2>4, <2>5, <2>6 DEF MarkRunning, Statuses
  <2>7. ASSUME NEW st \in Terminal, FinishJob(w, st) PROVE FlowsOK'
    BY <2>1, <2>4, <2>5, <2>7 DEF FinishJob, JobReturns, JobRaises, Statuses
  <2>8. ASSUME FailJob(w) PROVE FlowsOK'
    BY <2>1, <2>4, <2>5, <2>8 DEF FailJob, JobRaises, Statuses, Terminal
  <2>9. ASSUME JobDies(w) PROVE FlowsOK'
    <3>1. ASSUME NEW e \in Execs PROVE FlowOK(e)'
      BY <2>9 DEF JobDies, FlowOK
    <3>2. ASSUME NEW v \in Workers PROVE HoldOK(v)'
      BY <2>9 DEF JobDies, JobRaises, HoldOK
    <3>3. QED
      BY <3>1, <3>2
  <2>10. QED
    BY <1>1, <1>2, <2>3, <2>6, <2>7, <2>8, <2>9 DEF WorkerStep
<1>4. QED
  BY <1>1, <1>2, <1>3 DEF WorkerStep, LoadContext, MarkRunning, FinishJob, FailJob, JobDies

LEMMA FlowAlwaysOK == NoLateJobs => (Spec => []FlowInv)
<1> SUFFICES ASSUME NoLateJobs PROVE Spec => []FlowInv
  OBVIOUS
<1>1. Init => FlowInv
  BY InitQueueInv, StoreAssumption
     DEF Init, StoreInit, WorkInit, FlowInv, FlowOK, HoldOK
<1>2. FlowInv /\ [Next]_vars => FlowInv'
  <2> SUFFICES ASSUME FlowInv, [Next]_vars PROVE FlowInv'
    OBVIOUS
  <2>1. QueueInv'
    BY StepTypeOK, StepQueueOK, StepTickOK, StepWorkerOK DEF FlowInv, QueueInv
  <2>2. RowsStay => FlowsOK'
    BY DEF RowsStay, workVars, FlowInv, FlowsOK, FlowOK, HoldOK
  <2>3. FlowsOK'
    BY <2>2, StepKinds, InsertFlow, EnqueueFlow, EndFlow, WorkerFlow DEF FlowInv, QueueInv
  <2>4. QED
    BY <2>1, <2>3 DEF FlowInv, FlowsOK
<1>3. QED
  BY <1>1, <1>2, PTL DEF Spec

-----------------------------------------------------------------------------
\* The refinement.  Before its commit a row is invisible, so only commits and
\* the three writes of a worker can move what readers see.
LEMMA CommitLife == FlowInv /\ Commits => [Lifecycle!Next]_Life
<1> SUFFICES ASSUME FlowInv, Commits PROVE Lifecycle!Next
  OBVIOUS
<1> USE StoreAssumption DEF FlowInv, QueueInv, TypeOK, StoreTypeOK
<1>1. PICK p \in Procs : Commit(p)
  BY DEF Commits
<1> DEFINE new == {e \in Execs : txn[e] = p /\ status[e] = "queued"}
           failed == {e \in Execs : txn[e] = p /\ status[e] = "failed"}
<1>2. \A e \in Execs : txn[e] = p => status[e] \in {"queued", "failed"} /\ txn[e] # None
  BY DEF FlowOK
<1>3. \A e \in new \cup failed : Life[e] = "absent"
  BY <1>2 DEF Life, Committed
<1>4. Life' = [e \in Execs |-> IF e \in failed THEN "done"
                              ELSE IF e \in new THEN "queued" ELSE Life[e]]
  BY <1>1, <1>2 DEF Commit, Life, Committed, Terminal
<1>5. Lifecycle!Create(new, failed)
  BY <1>3, <1>4 DEF Lifecycle!Create
<1>6. new \in SUBSET Execs /\ failed \in SUBSET Execs
  OBVIOUS
<1>7. QED
  BY <1>5, <1>6 DEF Lifecycle!Next

\* A row in an open transaction, before and after, is not seen.
LEMMA HiddenLife ==
    ASSUME FlowInv, Inserts \/ Enqueues \/ Rollbacks \/ RowsStay
    PROVE  UNCHANGED Life
<1> USE StoreAssumption DEF FlowInv, QueueInv, QueueOK, TypeOK, StoreTypeOK
<1>1. CASE Inserts
  <2>1. PICK p \in Procs, c \in Companies, k \in Keys : InsertRow(p, c, k)
    BY <1>1 DEF Inserts
  <2>2. issued + 1 \in Execs /\ status[issued + 1] = "absent"
    BY <2>1 DEF InsertRow, RowOK
  <2>3. \A e \in Execs : Committed(e)' <=> Committed(e)
    BY <2>1, <2>2 DEF InsertRow, Committed
  <2>4. \A e \in Execs : Committed(e) => status'[e] = status[e]
    BY <2>1, <2>2 DEF InsertRow, Committed
  <2>5. QED
    BY <2>3, <2>4 DEF Life
<1>2. CASE Enqueues
  <2>1. PICK p \in Procs : \E x \in pending[p] : Enqueue(p, x)
    BY <1>2 DEF Enqueues
  <2>2. PICK x \in pending[p] : Enqueue(p, x)
    BY <2>1
  <2>3. x \in Execs /\ txn[x] = p /\ txn'[x] = p
    BY <2>2 DEF PendingOK, Enqueue
  <2>4. \A e \in Execs : txn'[e] = txn[e] /\ (e # x => status'[e] = status[e])
    BY <2>2 DEF Enqueue
  <2>5. QED
    BY <2>3, <2>4 DEF Life, Committed
<1>3. CASE Rollbacks
  <2>1. PICK p \in Procs : Rollback(p)
    BY <1>3 DEF Rollbacks
  <2>2. \A e \in Execs : txn[e] = p => ~Committed(e) /\ ~Committed(e)'
    BY <2>1 DEF Rollback, Committed
  <2>3. \A e \in Execs : txn[e] # p => status'[e] = status[e] /\ txn'[e] = txn[e]
    BY <2>1 DEF Rollback
  <2>4. QED
    BY <2>2, <2>3 DEF Life, Committed
<1>4. CASE RowsStay
  BY <1>4 DEF RowsStay, Life, Committed
<1>5. QED
  BY <1>1, <1>2, <1>3, <1>4

LEMMA WorkerLife == FlowInv /\ WorkerMoves => [Lifecycle!Next]_Life
<1> SUFFICES ASSUME FlowInv, WorkerMoves PROVE Lifecycle!Next \/ UNCHANGED Life
  OBVIOUS
<1> USE DEF FlowInv, QueueInv, TypeOK, StoreTypeOK, WorkTypeOK, storeVars
<1>1. PICK w \in Workers : WorkerStep(w) \/ JobDies(w)
  BY DEF WorkerMoves
<1>2. UNCHANGED <<status, txn>> => UNCHANGED Life
  BY DEF Life, Committed
<1>3. ASSUME (\E x \in Execs : Pick(w, x)) \/ LoadContext(w) \/ JobDies(w)
      PROVE  UNCHANGED Life
  BY <1>2, <1>3 DEF Pick, LoadContext, JobDies
<1>4. ASSUME MarkRunning(w) PROVE Lifecycle!Next
  <2>1. PICK x \in Execs : x = workOn[w]
    BY <1>4 DEF MarkRunning
  <2>2. status[x] = "queued" /\ txn[x] = None
    BY <1>4, <2>1 DEF MarkRunning, HoldOK
  <2>3. status' = [status EXCEPT ![x] = "running"] /\ UNCHANGED txn
    BY <1>4, <2>1 DEF MarkRunning, SetStatus
  <2>4. Life[x] = "queued" /\ Life' = [Life EXCEPT ![x] = "running"]
    BY <2>2, <2>3 DEF Life, Committed, Terminal
  <2>5. QED
    BY <2>4 DEF Lifecycle!Start, Lifecycle!Next
<1>5. ASSUME NEW st \in Terminal, SetStatus(workOn[w], st), workPc[w] = "running"
      PROVE  Lifecycle!Next
  <2>1. PICK x \in Execs : x = workOn[w]
    BY <1>5
  <2>2. status[x] = "running" /\ txn[x] = None
    BY <1>5, <2>1 DEF HoldOK
  <2>3. status' = [status EXCEPT ![x] = st] /\ UNCHANGED txn
    BY <1>5, <2>1 DEF SetStatus
  <2>4. Life[x] = "running" /\ Life' = [Life EXCEPT ![x] = "done"]
    BY <2>2, <2>3 DEF Life, Committed, Terminal
  <2>5. QED
    BY <2>4 DEF Lifecycle!Finish, Lifecycle!Next
<1>6. QED
  BY <1>1, <1>3, <1>4, <1>5 DEF WorkerStep, FinishJob, FailJob, Terminal

\* Executions implements ExecutionLifecycle when no enqueue is doubtful and
\* the operator leaves RQ and the table alone: a reader sees each row queued,
\* running and finished, in this order, and then never move.
THEOREM ExecutionsRefineLifecycle ==
    ASSUME NoLateJobs
    PROVE  Spec => RefinesLifecycle
<1>1. Init => Lifecycle!Init
  BY DEF Init, StoreInit, Lifecycle!Init, Life, Committed
<1>2. FlowInv /\ [Next]_vars => [Lifecycle!Next]_Life
  BY StepKinds, HiddenLife, CommitLife, WorkerLife DEF FlowInv, QueueInv
<1>3. QED
  BY <1>1, <1>2, FlowAlwaysOK, PTL DEF Spec, RefinesLifecycle, Lifecycle!Spec

-----------------------------------------------------------------------------
\* Only an INSERT makes a row open, and an open row keeps its columns.
LEMMA OpenStays ==
    ASSUME NoLateJobs, FlowInv, [Next]_vars, ~Inserts, NEW e \in Execs, Open(e)'
    PROVE  Open(e) /\ row'[e] = row[e]
<1> USE StoreAssumption
        DEF FlowInv, QueueInv, QueueOK, TypeOK, StoreTypeOK, WorkTypeOK, storeVars, Open
<1>1. CASE RowsStay
  BY <1>1 DEF RowsStay
<1>2. CASE Enqueues
  <2>1. PICK p \in Procs : \E x \in pending[p] : Enqueue(p, x)
    BY <1>2 DEF Enqueues
  <2>2. QED
    BY <2>1 DEF Enqueue
<1>3. CASE Commits \/ Rollbacks
  <2>1. PICK p \in Procs : Commit(p) \/ Rollback(p)
    BY <1>3 DEF Commits, Rollbacks
  <2>2. QED
    BY <2>1 DEF Commit, Rollback
<1>4. CASE WorkerMoves
  <2>1. PICK w \in Workers : WorkerStep(w) \/ JobDies(w)
    BY <1>4 DEF WorkerMoves
  <2>2. UNCHANGED row
    BY <2>1 DEF WorkerStep, Pick, LoadContext, MarkRunning, FinishJob, FailJob, JobDies,
                SetStatus
  <2>3. ASSUME (\E x \in Execs : Pick(w, x)) \/ LoadContext(w) \/ JobDies(w)
        PROVE  Open(e)
    BY <2>3 DEF Pick, LoadContext, JobDies
  <2>4. ASSUME MarkRunning(w) PROVE Open(e)
    BY <2>4 DEF MarkRunning, SetStatus, HoldOK
  <2>5. ASSUME NEW st \in Terminal, SetStatus(workOn[w], st) PROVE Open(e)
    BY <2>5 DEF SetStatus, Terminal
  <2>6. QED
    BY <2>1, <2>2, <2>3, <2>4, <2>5 DEF WorkerStep, FinishJob, FailJob, Terminal
<1>5. QED
  BY <1>1, <1>2, <1>3, <1>4, StepKinds

\* The row a scheduler has not committed is of a company it has locked.
SlotOK(p) == \A e \in Execs : txn[e] = p => lock[row[e].company] = p

SlotInv ==
    /\ FlowInv
    /\ LockInv
    /\ \A p \in Schedulers : SlotOK(p)

LEMMA StepSlot == SlotInv /\ [Next]_vars => \A q \in Schedulers : SlotOK(q)'
<1> SUFFICES ASSUME SlotInv, [Next]_vars, NEW q \in Schedulers PROVE SlotOK(q)'
  OBVIOUS
<1> USE StoreAssumption
        DEF SlotInv, LockInv, TypeOK, StoreTypeOK, SchedTypeOK, SlotOK, storeVars, schedVars
<1>1. CASE UNCHANGED <<row, txn, lock>>
  BY <1>1
<1>2. ASSUME NEW p \in Procs, p # q, UNCHANGED lock,
             \/ \E c \in Companies, k \in Keys : InsertRow(p, c, k)
             \/ Commit(p) \/ Rollback(p)
      PROVE  SlotOK(q)'
  <2>1. ASSUME NEW e \in Execs, txn'[e] = q PROVE txn[e] = q /\ row'[e] = row[e]
    <3>1. CASE \E c \in Companies, k \in Keys : InsertRow(p, c, k)
      <4>1. PICK c \in Companies, k \in Keys : InsertRow(p, c, k)
        BY <3>1
      <4>2. issued + 1 # e
        BY <1>2, <2>1, <4>1 DEF InsertRow
      <4>3. QED
        BY <2>1, <4>1, <4>2 DEF InsertRow
    <3>2. CASE Commit(p) \/ Rollback(p)
      BY <1>2, <2>1, <3>2 DEF Commit, Rollback
    <3>3. QED
      BY <1>2, <3>1, <3>2
  <2>2. QED
    BY <1>2, <2>1
<1>3. ASSUME NEW p \in Schedulers, Scheduling(p) PROVE SlotOK(q)'
  <2> USE <1>3 DEF Scheduling
  <2>1. CASE TickStart(p) \/ TickEnd(p) \/ \E s \in Schedules : OpenSchedule(p, s) \/ SkipSchedule(p, s)
    BY <1>1, <2>1 DEF TickStart, TickEnd, OpenSchedule, SkipSchedule
  <2>2. ASSUME NEW c \in Companies, LockCompany(p, c) PROVE SlotOK(q)'
    BY <2>2 DEF LockCompany
  <2>3. ASSUME NEW c \in Companies, CheckAndInsert(p, c) PROVE SlotOK(q)'
    <3>1. lock[c] = p /\ UNCHANGED lock
      BY <2>3 DEF CheckAndInsert, LockOK
    <3>2. CASE UNCHANGED storeVars
      BY <1>1, <3>1, <3>2
    <3>3. CASE InsertRow(p, c, SchedKey)
      <4>1. ASSUME NEW e \in Execs, txn'[e] = q PROVE lock[row'[e].company] = q
        BY <3>1, <3>3, <4>1 DEF InsertRow
      <4>2. QED
        BY <3>1, <4>1
    <3>4. QED
      BY <2>3, <3>2, <3>3 DEF CheckAndInsert
  <2>4. ASSUME NEW e \in Execs, EnqueueScheduled(p, e) PROVE SlotOK(q)'
    BY <1>1, <2>4 DEF EnqueueScheduled, Enqueue
  <2>5. ASSUME Commit(p) \/ Rollback(p), ReleaseLocks(p) PROVE SlotOK(q)'
    <3>1. ASSUME NEW e \in Execs, txn'[e] = q
          PROVE  txn[e] = q /\ row'[e] = row[e] /\ q # p
      BY <2>5, <3>1 DEF Commit, Rollback
    <3>2. ASSUME NEW e \in Execs, txn'[e] = q PROVE row[e].company \in Companies
      <4>1. txn[e] # None
        BY <3>1, <3>2
      <4>2. row[e] \in RowType
        BY <4>1 DEF FlowInv, FlowOK
      <4>3. QED
        BY <4>2 DEF RowType
    <3>3. QED
      BY <2>5, <3>1, <3>2 DEF ReleaseLocks
  <2>6. CASE CommitSchedule(p) \/ TickAbort(p)
    BY <2>5, <2>6 DEF CommitSchedule, TickAbort
  <2>7. QED
    BY <2>1, <2>2, <2>3, <2>4, <2>6 DEF SchedulerStep, SchedulerFault
<1>4. ASSUME NEW r \in Clients, Serving(r) PROVE SlotOK(q)'
  <2>1. r \in Procs /\ r # q /\ UNCHANGED lock
    BY <1>4 DEF Serving
  <2>2. ASSUME NEW cs \in SUBSET Companies, NEW k \in ApiKeys, RequestStart(r, cs, k)
        PROVE  SlotOK(q)'
    BY <1>1, <2>1, <2>2 DEF RequestStart
  <2>3. ASSUME NEW c \in Companies, RequestInsert(r, c) PROVE SlotOK(q)'
    <3>1. reqKey[r] \in Keys
      BY <2>3 DEF RequestInsert, ApiTypeOK
    <3>2. QED
      BY <1>1, <1>2, <2>1, <2>3, <3>1 DEF RequestInsert
  <2>4. ASSUME NEW e \in Execs, RequestEnqueue(r, e) PROVE SlotOK(q)'
    BY <1>1, <2>1, <2>4 DEF RequestEnqueue, Enqueue
  <2>5. CASE RequestCommit(r) \/ RequestAbort(r)
    BY <1>2, <2>1, <2>5 DEF RequestCommit, RequestAbort
  <2>6. QED
    BY <1>4, <2>2, <2>3, <2>4, <2>5 DEF Serving, RequestStep
<1>5. ASSUME NEW w \in Workers, Working(w) PROVE SlotOK(q)'
  BY <1>1, <1>5 DEF Working, WorkerStep, Pick, LoadContext, MarkRunning, FinishJob, FailJob,
                    JobDies, SetStatus
<1>6. CASE Clock \/ Operating \/ UNCHANGED vars
  BY <1>1, <1>6 DEF Clock, BecomeDue, Operating, Requeue, MarkAbandoned, ToggleCredential,
                    SetStatus, vars
<1>7. QED
  BY <1>3, <1>4, <1>5, <1>6 DEF Next

\* Who inserts, and what it has looked for.
ScheduledInsert(p, c) ==
    /\ tickPc[p] = "check" /\ IsNext(p, c) /\ ~HasInflight(p, c)
    /\ InsertRow(p, c, SchedKey)

RequestedInsert(r, c) ==
    /\ reqKey[r] \in Keys /\ ~HasOpenExecution(r, c, reqKey[r])
    /\ InsertRow(r, c, reqKey[r])

LEMMA WhoInserts ==
    ASSUME TypeOK, [Next]_vars, Inserts
    PROVE  \/ \E p \in Schedulers, c \in Companies : ScheduledInsert(p, c)
           \/ \E r \in Clients, c \in Companies : RequestedInsert(r, c)
<1> USE DEF storeVars
<1>1. issued' # issued
  BY DEF Inserts, InsertRow, TypeOK, StoreTypeOK
<1>2. ASSUME NEW p \in Schedulers, Scheduling(p)
      PROVE  \E c \in Companies : ScheduledInsert(p, c)
  BY <1>1, <1>2 DEF Scheduling, SchedulerStep, SchedulerFault, TickStart, TickEnd, OpenSchedule,
     SkipSchedule, LockCompany, EnqueueScheduled, Enqueue, CommitSchedule, Commit, TickAbort,
     Rollback, CheckAndInsert, ScheduledInsert
<1>3. ASSUME NEW r \in Clients, Serving(r)
      PROVE  \E c \in Companies : RequestedInsert(r, c)
  BY <1>1, <1>3 DEF Serving, RequestStep, RequestStart, RequestEnqueue, Enqueue, RequestCommit,
     Commit, RequestAbort, Rollback, RequestInsert, RequestedInsert, TypeOK, ApiTypeOK
<1>4. ASSUME NEW w \in Workers, Working(w) PROVE FALSE
  BY <1>1, <1>4 DEF Working, WorkerStep, Pick, LoadContext, MarkRunning, FinishJob, FailJob,
                    JobDies, SetStatus
<1>5. ~ (Clock \/ Operating \/ UNCHANGED vars)
  BY <1>1 DEF Clock, BecomeDue, Operating, Requeue, MarkAbandoned, ToggleCredential,
              SetStatus, vars
<1>6. QED
  BY <1>2, <1>3, <1>4, <1>5 DEF Next

\* What an INSERT leaves open: the rows that were, and the new one.
LEMMA InsertOpens ==
    ASSUME FlowInv, NEW p \in Procs, NEW c \in Companies, NEW k \in Keys, InsertRow(p, c, k),
           NEW e \in Execs, Open(e)'
    PROVE  \/ e = issued + 1 /\ row'[e] = [company |-> c, key |-> k, by |-> p]
           \/ e # issued + 1 /\ Open(e) /\ row'[e] = row[e]
BY DEF FlowInv, QueueInv, TypeOK, StoreTypeOK, InsertRow, Open

LEMMA SlotAlwaysOK == NoLateJobs => (Spec => []SlotInv)
<1> SUFFICES ASSUME NoLateJobs PROVE Spec => []SlotInv
  OBVIOUS
<1>1. Init => \A p \in Schedulers : SlotOK(p)
  BY StoreAssumption DEF Init, StoreInit, SlotOK
<1>2. FlowInv /\ LockInv /\ (\A p \in Schedulers : SlotOK(p)) /\ [Next]_vars
         => (\A p \in Schedulers : SlotOK(p))'
  BY StepSlot DEF SlotInv
<1>3. QED
  BY <1>1, <1>2, FlowAlwaysOK, LocksAlwaysOK, PTL DEF Spec, SlotInv

\* However many schedulers read the same due schedules, a company has at most
\* one open execution of theirs: the row another scheduler has not committed
\* is of a company it keeps locked, and the committed ones are seen.
THEOREM CompaniesFireOnce ==
    ASSUME NoLateJobs
    PROVE  Spec => []AtMostOneScheduled
<1>1. Init => AtMostOneScheduled
  BY DEF Init, StoreInit, AtMostOneScheduled, Open
<1>2. SlotInv /\ AtMostOneScheduled /\ [Next]_vars => AtMostOneScheduled'
  <2> SUFFICES ASSUME SlotInv, AtMostOneScheduled, [Next]_vars PROVE AtMostOneScheduled'
    OBVIOUS
  <2> USE StoreAssumption DEF SlotInv
  <2>1. CASE ~Inserts
    BY <2>1, OpenStays DEF AtMostOneScheduled
  <2>2. ASSUME NEW r \in Clients, NEW c \in Companies, RequestedInsert(r, c)
        PROVE  AtMostOneScheduled'
    <3>1. ASSUME NEW e \in Execs, Open(e)', row'[e].by \in Schedulers
          PROVE  Open(e) /\ row'[e] = row[e]
      <4>1. \/ e = issued + 1 /\ row'[e] = [company |-> c, key |-> reqKey[r], by |-> r]
            \/ e # issued + 1 /\ Open(e) /\ row'[e] = row[e]
        BY <2>2, <3>1, InsertOpens DEF RequestedInsert
      <4>2. QED
        BY <3>1, <4>1
    <3>2. QED
      BY <3>1 DEF AtMostOneScheduled
  <2>3. ASSUME NEW p \in Schedulers, NEW c \in Companies, ScheduledInsert(p, c)
        PROVE  AtMostOneScheduled'
    <3>1. lock[c] = p
      BY <2>3 DEF ScheduledInsert, LockInv, LockOK
    <3>2. ASSUME NEW f \in Execs, Open(f), row[f].by \in Schedulers, row[f].company = c
          PROVE  FALSE
      <4>1. txn[f] \in {None, p}
        <5>1. ASSUME txn[f] # None PROVE txn[f] = p
          <6>1. txn[f] = row[f].by
            BY <5>1 DEF FlowInv, FlowOK
          <6>2. lock[c] = txn[f]
            BY <3>2, <6>1 DEF SlotOK
          <6>3. QED
            BY <3>1, <6>2
        <5>2. QED
          BY <5>1
      <4>2. VisibleTo(p, f)
        BY <3>2, <4>1 DEF VisibleTo, Open
      <4>3. QED
        BY <2>3, <3>2, <4>2 DEF ScheduledInsert, HasInflight
    <3>3. ASSUME NEW e \in Execs, Open(e)', row'[e].by \in Schedulers
          PROVE  \/ e = issued + 1 /\ row'[e].company = c
                 \/ Open(e) /\ row'[e] = row[e] /\ row'[e].company # c
      <4>1. \/ e = issued + 1 /\ row'[e] = [company |-> c, key |-> SchedKey, by |-> p]
            \/ e # issued + 1 /\ Open(e) /\ row'[e] = row[e]
        BY <2>3, <3>3, InsertOpens DEF ScheduledInsert
      <4>2. QED
        BY <3>2, <3>3, <4>1
    <3>4. QED
      BY <3>3 DEF AtMostOneScheduled
  <2>4. QED
    BY <2>1, <2>2, <2>3, WhoInserts DEF LockInv
<1>3. QED
  BY <1>1, <1>2, SlotAlwaysOK, PTL DEF Spec

\* A client whose requests follow each other never has two open executions
\* of one key for one company: every row it could repeat is visible to it.
THEOREM OneClientNeverTwins ==
    ASSUME NoLateJobs, \A r, s \in Clients : r = s
    PROVE  Spec => []NoTwinOpen
<1>1. Init => NoTwinOpen
  BY DEF Init, StoreInit, NoTwinOpen, Open
<1>2. FlowInv /\ NoTwinOpen /\ [Next]_vars => NoTwinOpen'
  <2> SUFFICES ASSUME FlowInv, NoTwinOpen, [Next]_vars PROVE NoTwinOpen'
    OBVIOUS
  <2> USE StoreAssumption
  <2>1. CASE ~Inserts
    BY <2>1, OpenStays DEF NoTwinOpen
  <2>2. ASSUME NEW p \in Schedulers, NEW c \in Companies, ScheduledInsert(p, c)
        PROVE  NoTwinOpen'
    <3>1. ASSUME NEW e \in Execs, Open(e)', row'[e].by \in Clients
          PROVE  Open(e) /\ row'[e] = row[e]
      <4>1. \/ e = issued + 1 /\ row'[e] = [company |-> c, key |-> SchedKey, by |-> p]
            \/ e # issued + 1 /\ Open(e) /\ row'[e] = row[e]
        BY <2>2, <3>1, InsertOpens DEF ScheduledInsert
      <4>2. QED
        BY <3>1, <4>1
    <3>2. QED
      BY <3>1 DEF NoTwinOpen
  <2>3. ASSUME NEW r \in Clients, NEW c \in Companies, RequestedInsert(r, c)
        PROVE  NoTwinOpen'
    <3>1. ASSUME NEW f \in Execs, Open(f), row[f].by \in Clients, row[f].company = c,
                 row[f].key = reqKey[r]
          PROVE  FALSE
      <4>1. txn[f] # None => txn[f] = r
        BY <3>1 DEF FlowInv, FlowOK
      <4>2. VisibleTo(r, f)
        BY <3>1, <4>1 DEF VisibleTo, Open
      <4>3. QED
        BY <2>3, <3>1, <4>2 DEF RequestedInsert, HasOpenExecution
    <3>2. ASSUME NEW e \in Execs, Open(e)', row'[e].by \in Clients
          PROVE  \/ e = issued + 1 /\ row'[e].company = c /\ row'[e].key = reqKey[r]
                 \/ /\ Open(e) /\ row'[e] = row[e]
                    /\ ~ (row'[e].company = c /\ row'[e].key = reqKey[r])
      <4>1. \/ e = issued + 1 /\ row'[e] = [company |-> c, key |-> reqKey[r], by |-> r]
            \/ e # issued + 1 /\ Open(e) /\ row'[e] = row[e]
        BY <2>3, <3>2, InsertOpens DEF RequestedInsert
      <4>2. QED
        BY <3>1, <3>2, <4>1
    <3>3. QED
      BY <3>2 DEF NoTwinOpen
  <2>4. QED
    BY <2>1, <2>2, <2>3, WhoInserts DEF FlowInv, QueueInv
<1>3. QED
  BY <1>1, <1>2, FlowAlwaysOK, PTL DEF Spec
=============================================================================
