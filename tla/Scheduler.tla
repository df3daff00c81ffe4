------------------------------ MODULE Scheduler ------------------------------
(***************************************************************************)
(* The scheduler process (worker/scheduler.py): once a minute it reads the *)
(* schedules that are due and, in one transaction per schedule, fires an   *)
(* execution for every target company that has none open.                  *)
(*                                                                         *)
(* Two scheduler processes may run at once; a transaction-scoped advisory  *)
(* lock per company is what keeps them from firing the same company twice. *)
(***************************************************************************)
EXTENDS ExecutionStore

CONSTANTS
    Schedules,
    Target          \* the companies each schedule resolves to

ASSUME SchedulerAssumption == Target \in [Schedules -> SUBSET Companies]

VARIABLES
    due,            \* is the schedule enabled with next_run_at <= now?
    tickPc,         \* where each scheduler is in run_tick
    picked,         \* due schedules its tick read and has not processed yet
    current,        \* the schedule whose transaction is open
    todo,           \* target companies that transaction has still to visit
    lock            \* holder of pg_advisory_xact_lock, per company

schedVars == <<due, tickPc, picked, current, todo, lock>>

SchedTypeOK ==
    /\ due \in [Schedules -> BOOLEAN]
    /\ tickPc \in [Schedulers -> {"idle", "scan", "lock", "check", "enqueue"}]
    /\ picked \in [Schedulers -> SUBSET Schedules]
    /\ current \in [Schedulers -> Schedules \cup {None}]
    /\ todo \in [Schedulers -> SUBSET Companies]
    /\ lock \in [Companies -> Schedulers \cup {None}]

SchedInit ==
    /\ due = [s \in Schedules |-> FALSE]
    /\ tickPc = [p \in Schedulers |-> "idle"]
    /\ picked = [p \in Schedulers |-> {}]
    /\ current = [p \in Schedulers |-> None]
    /\ todo = [p \in Schedulers |-> {}]
    /\ lock = [c \in Companies |-> None]

InTx(p) == tickPc[p] \in {"lock", "check", "enqueue"}

\* An order without the ORDER BY of _resolve_target_companies.
IsNextUnordered(p, c) == c \in todo[p]

\* Companies are visited in created_at order: c is the next one of p.
IsNext(p, c) == c \in todo[p] /\ \A d \in todo[p] : c <= d

\* p waits for, or is about to take, the advisory lock of c.
Wants(p, c) == tickPc[p] = "lock" /\ IsNext(p, c)

-----------------------------------------------------------------------------
\* The clock passes next_run_at of an enabled schedule.
BecomeDue(s) ==
    /\ ~due[s]
    /\ due' = [due EXCEPT ![s] = TRUE]
    /\ UNCHANGED <<storeVars, tickPc, picked, current, todo, lock>>

\* The tick reads the due schedules, in a session of its own.
TickStart(p) ==
    /\ tickPc[p] = "idle"
    /\ \E s \in Schedules : due[s]
    /\ tickPc' = [tickPc EXCEPT ![p] = "scan"]
    /\ picked' = [picked EXCEPT ![p] = {s \in Schedules : due[s]}]
    /\ UNCHANGED <<storeVars, due, current, todo, lock>>

\* The transaction of one schedule opens and reads its companies.  Whether
\* the schedule is still due is not read again.
OpenSchedule(p, s) ==
    /\ tickPc[p] = "scan"
    /\ s \in picked[p]
    /\ picked' = [picked EXCEPT ![p] = @ \ {s}]
    /\ current' = [current EXCEPT ![p] = s]
    /\ todo' = [todo EXCEPT ![p] = Target[s]]
    /\ tickPc' = [tickPc EXCEPT ![p] = "lock"]
    /\ UNCHANGED <<storeVars, due, lock>>

\* An invalid cron, or companies that cannot be read: the loop continues and
\* next_run_at stays where it was.
SkipSchedule(p, s) ==
    /\ "skip" \in Faults
    /\ tickPc[p] = "scan"
    /\ s \in picked[p]
    /\ picked' = [picked EXCEPT ![p] = @ \ {s}]
    /\ UNCHANGED <<storeVars, due, tickPc, current, todo, lock>>

\* A lock that lets both schedulers in (no advisory lock at all).
LockNothing(p, c) ==
    /\ tickPc[p] = "lock"
    /\ IsNext(p, c)
    /\ tickPc' = [tickPc EXCEPT ![p] = "check"]
    /\ UNCHANGED <<storeVars, due, picked, current, todo, lock>>

\* pg_advisory_xact_lock: blocks while another transaction holds it.
LockCompany(p, c) ==
    /\ tickPc[p] = "lock"
    /\ IsNext(p, c)
    /\ lock[c] \in {None, p}
    /\ lock' = [lock EXCEPT ![c] = p]
    /\ tickPc' = [tickPc EXCEPT ![p] = "check"]
    /\ UNCHANGED <<storeVars, due, picked, current, todo>>

HasInflight(p, c) ==
    \E e \in Execs : VisibleTo(p, e) /\ Open(e) /\ row[e].company = c

\* _has_inflight_execution, and the INSERT when it finds none.  The row is
\* invisible to others until the commit, so the two statements are one step.
CheckAndInsert(p, c) ==
    /\ tickPc[p] = "check"
    /\ IsNext(p, c)
    /\ todo' = [todo EXCEPT ![p] = @ \ {c}]
    /\ \/ /\ HasInflight(p, c)          \* occurrence SCHEDULE_OVERLAP
          /\ tickPc' = [tickPc EXCEPT ![p] = "lock"]
          /\ UNCHANGED storeVars
       \/ /\ ~HasInflight(p, c)
          /\ InsertRow(p, c, SchedKey)
          /\ tickPc' = [tickPc EXCEPT ![p] = "enqueue"]
    /\ UNCHANGED <<due, picked, current, lock>>

EnqueueScheduled(p, e) ==
    /\ tickPc[p] = "enqueue"
    /\ e \in pending[p]
    /\ Enqueue(p, e)
    /\ tickPc' = [tickPc EXCEPT ![p] = "lock"]
    /\ UNCHANGED <<due, picked, current, todo, lock>>

AfterSchedule(p) ==
    /\ tickPc' = [tickPc EXCEPT ![p] = IF picked[p] = {} THEN "idle" ELSE "scan"]
    /\ current' = [current EXCEPT ![p] = None]

\* pg_advisory_lock in place of pg_advisory_xact_lock: the session keeps it.
KeepLocks(p) == UNCHANGED lock

ReleaseLocks(p) ==
    lock' = [c \in Companies |-> IF lock[c] = p THEN None ELSE lock[c]]

\* A tick that skips the UPDATE of next_run_at.
CommitKeepsDue(p) ==
    /\ tickPc[p] = "lock"
    /\ todo[p] = {}
    /\ Commit(p)
    /\ ReleaseLocks(p)
    /\ AfterSchedule(p)
    /\ UNCHANGED <<due, picked, todo>>

\* _update_schedule_after_tick writes the next next_run_at and the session
\* commits; the advisory locks go with the transaction.
CommitSchedule(p) ==
    /\ tickPc[p] = "lock"
    /\ todo[p] = {}
    /\ due' = [due EXCEPT ![current[p]] = FALSE]
    /\ Commit(p)
    /\ ReleaseLocks(p)
    /\ AfterSchedule(p)
    /\ UNCHANGED <<picked, todo>>

\* The transaction fails, or the process dies: rollback, and run_tick raises,
\* so the schedules it had not processed wait for the next tick.
TickAbort(p) ==
    /\ MayAbort
    /\ InTx(p)
    /\ Rollback(p)
    /\ ReleaseLocks(p)
    /\ tickPc' = [tickPc EXCEPT ![p] = "idle"]
    /\ picked' = [picked EXCEPT ![p] = {}]
    /\ current' = [current EXCEPT ![p] = None]
    /\ todo' = [todo EXCEPT ![p] = {}]
    /\ UNCHANGED due

\* The loop over the picked schedules ends after a skipped one.
TickEnd(p) ==
    /\ tickPc[p] = "scan"
    /\ picked[p] = {}
    /\ tickPc' = [tickPc EXCEPT ![p] = "idle"]
    /\ UNCHANGED <<storeVars, due, picked, current, todo, lock>>

SchedulerStep(p) ==
    \/ TickStart(p)
    \/ \E s \in Schedules : OpenSchedule(p, s)
    \/ \E c \in Companies : LockCompany(p, c) \/ CheckAndInsert(p, c)
    \/ \E e \in Execs : EnqueueScheduled(p, e)
    \/ CommitSchedule(p)
    \/ TickEnd(p)

SchedulerFault(p) ==
    \/ \E s \in Schedules : SkipSchedule(p, s)
    \/ TickAbort(p)
=============================================================================
