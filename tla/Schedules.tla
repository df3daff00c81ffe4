------------------------------ MODULE Schedules ------------------------------
(***************************************************************************)
(* The schedules page (agendamentos-view.tsx over lib/api/schedules.ts) of *)
(* several users, the schedules API behind it (schedules/routes.py), and   *)
(* the scheduler's UPDATE of next_run_at (Scheduler), on one schedule.     *)
(*                                                                         *)
(* PATCH reads the row, decides from it what becomes of next_run_at, and   *)
(* updates the columns it was given in a second statement; a tick writes   *)
(* the next_run_at of the cron it read when it began.  Neither locks the   *)
(* row between the two.  next_run_at is modelled by the cron it was        *)
(* computed from.  Timezone and company go with the cron, in the dialog of *)
(* ScheduleForm as in PATCH.                                               *)
(***************************************************************************)
EXTENDS Naturals, FiniteSets

CONSTANTS
    Users,          \* users with the page open, in one tab each
    Crons           \* cron expressions, timezones with them

VARIABLES
    route,          \* the page the tabs are on
    sched,          \* the row of schedules
    tick,           \* the cron a tick of the scheduler works with, or None
    shown,          \* per user, the list: its view, and whether the row is on in it
    editing,        \* per user, whether the dialog of the schedule is open
    mutation,       \* per user, the call in flight
    overlapped      \* history: two writers were at the row at the same time

vars == <<route, sched, tick, shown, editing, mutation, overlapped>>

Open == route = "/agendamentos"

None == "none"
Keep == "keep"

Rows == [there : BOOLEAN, enabled : BOOLEAN, cron : Crons, next : Crons \cup {None}]

\* The body of a PATCH, and the columns it comes to update: Keep for a column
\* it leaves alone.
Bodies == [cron : Crons \cup {Keep}, enabled : BOOLEAN]
Updates == [cron : Crons \cup {Keep}, enabled : BOOLEAN, next : Crons \cup {None, Keep}]

NoCall == [kind |-> "none"]
Calls == {NoCall, [kind |-> "delete"]}
         \cup [kind : {"patch"}, body : Bodies] \cup [kind : {"write"}, updates : Updates]

TypeOK == Open =>
    /\ sched \in Rows
    /\ tick \in Crons \cup {None}
    /\ shown \in [Users -> {"loading", "error", "empty", "on", "off"}]
    /\ editing \in [Users -> BOOLEAN]
    /\ mutation \in [Users -> Calls]
    /\ overlapped \in BOOLEAN

Init ==
    /\ Open
    /\ \E c \in Crons, on \in BOOLEAN :
          sched = [there |-> TRUE, enabled |-> on, cron |-> c, next |-> IF on THEN c ELSE None]
    /\ tick = None
    /\ shown = [u \in Users |-> "loading"]
    /\ editing = [u \in Users |-> FALSE]
    /\ mutation = [u \in Users |-> NoCall]
    /\ overlapped = FALSE

\* Somebody is between reading the row and the write that follows from it.
Busy == tick # None \/ \E u \in Users : mutation[u].kind = "write"

-----------------------------------------------------------------------------
(* The page.                                                                *)

\* The row is in the table, with its switch and its buttons.
Listed(u) == shown[u] \in {"on", "off"}

\* What the list shows once an answer is there.
ListOf(row) == IF ~row.there THEN "empty" ELSE IF row.enabled THEN "on" ELSE "off"

\* The list is asked for when the page is mounted and after every mutation: its
\* answer, or an error in its place, may come at any time.
ListArrives(u) ==
    /\ shown' \in {[shown EXCEPT ![u] = v] : v \in {ListOf(sched), "error"}}
    /\ UNCHANGED <<sched, tick, editing, mutation, overlapped>>

Call(u, c) == mutation[u] = NoCall /\ mutation' = [mutation EXCEPT ![u] = c]

\* handleToggle: the opposite of what is listed, which may be old.
handleToggle(u) ==
    /\ Listed(u) /\ ~editing[u]
    /\ Call(u, [kind |-> "patch", body |-> [cron |-> Keep, enabled |-> shown[u] = "off"]])
    /\ UNCHANGED <<sched, tick, shown, editing, overlapped>>

\* handleDelete, confirmed.
handleDelete(u) ==
    /\ Listed(u) /\ ~editing[u]
    /\ Call(u, [kind |-> "delete"])
    /\ UNCHANGED <<sched, tick, shown, editing, overlapped>>

\* handleEdit opens the dialog; "Cancelar" closes it.
handleEdit(u) ==
    /\ mutation[u] = NoCall /\ (editing[u] \/ Listed(u))
    /\ editing' = [editing EXCEPT ![u] = ~@]
    /\ UNCHANGED <<sched, tick, shown, mutation, overlapped>>

\* handleSubmit: PATCH with every field, as it was or edited.
handleSubmit(u) ==
    /\ editing[u]
    /\ \E c \in Crons, on \in BOOLEAN :
          Call(u, [kind |-> "patch", body |-> [cron |-> c, enabled |-> on]])
    /\ UNCHANGED <<sched, tick, shown, overlapped, editing>>

-----------------------------------------------------------------------------
(* The API.  An error, or an answer that is lost, leaves the dialog open.   *)

Answer(u, ok) ==
    /\ mutation' = [mutation EXCEPT ![u] = NoCall]
    /\ editing' = [editing EXCEPT ![u] = @ /\ ~ok]

\* Switching a schedule off leaves its next run.
NextRunWhenOff(body, row) ==
    LET cron == IF body.cron = Keep THEN row.cron ELSE body.cron
    IN  IF cron # row.cron \/ (body.enabled /\ ~row.enabled)
        THEN IF body.enabled THEN cron ELSE None
        ELSE Keep

\* What a body makes of next_run_at, of the row as it was read.
NextRun(body, row) ==
    LET cron == IF body.cron = Keep THEN row.cron ELSE body.cron
        recompute == cron # row.cron \/ (body.enabled /\ ~row.enabled)
    IN  IF recompute THEN IF body.enabled THEN cron ELSE None
        ELSE IF ~body.enabled /\ row.enabled THEN None
        ELSE Keep

\* update_schedule, first half: the row, and from it the columns to update; 404
\* without a row, and any other refusal.
PatchReads(u) ==
    /\ mutation[u].kind = "patch"
    /\ \/ /\ sched.there
          /\ LET body == mutation[u].body
             IN  mutation' = [mutation EXCEPT ![u] = [kind |-> "write",
                     updates |-> [cron |-> body.cron, enabled |-> body.enabled,
                                  next |-> NextRun(body, sched)]]]
          /\ overlapped' = (overlapped \/ Busy)
          /\ UNCHANGED editing
       \/ Answer(u, FALSE) /\ UNCHANGED overlapped
    /\ UNCHANGED <<sched, tick, shown>>

Updated(row, up) == [row EXCEPT !.enabled = up.enabled,
                                !.cron = IF up.cron = Keep THEN @ ELSE up.cron,
                                !.next = IF up.next = Keep THEN @ ELSE up.next]

\* update_schedule, second half: the UPDATE, whoever wrote meanwhile.
PatchWrites(u) ==
    /\ mutation[u].kind = "write"
    /\ sched' = IF sched.there THEN Updated(sched, mutation[u].updates) ELSE sched
    /\ \E told \in BOOLEAN : Answer(u, sched.there /\ told)
    /\ UNCHANGED <<tick, shown, overlapped>>

\* delete_schedule: 204, or 404 and other refusals.
DeleteSchedule(u) ==
    /\ mutation[u].kind = "delete"
    /\ \/ sched' = [sched EXCEPT !.there = FALSE]
       \/ UNCHANGED sched
    /\ Answer(u, TRUE)
    /\ UNCHANGED <<tick, shown, overlapped>>

-----------------------------------------------------------------------------
(* The scheduler.                                                           *)

\* _select_due_schedules, when the row is due.
TickReads ==
    /\ tick = None
    /\ sched.there /\ sched.enabled /\ sched.next # None
    /\ tick' = sched.cron
    /\ overlapped' = (overlapped \/ Busy)
    /\ UNCHANGED <<sched, shown, editing, mutation>>

\* _update_schedule_after_tick, or an error that leaves the row alone.
TickWrites ==
    /\ tick # None
    /\ tick' = None
    /\ \/ sched' = IF sched.there THEN [sched EXCEPT !.next = tick] ELSE sched
       \/ UNCHANGED sched
    /\ UNCHANGED <<shown, editing, mutation, overlapped>>

-----------------------------------------------------------------------------
Next == Open /\ UNCHANGED route /\
    \/ TickReads \/ TickWrites
    \/ \E u \in Users :
          \/ ListArrives(u) \/ handleToggle(u) \/ handleDelete(u) \/ handleEdit(u)
          \/ handleSubmit(u) \/ PatchReads(u) \/ PatchWrites(u) \/ DeleteSchedule(u)

Spec == Init /\ [][Next]_vars

-----------------------------------------------------------------------------
(* Properties.                                                              *)

\* next_run_at is set just when the schedule is on, and is that of its cron.
Coherent == sched.there =>
    /\ sched.enabled <=> sched.next # None
    /\ sched.next \in {None, sched.cron}

\* Writers that come one after the other leave next_run_at coherent, whatever
\* copy of the row, however old, each of them worked from.
SerialWritesAreCoherent == Open /\ ~overlapped => Coherent

\* Toggling a schedule shows in next_run_at (docs/tasks/APP-07.md:22).
ToggleReflectsInPointer == Open /\ ~Busy => (sched.there /\ sched.enabled => sched.next # None)
=============================================================================
