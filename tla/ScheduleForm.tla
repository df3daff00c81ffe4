----------------------------- MODULE ScheduleForm -----------------------------
(***************************************************************************)
(* The dialog that creates or edits a schedule (schedule-form-dialog.tsx): *)
(* the expression is kept as a value of the builder, which is read from    *)
(* the schedule's cron when the dialog opens and written back when it is   *)
(* saved, touched or not.  The company, the timezone and the switch travel *)
(* along and are left out; what the API does with the body is Schedules'.  *)
(***************************************************************************)
EXTENDS Cron

CONSTANTS
    Exprs           \* the expressions schedules have or users type

VARIABLES
    route,          \* the page the tab is on
    saved,          \* the cron of the schedule, or NoSchedule
    form,           \* the dialog: its builder, and the call it has made
    original        \* history: the cron of the schedule when the dialog opened,
                    \* until the user chooses a frequency there

vars == <<route, saved, form, original>>

Open == route = "/agendamentos/form"

NoSchedule == [f \in Fields |-> {Part("none", 0, 0, 0)}]
NoForm == [mode |-> "closed"]
Closed == [builder |-> NoForm, submitting |-> FALSE, sent |-> NoSchedule, submitError |-> FALSE]

TypeOK == Open =>
    /\ saved \in Exprs \cup {builderToCron(b) : b \in Builders} \cup {NoSchedule}
    /\ original \in Exprs \cup {builderToCron(b) : b \in Builders} \cup {NoSchedule}
    /\ form.builder.mode \in {"closed", "daily", "weekly", "monthly", "custom"}
    /\ form.submitting \in BOOLEAN /\ form.submitting => form.sent # NoSchedule
    /\ form.submitError \in BOOLEAN

Init ==
    /\ Open
    /\ saved \in {e \in Exprs : Valid(e)} \cup {NoSchedule}
    /\ form = Closed /\ original = saved

\* makeDefaultState; a new schedule is daily at 3:00.
makeDefaultState(cron) == IF cron = NoSchedule THEN Daily(Last["hour"], First["minute"]) ELSE cronToBuilder(cron)

\* cronExpr, cronError and nextRuns, and what they enable.
cronExpr == builderToCron(form.builder)
cronError == ~Valid(cronExpr)
nextRuns == computeNextRuns(cronExpr, 5)
submitEnabled == ~form.submitting /\ ~cronError

OpenDialog ==
    /\ form = Closed
    /\ form' = [Closed EXCEPT !.builder = makeDefaultState(saved)]
    /\ original' = saved
    /\ UNCHANGED saved

\* "Cancelar", a click outside, Escape: not while the call is on its way.
CloseDialog ==
    /\ form # Closed /\ ~form.submitting
    /\ form' = Closed
    /\ UNCHANGED <<saved, original>>

Build(b) ==
    /\ form # Closed
    /\ form' = [form EXCEPT !.builder = b]
    /\ original' = NoSchedule
    /\ UNCHANGED saved

\* patchBuilder: a field of the mode shown (BuilderFields).
patchBuilder ==
    \E b \in Builders \cup {Custom(e) : e \in Exprs} :
        b.mode = form.builder.mode /\ b # form.builder /\ Build(b)

\* setMode: hour and minute are taken over from a builder that has them.
setMode(mode) ==
    /\ form # Closed /\ mode # form.builder.mode
    /\ LET old == form.builder
           timed == old.mode # "custom"
           h == IF timed THEN old.hour ELSE Last["hour"]
           m == IF timed THEN old.minute ELSE First["minute"]
       IN  Build(CASE mode = "daily" -> Daily(h, m)
                   [] mode = "weekly" -> Weekly(First["dow"] + 1, h, m)
                   [] mode = "monthly" -> Monthly(First["day"], h, m)
                   [] mode = "custom" -> Custom(builderToCron(old)))

\* applyPreset, of GET /schedules/presets.
applyPreset == \E e \in Exprs : Valid(e) /\ Build(cronToBuilder(e))

handleSubmit ==
    /\ form # Closed /\ submitEnabled
    /\ form' = [form EXCEPT !.submitting = TRUE, !.sent = cronExpr, !.submitError = FALSE]
    /\ UNCHANGED <<saved, original>>

\* POST or PATCH of what was sent, whatever the form holds by now: saved, and the
\* dialog closes; or a message of what went wrong, whether or not the row was
\* written.
SubmitEnds ==
    /\ form.submitting
    /\ \/ saved' = form.sent /\ form' = Closed
       \/ /\ saved' \in {saved, form.sent}
          /\ form' = [form EXCEPT !.submitting = FALSE, !.sent = NoSchedule, !.submitError = TRUE]
    /\ UNCHANGED original

Next == Open /\ UNCHANGED route /\
    \/ OpenDialog \/ CloseDialog \/ patchBuilder \/ applyPreset
    \/ \E mode \in {"daily", "weekly", "monthly", "custom"} : setMode(mode)
    \/ handleSubmit \/ SubmitEnds

Spec == Init /\ [][Next]_vars

-----------------------------------------------------------------------------
(* Properties.                                                              *)

\* All the instants of the calendar an expression fires at.
Fires(expr) == computeNextRuns(expr, Cardinality(DOMAIN Calendar))

\* A field no form of the builder tells from another that fires otherwise: every
\* value of it named one by one is written back as a *, and a * whose step leaves
\* one value (*/7) as that value.
Confusing(field, f) == IF field.isWildcard THEN Single(field) ELSE AllOf(field, f)

LostInBuilder(expr) == \E f \in {"day", "dow"} : Confusing(parseCron(expr)[f], f)

\* Editing a schedule without choosing a frequency leaves it firing when it did:
\* reading its cron into the builder and writing it back loses nothing, unless
\* its days or its weekdays are such a field.
EditKeepsRuns == Open =>
    (original # NoSchedule /\ ~LostInBuilder(original) => Fires(saved) = Fires(original))

\* Crons outside the builder's forms open as custom (cron.ts:467): what opens in
\* a mode of the builder fires just when the builder's expression does.
CustomStaysCustom == Open =>
    (form # Closed /\ original # NoSchedule =>
        Fires(cronExpr) = Fires(original))

\* The preview follows Unix (cron.ts:335): an instant whose day of the month and
\* weekday are not both among those named is shown for no expression in which
\* one of the two fields has a *.
PreviewIsUnix == Open /\ form # Closed => \A i \in nextRuns :
    LET p == parseCron(cronExpr)
    IN  p["day"].isWildcard \/ p["dow"].isWildcard =>
        Calendar[i]["day"] \in p["day"].values /\ Calendar[i]["dow"] \in p["dow"].values
=============================================================================
