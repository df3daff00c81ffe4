--------------------------------- MODULE Cron ---------------------------------
(***************************************************************************)
(* Cron expressions of the schedules page (lib/schedules/cron.ts): what an *)
(* expression means, when it fires next, and the way to the friendly       *)
(* builder and back.  An expression is a field for each of Fields, a field *)
(* is the set of its comma-separated parts, or empty when the text is not  *)
(* of that form; an instant is its local parts in the schedule's timezone. *)
(***************************************************************************)
EXTENDS Naturals, FiniteSets

CONSTANTS
    First, Last,    \* per field, its range (0-59, 0-23, 1-31, 1-12, 0-6)
    Calendar        \* the instants to come, in order: a sequence of local parts

Fields == {"minute", "hour", "day", "month", "dow"}

RangeOf(f) == First[f]..Last[f]

\* One part of a field: *, a, or a-b, with a step n as in */n; 0 for no step.
Part(base, a, b, step) == [base |-> base, a |-> a, b |-> b, step |-> step]
Star == {Part("star", 0, 0, 0)}
Only(v) == {Part("one", v, v, 0)}

\* Where a part begins and ends: a/n goes on to the end of the range.
From(p, f) == IF p.base = "star" THEN First[f] ELSE p.a
To(p, f) == CASE p.base = "star" -> Last[f]
              [] p.base = "one" /\ p.step > 0 -> Last[f]
              [] OTHER -> p.b

PartValid(p, f) == From(p, f) >= First[f] /\ To(p, f) <= Last[f] /\ (p.base = "range" => p.a <= p.b)

PartValues(p, f) == {v \in From(p, f)..To(p, f) : p.step = 0 \/ (v - From(p, f)) % p.step = 0}

\* parseField: a field with a * in it is a wildcard, step or not.
parseField(parts, f) ==
    [values |-> UNION {PartValues(p, f) : p \in parts},
     isWildcard |-> \E p \in parts : p.base = "star"]

\* parseCron, of an expression for which validateCron finds no error.
Valid(expr) == \A f \in Fields : expr[f] # {} /\ \A p \in expr[f] : PartValid(p, f)
parseCron(expr) == [f \in Fields |-> parseField(expr[f], f)]

AllOf(field, f) == field.values = RangeOf(f)
Single(field) == Cardinality(field.values) = 1
The(field) == CHOOSE v \in field.values : TRUE

\* matches: a restricted day and a restricted weekday are ORed; of a wildcard
\* field only the other one counts.
matches(t, parsed) ==
    /\ \A f \in {"minute", "hour", "month"} : t[f] \in parsed[f].values
    /\ LET restricted == {f \in {"day", "dow"} : ~parsed[f].isWildcard}
       IN  restricted = {} \/ \E f \in restricted : t[f] \in parsed[f].values

\* computeNextRuns: the first count instants that match.
computeNextRuns(expr, count) ==
    IF ~Valid(expr) THEN {}
    ELSE LET hits == {i \in DOMAIN Calendar : matches(Calendar[i], parseCron(expr))}
         IN  {i \in hits : Cardinality({j \in hits : j < i}) < count}

-----------------------------------------------------------------------------
(* The builder.                                                             *)

Daily(h, m) == [mode |-> "daily", hour |-> h, minute |-> m]
Weekly(d, h, m) == [mode |-> "weekly", dow |-> d, hour |-> h, minute |-> m]
Monthly(d, h, m) == [mode |-> "monthly", day |-> d, hour |-> h, minute |-> m]
Custom(expr) == [mode |-> "custom", expr |-> expr]

Builders ==
    {Daily(h, m) : h \in RangeOf("hour"), m \in RangeOf("minute")}
    \cup {Weekly(d, h, m) : d \in RangeOf("dow"), h \in RangeOf("hour"), m \in RangeOf("minute")}
    \cup {Monthly(d, h, m) : d \in RangeOf("day"), h \in RangeOf("hour"), m \in RangeOf("minute")}

At(b, day, dow) ==
    [minute |-> Only(b.minute), hour |-> Only(b.hour), day |-> day, month |-> Star, dow |-> dow]

builderToCron(b) ==
    CASE b.mode = "daily" -> At(b, Star, Star)
      [] b.mode = "weekly" -> At(b, Star, Only(b.dow))
      [] b.mode = "monthly" -> At(b, Only(b.day), Star)
      [] b.mode = "custom" -> b.expr

\* A day of the month makes it monthly, whatever the weekdays.
DayFormLoose(p) ==
    IF ~Single(p["minute"]) \/ ~Single(p["hour"]) \/ ~AllOf(p["month"], "month") THEN "custom"
    ELSE IF Single(p["day"]) THEN "monthly"
    ELSE IF Single(p["dow"]) THEN "weekly"
    ELSE IF AllOf(p["day"], "day") /\ AllOf(p["dow"], "dow") THEN "daily"
    ELSE "custom"

\* The forms cronToBuilder and humanizeCron know: which days, of an expression
\* with one minute, one hour and every month.
DayForm(p) ==
    IF ~Single(p["minute"]) \/ ~Single(p["hour"]) \/ ~AllOf(p["month"], "month") THEN "custom"
    ELSE IF AllOf(p["day"], "day") /\ AllOf(p["dow"], "dow") THEN "daily"
    ELSE IF AllOf(p["day"], "day") /\ Single(p["dow"]) THEN "weekly"
    ELSE IF AllOf(p["dow"], "dow") /\ Single(p["day"]) THEN "monthly"
    ELSE "custom"

\* cronToBuilder; what the builder has no form for stays custom.
cronToBuilder(expr) ==
    IF ~Valid(expr) THEN Custom(expr)
    ELSE LET p == parseCron(expr)
             form == DayForm(p)
             h == The(p["hour"])
             m == The(p["minute"])
         IN  CASE form = "daily" -> Daily(h, m)
               [] form = "weekly" -> Weekly(The(p["dow"]), h, m)
               [] form = "monthly" -> Monthly(The(p["day"]), h, m)
               [] OTHER -> Custom(expr)

\* humanizeCron: the sentence of a schedule in the list, by its kind.
humanizeCron(expr) ==
    IF Valid(expr) /\ \A f \in Fields : AllOf(parseCron(expr)[f], f) THEN [mode |-> "every minute"]
    ELSE cronToBuilder(expr)
=============================================================================
