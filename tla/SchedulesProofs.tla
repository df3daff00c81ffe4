--------------------------- MODULE SchedulesProofs ---------------------------
(***************************************************************************)
(* Proofs about Schedules, for any number of users and expressions.        *)
(***************************************************************************)
EXTENDS Schedules, TLAPS

\* The columns a PATCH comes to update, of the row it has read.
Decided(body, row) ==
    [cron |-> body.cron, enabled |-> body.enabled, next |-> NextRun(body, row)]

\* As long as no two writers were at the row at once: a writer is alone there,
\* and what it goes by is still what the row says.
LoneWriter ==
    /\ Coherent
    /\ tick # None =>
        /\ tick = sched.cron /\ sched.enabled
        /\ \A u \in Users : mutation[u].kind # "write"
    /\ \A u, v \in Users : mutation[u].kind = "write" /\ mutation[v].kind = "write" => u = v
    /\ \A u \in Users : mutation[u].kind = "write" =>
          \E body \in Bodies : mutation[u].updates = Decided(body, sched)

TypesOK ==
    /\ Open
    /\ sched \in Rows
    /\ tick \in Crons \cup {None}
    /\ mutation \in [Users -> Calls]
    /\ overlapped \in BOOLEAN

SerialInv == TypesOK /\ (~overlapped => LoneWriter)

LEMMA CallKinds ==
    /\ NoCall \in Calls /\ NoCall.kind = "none"
    /\ [kind |-> "delete"] \in Calls
    /\ \A body \in Bodies : [kind |-> "patch", body |-> body] \in Calls
    /\ \A up \in Updates : [kind |-> "write", updates |-> up] \in Calls
    /\ \A c \in Calls : /\ c.kind = "patch" => c.body \in Bodies
                        /\ c.kind = "write" => c.updates \in Updates
BY DEF Calls, NoCall

LEMMA DecidedType ==
    ASSUME NEW body \in Bodies, NEW row \in Rows
    PROVE  Decided(body, row) \in Updates
BY DEF Decided, NextRun, Bodies, Rows, Updates

LEMMA UpdatedType ==
    ASSUME NEW row \in Rows, NEW up \in Updates
    PROVE  /\ Updated(row, up) \in Rows
           /\ [row EXCEPT !.there = FALSE] \in Rows
BY DEF Updated, Rows, Updates, Keep, None

\* What a PATCH decides of a coherent row keeps the row coherent.
LEMMA DecisionIsCoherent ==
    ASSUME {None, Keep} \cap Crons = {},
           NEW body \in Bodies, NEW row \in Rows,
           row.enabled <=> row.next # None, row.next \in {None, row.cron}
    PROVE  LET new == Updated(row, Decided(body, row))
           IN  /\ new.enabled <=> new.next # None
               /\ new.next \in {None, new.cron}
<1>1. /\ body.cron \in Crons \cup {Keep} /\ body.enabled \in BOOLEAN
      /\ row.cron \in Crons /\ row.enabled \in BOOLEAN
      /\ None # Keep
  BY DEF Bodies, Rows, None, Keep
<1> DEFINE new == Updated(row, Decided(body, row))
           n == NextRun(body, row)
<1> SUFFICES (new.enabled <=> new.next # None) /\ new.next \in {None, new.cron}
  OBVIOUS
<1>2. /\ new.enabled = body.enabled
      /\ new.cron = IF body.cron = Keep THEN row.cron ELSE body.cron
      /\ new.next = IF n = Keep THEN row.next ELSE n
  BY DEF Updated, Decided, Rows
<1>3. new.cron \in Crons
  BY <1>1, <1>2
<1>4. n = CASE new.cron # row.cron \/ (body.enabled /\ ~row.enabled) ->
                     IF body.enabled THEN new.cron ELSE None
            [] ~body.enabled /\ row.enabled -> None
            [] OTHER -> Keep
  BY <1>1, <1>2 DEF NextRun
<1> HIDE DEF new, n
<1>5. CASE new.cron # row.cron \/ (body.enabled /\ ~row.enabled)
  BY <1>1, <1>2, <1>3, <1>4, <1>5
<1>6. CASE new.cron = row.cron /\ ~body.enabled /\ row.enabled
  BY <1>1, <1>2, <1>3, <1>4, <1>6
<1>7. CASE new.cron = row.cron /\ body.enabled = row.enabled
  BY <1>1, <1>2, <1>3, <1>4, <1>7
<1>8. QED
  BY <1>1, <1>2, <1>5, <1>6, <1>7

LEMMA StepTypes == TypesOK /\ [Next]_vars => TypesOK'
<1> SUFFICES ASSUME TypesOK, [Next]_vars PROVE TypesOK'
  OBVIOUS
<1> USE DEF TypesOK
<1>1. CASE UNCHANGED vars
  BY <1>1 DEF vars, Open
<1>2. ASSUME Open', UNCHANGED <<sched, tick, overlapped>>, NEW u \in Users, NEW c \in Calls,
             mutation' = [mutation EXCEPT ![u] = c] \/ UNCHANGED mutation
      PROVE  TypesOK'
  BY <1>2
<1>3. CASE Next
  <2>1. Open'
    BY <1>3 DEF Next, Open
  <2>2. CASE TickReads
    BY <2>1, <2>2 DEF TickReads, Busy, Rows
  <2>3. CASE TickWrites
    <3>1. tick \in Crons => [sched EXCEPT !.next = tick] \in Rows
      BY DEF Rows
    <3>2. sched' \in Rows
      BY <2>3, <3>1 DEF TickWrites
    <3>3. QED
      BY <2>1, <2>3, <3>2 DEF TickWrites
  <2>4. ASSUME NEW u \in Users, ListArrives(u) \/ handleEdit(u) PROVE TypesOK'
    BY <2>1, <2>4 DEF ListArrives, handleEdit
  <2>5. ASSUME NEW u \in Users, handleDelete(u) PROVE TypesOK'
    BY <1>2, <2>1, <2>5, CallKinds DEF handleDelete, Call
  <2>6. ASSUME NEW u \in Users, NEW body \in Bodies,
               Call(u, [kind |-> "patch", body |-> body]), UNCHANGED <<sched, tick, overlapped>>
        PROVE  TypesOK'
    BY <1>2, <2>1, <2>6, CallKinds DEF Call
  <2>7. ASSUME NEW u \in Users, handleToggle(u) PROVE TypesOK'
    <3>1. [cron |-> Keep, enabled |-> shown[u] = "off"] \in Bodies
      BY DEF Bodies
    <3>2. QED
      BY <2>6, <2>7, <3>1 DEF handleToggle
  <2>8. ASSUME NEW u \in Users, handleSubmit(u) PROVE TypesOK'
    <3>1. \A c \in Crons, on \in BOOLEAN : [cron |-> c, enabled |-> on] \in Bodies
      BY DEF Bodies
    <3>2. QED
      BY <2>6, <2>8, <3>1 DEF handleSubmit
  <2>9. ASSUME NEW u \in Users, PatchReads(u) PROVE TypesOK'
    <3>1. Decided(mutation[u].body, sched) \in Updates
      BY <2>9, CallKinds, DecidedType DEF PatchReads
    <3> DEFINE c == [kind |-> "write", updates |-> Decided(mutation[u].body, sched)]
    <3>2. c \in Calls /\ NoCall \in Calls
      BY <3>1, CallKinds
    <3>3. mutation' = [mutation EXCEPT ![u] = c] \/ mutation' = [mutation EXCEPT ![u] = NoCall]
      BY <2>9 DEF PatchReads, Answer, Decided
    <3>4. overlapped' \in BOOLEAN /\ UNCHANGED <<sched, tick>>
      BY <2>9 DEF PatchReads, Busy
    <3> HIDE DEF c
    <3>5. QED
      BY <2>1, <3>2, <3>3, <3>4
  <2>10. ASSUME NEW u \in Users, PatchWrites(u) PROVE TypesOK'
    <3>1. Updated(sched, mutation[u].updates) \in Rows
      BY <2>10, CallKinds, UpdatedType DEF PatchWrites
    <3>2. sched' \in Rows /\ UNCHANGED <<tick, overlapped>>
      BY <2>10, <3>1 DEF PatchWrites
    <3>3. mutation' \in [Users -> Calls]
      BY <2>10, CallKinds DEF PatchWrites, Answer
    <3>4. QED
      BY <2>1, <3>2, <3>3
  <2>11. ASSUME NEW u \in Users, DeleteSchedule(u) PROVE TypesOK'
    <3>1. sched' \in Rows /\ UNCHANGED <<tick, overlapped>>
      BY <2>11, UpdatedType DEF DeleteSchedule, Rows
    <3>2. mutation' \in [Users -> Calls]
      BY <2>11, CallKinds DEF DeleteSchedule, Answer
    <3>3. QED
      BY <2>1, <3>1, <3>2
  <2>12. QED
    BY <1>3, <2>2, <2>3, <2>4, <2>5, <2>7, <2>8, <2>9, <2>10, <2>11 DEF Next
<1>4. QED
  BY <1>1, <1>3

\* A step that leaves the row, the tick and the writers as they are.
LEMMA LoneWriterStays ==
    ASSUME TypesOK, LoneWriter, UNCHANGED <<sched, tick>>,
           \A u \in Users : mutation'[u].kind = "write" =>
               mutation[u].kind = "write" /\ mutation'[u] = mutation[u]
    PROVE  LoneWriter'
BY DEF LoneWriter, Coherent, Decided, NextRun

LEMMA StepSerial ==
    ASSUME {None, Keep} \cap Crons = {}, SerialInv, [Next]_vars
    PROVE  SerialInv'
<1>1. TypesOK /\ TypesOK'
  BY StepTypes DEF SerialInv
<1> SUFFICES ASSUME ~overlapped' PROVE LoneWriter'
  BY <1>1 DEF SerialInv
<1>2. overlapped \in BOOLEAN /\ mutation \in [Users -> Calls] /\ sched \in Rows
  BY <1>1 DEF TypesOK
<1>3. CASE UNCHANGED vars
  <2>1. LoneWriter
    BY <1>2, <1>3 DEF SerialInv, vars
  <2>2. QED
    BY <1>1, <1>3, <2>1, LoneWriterStays DEF vars
<1>4. ASSUME NEW u \in Users,
             ListArrives(u) \/ handleEdit(u) \/ handleDelete(u) \/ handleToggle(u) \/ handleSubmit(u)
      PROVE  LoneWriter'
  <2>1. UNCHANGED <<sched, tick, overlapped>>
    BY <1>4 DEF ListArrives, handleEdit, handleDelete, handleToggle, handleSubmit
  <2>2. \/ UNCHANGED mutation
        \/ \E c : c.kind # "write" /\ Call(u, c)
    BY <1>4 DEF ListArrives, handleEdit, handleDelete, handleToggle, handleSubmit
  <2>3. \A v \in Users : mutation'[v].kind = "write" =>
            mutation[v].kind = "write" /\ mutation'[v] = mutation[v]
    BY <1>2, <2>2 DEF Call
  <2>4. LoneWriter
    BY <1>2, <2>1 DEF SerialInv
  <2>5. QED
    BY <1>1, <2>1, <2>3, <2>4, LoneWriterStays
<1>5. ASSUME NEW u \in Users, PatchReads(u) PROVE LoneWriter'
  <2>1. CASE Answer(u, FALSE) /\ UNCHANGED overlapped
    <3>1. UNCHANGED <<sched, tick>> /\ LoneWriter
      BY <1>2, <1>5, <2>1 DEF PatchReads, SerialInv
    <3>2. \A v \in Users : mutation'[v].kind = "write" =>
              mutation[v].kind = "write" /\ mutation'[v] = mutation[v]
      BY <1>2, <2>1, CallKinds DEF Answer
    <3>3. QED
      BY <1>1, <3>1, <3>2, LoneWriterStays
  <2>2. CASE overlapped' = (overlapped \/ Busy)
    <3>1. LoneWriter /\ ~Busy
      BY <1>2, <2>2 DEF SerialInv
    <3>2. UNCHANGED <<sched, tick>> /\ mutation[u].body \in Bodies
      BY <1>2, <1>5, CallKinds DEF PatchReads
    <3>3. tick = None /\ \A v \in Users : mutation[v].kind # "write"
      BY <3>1 DEF Busy
    <3>4. \/ mutation' = [mutation EXCEPT ![u] =
                 [kind |-> "write", updates |-> Decided(mutation[u].body, sched)]]
          \/ mutation' = [mutation EXCEPT ![u] = NoCall]
      BY <1>5 DEF PatchReads, Answer, Decided
    <3>5. \A v \in Users : mutation'[v].kind = "write" =>
              v = u /\ mutation'[v].updates = Decided(mutation[u].body, sched')
      BY <1>2, <3>2, <3>3, <3>4, CallKinds
    <3>6. Coherent'
      BY <3>1, <3>2 DEF LoneWriter, Coherent
    <3>7. QED
      BY <3>2, <3>3, <3>5, <3>6 DEF LoneWriter
  <2>3. QED
    BY <1>5, <2>1, <2>2 DEF PatchReads
<1>6. ASSUME NEW u \in Users, PatchWrites(u) PROVE LoneWriter'
  <2>1. /\ mutation[u].kind = "write" /\ UNCHANGED <<tick, overlapped>>
        /\ mutation' = [mutation EXCEPT ![u] = NoCall]
        /\ sched' = IF sched.there THEN Updated(sched, mutation[u].updates) ELSE sched
    BY <1>6 DEF PatchWrites, Answer
  <2>2. LoneWriter
    BY <1>2, <2>1 DEF SerialInv
  <2>3. tick = None /\ \A v \in Users : mutation'[v].kind # "write"
    BY <1>2, <2>1, <2>2, CallKinds DEF LoneWriter
  <2>4. Coherent'
    <3>1. CASE sched.there
      <4>1. PICK body \in Bodies : mutation[u].updates = Decided(body, sched)
        BY <2>1, <2>2 DEF LoneWriter
      <4>2. (sched.enabled <=> sched.next # None) /\ sched.next \in {None, sched.cron}
        BY <2>2, <3>1 DEF LoneWriter, Coherent
      <4>3. sched' = Updated(sched, Decided(body, sched))
        BY <2>1, <3>1, <4>1
      <4>4. QED
        BY <1>2, <4>2, <4>3, DecisionIsCoherent DEF Coherent
    <3>2. CASE ~sched.there
      BY <2>1, <3>2 DEF Coherent
    <3>3. QED
      BY <3>1, <3>2
  <2>5. QED
    BY <2>1, <2>3, <2>4 DEF LoneWriter
<1>7. ASSUME NEW u \in Users, DeleteSchedule(u) PROVE LoneWriter'
  <2>1. /\ sched' = [sched EXCEPT !.there = FALSE] \/ UNCHANGED sched
        /\ mutation' = [mutation EXCEPT ![u] = NoCall] /\ UNCHANGED <<tick, overlapped>>
    BY <1>7 DEF DeleteSchedule, Answer
  <2>2. LoneWriter
    BY <1>2, <2>1 DEF SerialInv
  <2>3. sched'.enabled = sched.enabled /\ sched'.cron = sched.cron
    BY <1>2, <2>1 DEF Rows
  <2>4. Coherent'
    BY <1>2, <2>1, <2>2 DEF Coherent, LoneWriter, Rows
  <2>5. \A v \in Users : mutation'[v].kind = "write" =>
            mutation[v].kind = "write" /\ mutation'[v] = mutation[v]
    BY <1>2, <2>1, CallKinds
  <2>6. \A body : Decided(body, sched') = Decided(body, sched)
    BY <2>3 DEF Decided, NextRun
  <2>7. QED
    BY <2>1, <2>2, <2>3, <2>4, <2>5, <2>6 DEF LoneWriter
<1>8. CASE TickReads
  <2>1. LoneWriter /\ ~Busy
    BY <1>2, <1>8 DEF SerialInv, TickReads
  <2>2. sched.enabled /\ tick' = sched.cron /\ UNCHANGED <<sched, mutation>>
    BY <1>8 DEF TickReads
  <2>3. \A u \in Users : mutation'[u].kind # "write"
    BY <2>1, <2>2 DEF Busy
  <2>4. Coherent'
    BY <2>1, <2>2 DEF LoneWriter, Coherent
  <2>5. QED
    BY <2>2, <2>3, <2>4 DEF LoneWriter
<1>9. CASE TickWrites
  <2>1. /\ tick # None /\ tick' = None /\ UNCHANGED <<mutation, overlapped>>
        /\ sched' = [sched EXCEPT !.next = tick] \/ UNCHANGED sched
    BY <1>9 DEF TickWrites
  <2>2. LoneWriter
    BY <1>2, <2>1 DEF SerialInv
  <2>3. tick = sched.cron /\ sched.enabled /\ \A u \in Users : mutation'[u].kind # "write"
    BY <2>1, <2>2 DEF LoneWriter
  <2>4. Coherent'
    BY <1>2, <2>1, <2>2, <2>3 DEF Coherent, LoneWriter, Rows
  <2>5. QED
    BY <2>1, <2>3, <2>4 DEF LoneWriter
<1>10. QED
  BY <1>3, <1>4, <1>5, <1>6, <1>7, <1>8, <1>9 DEF Next

LEMMA InitSerial ==
    ASSUME {None, Keep} \cap Crons = {}, Init
    PROVE  SerialInv
<1>1. PICK c \in Crons, on \in BOOLEAN :
         sched = [there |-> TRUE, enabled |-> on, cron |-> c, next |-> IF on THEN c ELSE None]
  BY DEF Init
<1>2. sched \in Rows /\ Coherent
  <2>1. c # None
    OBVIOUS
  <2>2. QED
    BY <1>1, <2>1 DEF Rows, Coherent
<1>3. mutation \in [Users -> Calls] /\ \A u \in Users : mutation[u].kind # "write"
  BY CallKinds DEF Init
<1>4. QED
  BY <1>2, <1>3 DEF Init, SerialInv, TypesOK, LoneWriter

\* Writers of a schedule that come one after the other leave its next_run_at
\* coherent with its switch and its cron, whatever old copy of the row a tab
\* acts on: PATCH recomputes it in each case that needs it (update_schedule,
\* schedules/routes.py).
THEOREM SerialWritersKeepPointer ==
    ASSUME {None, Keep} \cap Crons = {}
    PROVE  Spec => []SerialWritesAreCoherent
<1>1. Init => SerialInv
  BY InitSerial
<1>2. SerialInv /\ [Next]_vars => SerialInv'
  BY StepSerial
<1>3. SerialInv => SerialWritesAreCoherent
  BY DEF SerialInv, LoneWriter, SerialWritesAreCoherent
<1>4. QED
  BY <1>1, <1>2, <1>3, PTL DEF Spec

-----------------------------------------------------------------------------
(* What the page of each user shows.                                        *)

ShownOK ==
    /\ shown \in [Users -> {"loading", "error", "empty", "on", "off"}]
    /\ editing \in [Users -> BOOLEAN]

LEMMA InitShown == Init => ShownOK
BY DEF Init, ShownOK

LEMMA StepShown ==
    ASSUME ShownOK, [Next]_vars
    PROVE  ShownOK'
<1> USE DEF ShownOK
<1>1. ASSUME NEW u \in Users, ListArrives(u) PROVE ShownOK'
  <2>1. ListOf(sched) \in {"empty", "on", "off"}
    BY DEF ListOf
  <2>2. QED
    BY <1>1, <2>1 DEF ListArrives
<1>2. ASSUME NEW u \in Users, NEW ok \in BOOLEAN, Answer(u, ok) PROVE editing' \in [Users -> BOOLEAN]
  BY <1>2 DEF Answer
<1>3. ASSUME NEW u \in Users,
             PatchReads(u) \/ PatchWrites(u) \/ DeleteSchedule(u)
      PROVE  ShownOK'
  <2>1. UNCHANGED shown
    BY <1>3 DEF PatchReads, PatchWrites, DeleteSchedule
  <2>2. UNCHANGED editing \/ \E ok : editing' = [editing EXCEPT ![u] = @ /\ ~ok]
    BY <1>3 DEF PatchReads, PatchWrites, DeleteSchedule, Answer
  <2>3. QED
    BY <2>1, <2>2
<1>4. ASSUME NEW u \in Users, handleEdit(u) PROVE ShownOK'
  BY <1>4 DEF handleEdit
<1>5. QED
  BY <1>1, <1>3, <1>4
  DEF Next, vars, TickReads, TickWrites, handleToggle, handleDelete, handleSubmit
=============================================================================
