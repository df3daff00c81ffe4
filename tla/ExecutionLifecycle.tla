------------------------- MODULE ExecutionLifecycle -------------------------
(***************************************************************************)
(* What the executions table promises to the panel that polls it: a row    *)
(* appears queued (or already failed, when its job could not be enqueued), *)
(* is started once, finishes once, and a finished row never moves again.   *)
(* Rows created by one transaction appear together.                        *)
(***************************************************************************)
CONSTANT Execs                  \* the execution ids

VARIABLE life                   \* what a reader of the table sees of each row

Stages == {"absent", "queued", "running", "done"}

Init == life = [e \in Execs |-> "absent"]

\* One transaction commits: the rows of new appear queued, those of failed
\* appear already finished.
Create(new, failed) ==
    /\ \A e \in new \cup failed : life[e] = "absent"
    /\ life' = [e \in Execs |-> IF e \in failed THEN "done"
                                ELSE IF e \in new THEN "queued" ELSE life[e]]

Start(e) ==
    /\ life[e] = "queued"
    /\ life' = [life EXCEPT ![e] = "running"]

Finish(e) ==
    /\ life[e] = "running"
    /\ life' = [life EXCEPT ![e] = "done"]

Next ==
    \/ \E new, failed \in SUBSET Execs : Create(new, failed)
    \/ \E e \in Execs : Start(e) \/ Finish(e)

Spec == Init /\ [][Next]_life
=============================================================================
