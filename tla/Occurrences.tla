----------------------------- MODULE Occurrences -----------------------------
(***************************************************************************)
(* An occurrence: acknowledge, resolve and assign of occurrences/routes.py *)
(* over its row, and the page that shows it and asks for them              *)
(* (occurrence-detail-view.tsx with resolve-dialog.tsx, assign-dialog.tsx  *)
(* and runbook-panel.tsx, over lib/api/occurrences.ts).                    *)
(*                                                                         *)
(* A request is one transaction at READ COMMITTED: a SELECT, then an       *)
(* UPDATE by id that waits for the lock of the row, then the commit.  The  *)
(* page has one mutation of each kind, and its query is React Query's,     *)
(* whose request goes on when a mutation sets the data of the query.       *)
(* "snoozed" and "ignored" have no writer; the role of the user, without   *)
(* which the actions are not there, and the notes are left out.            *)
(***************************************************************************)
EXTENDS Naturals

CONSTANTS
    Others,         \* users elsewhere, with one request each
    MaxWrites,      \* bound: UPDATEs of the row
    Faults          \* subset of {"network", "access"}: answers lost, a role or a member lost

VARIABLES
    route,          \* the page the tab is on
    occurrence,     \* the row: its status, resolved_at, its assignee and the count of its writes
    requests,       \* the requests on their way: a mutation of the page, or a user elsewhere
    detail,         \* the query of the page: what it shows and its request
    mutations,      \* what the last attempt of each mutation failed with
    openDialog,     \* the dialog that is open, and its form
    runbook         \* RunbookPanel: whether the code has a runbook, and what is shown

vars == <<route, occurrence, requests, detail, mutations, openDialog, runbook>>

Open == route = "/ocorrencias/[id]"

OccurrenceStatus == {"open", "ack", "snoozed", "resolved", "ignored"}
isTerminal(status) == status \in {"resolved", "ignored"}

Actions == {"acknowledge", "resolve", "assign"}
Actors == Actions \cup Others

Row == [status : OccurrenceStatus, resolvedAt : 0..MaxWrites, assigned : BOOLEAN, stamp : 0..MaxWrites]
New == [status |-> "open", resolvedAt |-> 0, assigned |-> FALSE, stamp |-> 0]

NoRequest == [at |-> "none", action |-> "assign", answer |-> "none", row |-> New]
NoDialog == [action |-> "none", form |-> "empty"]

Errors == {"none", "conflict", "forbidden", "missing", "failed"}

TypeOK == Open =>
    /\ occurrence \in Row
    /\ requests \in [Actors -> [at : {"none", "sent", "fetched", "updated", "answered"},
                                action : Actions, answer : Errors, row : Row]]
    /\ detail \in [status : {"pending", "success", "error"}, data : Row,
                   req : {"none", "asked", "answered"}, got : Row]
    /\ mutations \in [Actions -> Errors]
    /\ openDialog \in [action : {"none", "resolve", "assign"}, form : {"empty", "invalid", "valid"}]
    /\ runbook \in [known : BOOLEAN, view : {"unmounted", "none", "loading", "ok", "error"}]

Init ==
    /\ Open
    /\ occurrence = New
    /\ requests = [a \in Actors |-> NoRequest]
    /\ detail = [status |-> "pending", data |-> New, req |-> "asked", got |-> New]
    /\ mutations = [a \in Actions |-> "none"]
    /\ openDialog = NoDialog
    /\ \E known \in BOOLEAN : runbook = [known |-> known, view |-> "unmounted"]

page == <<detail, mutations, openDialog, runbook>>

-----------------------------------------------------------------------------
(* The API.                                                                 *)

\* What a user elsewhere is answered does not matter here.
Answer(a, answer, row) ==
    requests' = [requests EXCEPT ![a] =
        IF a \in Others THEN NoRequest
        ELSE [at |-> "answered", action |-> a, answer |-> answer, row |-> IF answer = "none" THEN row ELSE New]]

\* A user elsewhere acts.
OtherAsks(a, action) ==
    /\ a \in Others /\ requests[a].at = "none"
    /\ requests' = [requests EXCEPT ![a] = [NoRequest EXCEPT !.at = "sent", !.action = action]]
    /\ UNCHANGED <<occurrence, page>>

\* Access, and _fetch_occurrence, whose status decides.
Fetch(a) ==
    LET action == requests[a].action
        status == occurrence.status IN
    /\ requests[a].at = "sent"
    /\ \/ "access" \in Faults /\ Answer(a, "forbidden", New)
       \/ action = "acknowledge" /\ isTerminal(status) /\ Answer(a, "conflict", New)
       \/ action = "acknowledge" /\ status = "ack" /\ Answer(a, "none", occurrence)
       \/ action = "resolve" /\ status = "ignored" /\ Answer(a, "conflict", New)
       \/ action = "assign" /\ "access" \in Faults /\ Answer(a, "missing", New)
       \/ /\ action = "acknowledge" => ~isTerminal(status) /\ status # "ack"
          /\ action = "resolve" => status # "ignored"
          /\ requests' = [requests EXCEPT ![a].at = "fetched"]
    /\ UNCHANGED <<occurrence, page>>

\* UPDATE ... WHERE id waits for the transaction that has updated the row.
Update(a) ==
    /\ requests[a].at = "fetched"
    /\ \A b \in Actors : requests[b].at # "updated"
    /\ requests' = [requests EXCEPT ![a].at = "updated"]
    /\ UNCHANGED <<occurrence, page>>

\* Without the COALESCE: every resolution is dated anew.
UpdatedAnew(action) ==
    LET stamp == occurrence.stamp + 1 IN
    CASE action = "acknowledge" -> [occurrence EXCEPT !.status = "ack", !.stamp = stamp]
      [] action = "resolve" -> [occurrence EXCEPT !.status = "resolved", !.stamp = stamp, !.resolvedAt = stamp]
      [] action = "assign" -> [occurrence EXCEPT !.assigned = TRUE, !.stamp = stamp]

\* The row it leaves.
Updated(action) ==
    LET stamp == occurrence.stamp + 1 IN
    CASE action = "acknowledge" -> [occurrence EXCEPT !.status = "ack", !.stamp = stamp]
      [] action = "resolve" -> [occurrence EXCEPT !.status = "resolved", !.stamp = stamp,
                                                  !.resolvedAt = IF @ = 0 THEN stamp ELSE @]
      [] action = "assign" -> [occurrence EXCEPT !.assigned = TRUE, !.stamp = stamp]

Commit(a) ==
    /\ requests[a].at = "updated" /\ occurrence.stamp < MaxWrites
    /\ occurrence' = Updated(requests[a].action)
    /\ Answer(a, "none", occurrence')
    /\ UNCHANGED page

-----------------------------------------------------------------------------
(* The page.                                                                *)

Shown == detail.status = "success"

\* Its header.
statusVariant(status) ==
    CASE status = "open" -> "warning"
      [] status = "ack" -> "processing"
      [] status = "snoozed" -> "pending"
      [] status = "resolved" -> "success"
      [] status = "ignored" -> "blocked"
DetailView == IF Shown THEN statusVariant(detail.data.status) ELSE detail.status

\* RunbookPanel is there with the occurrence, and asks for the file when it comes.
RunbookOf(status) ==
    [runbook EXCEPT !.view = IF status # "success" THEN "unmounted"
                             ELSE IF @ # "unmounted" THEN @
                             ELSE IF runbook.known THEN "loading" ELSE "none"]

RunbookArrives ==
    /\ runbook.view = "loading"
    /\ \E view \in {"ok", "error"} : runbook' = [runbook EXCEPT !.view = view]
    /\ UNCHANGED <<occurrence, requests, detail, mutations, openDialog>>

AnswerDetail ==
    /\ detail.req = "asked"
    /\ detail' = [detail EXCEPT !.req = "answered", !.got = occurrence]
    /\ UNCHANGED <<occurrence, requests, mutations, openDialog, runbook>>

DetailArrives ==
    /\ detail.req = "answered"
    /\ detail' = [status |-> "success", data |-> detail.got, req |-> "none", got |-> New]
    /\ runbook' = RunbookOf("success")
    /\ UNCHANGED <<occurrence, requests, mutations, openDialog>>

\* DetailError takes the place of an occurrence that was there.
DetailFails ==
    /\ detail.req # "none" /\ "network" \in Faults
    /\ detail' = [detail EXCEPT !.status = "error", !.req = "none", !.got = New]
    /\ runbook' = RunbookOf("error")
    /\ UNCHANGED <<occurrence, requests, mutations, openDialog>>

\* The connection comes back.
Refetch ==
    /\ detail.req = "none"
    /\ detail' = [detail EXCEPT !.req = "asked"]
    /\ UNCHANGED <<occurrence, requests, mutations, openDialog, runbook>>

-----------------------------------------------------------------------------
(* Its actions.                                                             *)

Pending(action) == requests[action].at # "none"

\* mutate() forgets the error of the attempt before.
Mutate(action) ==
    /\ requests' = [requests EXCEPT ![action] = [NoRequest EXCEPT !.at = "sent", !.action = action]]
    /\ mutations' = [mutations EXCEPT ![action] = "none"]

\* "Reconhecer".
Acknowledge ==
    /\ Shown /\ openDialog.action = "none"
    /\ detail.data.status = "open" /\ ~Pending("acknowledge")
    /\ Mutate("acknowledge")
    /\ UNCHANGED <<occurrence, detail, openDialog, runbook>>

\* "Resolver", of what is shown as not terminal, and "Atribuir".
OpenDialog(action) ==
    /\ Shown /\ openDialog.action = "none"
    /\ action = "resolve" => ~isTerminal(detail.data.status)
    /\ openDialog' = [NoDialog EXCEPT !.action = action]
    /\ UNCHANGED <<occurrence, requests, detail, mutations, runbook>>

\* The dialogs, which show the error of the last attempt, of an earlier opening too.
DialogView(action) ==
    IF openDialog.action # action THEN "closed"
    ELSE IF Pending(action) THEN "pending" ELSE openDialog.form
ResolveDialog == DialogView("resolve")
AssignDialog == DialogView("assign")

Fill(action) ==
    /\ DialogView(action) \in {"empty", "invalid", "valid"}
    /\ \E form \in {"invalid", "valid"} : openDialog' = [openDialog EXCEPT !.form = form]
    /\ UNCHANGED <<occurrence, requests, detail, mutations, runbook>>

\* The schema lets nothing else pass.
SubmitDialog(action) ==
    /\ DialogView(action) = "valid"
    /\ Mutate(action)
    /\ UNCHANGED <<occurrence, detail, openDialog, runbook>>

\* Esc, the backdrop and the "X" close it while it is pending, too.
CloseDialog ==
    /\ openDialog.action # "none"
    /\ openDialog' = NoDialog
    /\ UNCHANGED <<occurrence, requests, detail, mutations, runbook>>

\* onSuccess sets the data of the query, and closes the dialog of that kind, be
\* it the one that was submitted or one opened since; an error is kept.
MutationEnds(action) ==
    LET request == requests[action] IN
    /\ \/ /\ request.at = "answered" /\ request.answer = "none"
          /\ detail' = [detail EXCEPT !.status = "success", !.data = request.row]
          /\ runbook' = RunbookOf("success")
          /\ openDialog' = IF openDialog.action = action THEN NoDialog ELSE openDialog
          /\ UNCHANGED mutations
       \/ /\ \/ request.at = "answered" /\ request.answer # "none"
                                        /\ mutations' = [mutations EXCEPT ![action] = request.answer]
             \/ request.at \in {"sent", "answered"} /\ "network" \in Faults
                                        /\ mutations' = [mutations EXCEPT ![action] = "failed"]
          /\ UNCHANGED <<detail, runbook, openDialog>>
    /\ requests' = [requests EXCEPT ![action] = NoRequest]
    /\ UNCHANGED occurrence

-----------------------------------------------------------------------------
Next ==
    /\ Open /\ UNCHANGED route
    /\ \/ \E a \in Actors : Fetch(a) \/ Update(a) \/ Commit(a)
       \/ \E a \in Others, action \in Actions : OtherAsks(a, action)
       \/ RunbookArrives \/ AnswerDetail \/ DetailArrives \/ DetailFails \/ Refetch
       \/ Acknowledge
       \/ \E action \in {"resolve", "assign"} : OpenDialog(action) \/ Fill(action) \/ SubmitDialog(action)
       \/ CloseDialog
       \/ \E action \in Actions : MutationEnds(action)

Spec == Init /\ [][Next]_vars

-----------------------------------------------------------------------------
(* Properties.                                                              *)

\* resolved_at is the moment of the first resolution: resolutions asked for
\* again after a lost answer, by two users at once, or after a late acknowledge
\* has taken the status back, do not move it (resolve_occurrence, COALESCE).
ResolutionTimeKept ==
    [][Open /\ occurrence.resolvedAt # 0 => occurrence'.resolvedAt = occurrence.resolvedAt]_vars

\* A resolved occurrence is not acknowledged any more, as occurrence-codes.md
\* says of acknowledge: "409 se a ocorrencia ja esta `resolved` ou `ignored`".
ResolvedStaysResolved ==
    [][Open /\ isTerminal(occurrence.status) => isTerminal(occurrence'.status)]_vars

=============================================================================
