------------------------------ MODULE FilesPage ------------------------------
(***************************************************************************)
(* The files page (arquivos-view.tsx) and its dialog, which orders an      *)
(* export and polls it until it has ended (gerar-zip-dialog.tsx, over      *)
(* lib/api/exports.ts and lib/api/files.ts), against the exports API and   *)
(* worker of Exports.                                                      *)
(*                                                                         *)
(* Time is counted in polling intervals.  The effect that polls is started *)
(* by the phase "polling", and starts over whenever the state or the       *)
(* access token changes: startedAt is its own.                             *)
(***************************************************************************)
EXTENDS Naturals, Sequences

CONSTANTS
    PollTimeout,    \* POLL_TIMEOUT_MS, in POLL_INTERVAL_MS
    MaxExports,     \* bound: exports ordered
    MaxRenewals,    \* bound: times the access token is renewed
    MaxFailures     \* bound: requests that fail

VARIABLES
    route,          \* the page the tab is on
    exports,        \* the exports of the tenant, as the API tells them
    dialog,         \* the phase of GerarZipDialog, and the export it is about
    polling,        \* the effect that polls: its timer, its request, startedAt
    filesList,      \* the list of files: what it shows and what is asked
    downloading,    \* downloadingId, and the requests for a link on their way
    filesFaults     \* renewals and failures so far

vars == <<route, exports, dialog, polling, filesList, downloading, filesFaults>>

Open == route = "/arquivos"

\* isTerminalExportStatus.
TerminalStatuses == {"ready", "failed", "empty"}
ExportStatuses == TerminalStatuses \cup {"queued", "running"}
InProgress == {"submitting", "polling"}

Ids == 1..Len(exports)
\* The files, of those the filters let through: each export leaves one.
ReadyFiles == {i \in Ids : exports[i] = "ready"}

Stopped == [at |-> "stopped", got |-> "queued", since |-> 0]
Started == [at |-> "timer", got |-> "queued", since |-> 0]

TypeOK == Open =>
    /\ exports \in Seq(ExportStatuses) /\ Len(exports) <= MaxExports
    /\ dialog \in [phase : {"closed", "idle", "ready", "empty", "failed", "timed_out"} \cup InProgress,
                   id : 0..MaxExports]
    /\ polling \in [at : {"stopped", "timer", "asked", "answered", "failed"},
                    got : ExportStatuses, since : 0..PollTimeout + 1]
    /\ filesList \in [view : {"loading", "error", "rows"}, rows : SUBSET (1..MaxExports),
                      req : {"none", "asked"}]
    /\ downloading \in [button : 0..MaxExports, asked : SUBSET (1..MaxExports), error : BOOLEAN]
    /\ filesFaults \in [renewals : 0..MaxRenewals, failures : 0..MaxFailures]

Init ==
    /\ Open
    /\ exports = <<>>
    /\ dialog = [phase |-> "closed", id |-> 0]
    /\ polling = Stopped
    /\ filesList = [view |-> "loading", rows |-> {}, req |-> "asked"]
    /\ downloading = [button |-> 0, asked |-> {}, error |-> FALSE]
    /\ filesFaults = [renewals |-> 0, failures |-> 0]

\* What is shown: of the list, and of the dialog by its phase.
FilesView == IF filesList.view # "rows" THEN filesList.view
             ELSE IF filesList.rows = {} THEN "empty" ELSE "table"
DialogView == IF dialog.phase \in {"closed", "ready", "empty", "timed_out"} THEN dialog.phase
              ELSE "form"

\* A request fails: what is shown of it is its error.
Fails == filesFaults.failures < MaxFailures
         /\ filesFaults' = [filesFaults EXCEPT !.failures = @ + 1]

-----------------------------------------------------------------------------
(* The worker, as the API tells of it.                                      *)

WorkerRuns(i) ==
    /\ i \in Ids
    /\ \/ exports[i] = "queued" /\ exports' = [exports EXCEPT ![i] = "running"]
       \/ exports[i] = "running" /\ \E st \in TerminalStatuses : exports' = [exports EXCEPT ![i] = st]
    /\ UNCHANGED <<dialog, polling, filesList, downloading, filesFaults>>

-----------------------------------------------------------------------------
(* The list of files.                                                       *)

\* A filter or a page not seen before.
ChangeFilter ==
    /\ dialog.phase = "closed"
    /\ filesList' = [view |-> "loading", rows |-> {}, req |-> "asked"]
    /\ UNCHANGED <<exports, dialog, polling, downloading, filesFaults>>

\* "Tentar novamente".
Refetch ==
    /\ dialog.phase = "closed" /\ filesList.view = "error" /\ filesList.req = "none"
    /\ filesList' = [filesList EXCEPT !.req = "asked"]
    /\ UNCHANGED <<exports, dialog, polling, downloading, filesFaults>>

\* The answer; a failure, even of a list that was there, is shown in its place.
ListArrives ==
    /\ filesList.req = "asked"
    /\ \/ /\ filesList' = [view |-> "rows", rows |-> ReadyFiles, req |-> "none"]
          /\ UNCHANGED filesFaults
       \/ Fails /\ filesList' = [filesList EXCEPT !.view = "error", !.req = "none"]
    /\ UNCHANGED <<exports, dialog, polling, downloading>>

\* The effects of a filter or a dialog on the list: invalidateQueries drops the
\* request on its way and asks anew.
Invalidated == filesList' = [filesList EXCEPT !.req = "asked"]

\* handleDownload: the button of the last file asked for is disabled.
handleDownload(i) ==
    /\ dialog.phase = "closed" /\ FilesView = "table" /\ i \in filesList.rows
    /\ downloading.button # i /\ i \notin downloading.asked
    /\ downloading' = [button |-> i, asked |-> downloading.asked \cup {i}, error |-> FALSE]
    /\ UNCHANGED <<exports, dialog, polling, filesList, filesFaults>>

\* A new tab with the signed link, or the error: the button works again,
\* whichever request ended.
DownloadEnds(i) ==
    /\ i \in downloading.asked
    /\ \/ /\ downloading' = [downloading EXCEPT !.button = 0, !.asked = @ \ {i}]
          /\ UNCHANGED filesFaults
       \/ Fails /\ downloading' = [button |-> 0, asked |-> downloading.asked \ {i}, error |-> TRUE]
    /\ UNCHANGED <<exports, dialog, polling, filesList>>

-----------------------------------------------------------------------------
(* The dialog.                                                              *)

dismissable == dialog.phase \notin InProgress

\* "Gerar arquivo", which resets the dialog.
OpenDialog ==
    /\ dialog.phase = "closed"
    /\ dialog' = [phase |-> "idle", id |-> 0]
    /\ UNCHANGED <<exports, polling, filesList, downloading, filesFaults>>

Close ==
    /\ dismissable
    /\ dialog' = [phase |-> "closed", id |-> 0]
    /\ UNCHANGED <<exports, polling, filesList, downloading, filesFaults>>

\* "Cancelar" of the form, "Fechar" of the panel of an export that has ended.
CloseDialog == DialogView = "form" /\ Close
ClosePanel == DialogView \in {"ready", "empty", "timed_out"} /\ Close

\* "Gerar": refused at once without a company.
handleSubmit ==
    /\ DialogView = "form" /\ dialog.phase \notin InProgress
    /\ \E picked \in BOOLEAN :
          dialog' = [phase |-> IF picked THEN "submitting" ELSE "failed", id |-> 0]
    /\ UNCHANGED <<exports, polling, filesList, downloading, filesFaults>>

\* POST /exports: the row, queued or failed when the queue did not take the job;
\* or an error, with a row if it was the answer that got lost.
Submitted ==
    /\ dialog.phase = "submitting" /\ Len(exports) < MaxExports
    /\ \/ /\ exports' = Append(exports, "queued")
          /\ dialog' = [phase |-> "polling", id |-> Len(exports) + 1]
          /\ polling' = Started
          /\ UNCHANGED filesFaults
       \/ /\ Fails
          /\ exports' \in {exports, Append(exports, "failed"), Append(exports, "queued")}
          /\ dialog' = [phase |-> "failed", id |-> 0]
          /\ UNCHANGED polling
    /\ UNCHANGED <<filesList, downloading>>

\* POLL_INTERVAL_MS later: tick asks for the export.
TimerFires ==
    /\ polling.at = "timer"
    /\ polling' = [polling EXCEPT !.at = "asked",
                                  !.since = IF @ > PollTimeout THEN @ ELSE @ + 1]
    /\ UNCHANGED <<exports, dialog, filesList, downloading, filesFaults>>

\* An interval passes while the request is on its way.
AnswerIsSlow ==
    /\ polling.at = "asked" /\ polling.since <= PollTimeout
    /\ polling' = [polling EXCEPT !.since = @ + 1]
    /\ UNCHANGED <<exports, dialog, filesList, downloading, filesFaults>>

AnswerPoll ==
    /\ polling.at = "asked"
    /\ \/ polling' = [polling EXCEPT !.at = "answered", !.got = exports[dialog.id]]
          /\ UNCHANGED filesFaults
       \/ Fails /\ polling' = [polling EXCEPT !.at = "failed"]
    /\ UNCHANGED <<exports, dialog, filesList, downloading>>

\* The rest of tick.  A status that is not final is written to the state, which
\* ends this effect and starts another; the export timed out if this one is old.
\* One failed request is the end, whatever becomes of the export.
PollArrives ==
    /\ polling.at \in {"answered", "failed"}
    /\ LET over == polling.at = "failed" \/ polling.got \in TerminalStatuses
           phase == IF polling.at = "failed" THEN "failed"
                    ELSE IF polling.got \in TerminalStatuses THEN polling.got
                    ELSE IF polling.since > PollTimeout THEN "timed_out"
                    ELSE "polling"
       IN  /\ dialog' = [dialog EXCEPT !.phase = phase]
           /\ polling' = IF phase = "polling" THEN Started ELSE Stopped
           /\ IF phase = "ready" THEN Invalidated ELSE UNCHANGED filesList
    /\ UNCHANGED <<exports, downloading, filesFaults>>

\* The access token is renewed: the effect is cleaned up and not started again.
TokenRenewedStops ==
    /\ filesFaults.renewals < MaxRenewals
    /\ filesFaults' = [filesFaults EXCEPT !.renewals = @ + 1]
    /\ polling' = Stopped
    /\ UNCHANGED <<exports, dialog, filesList, downloading>>

\* The access token is renewed: the effect starts over and the answer on its
\* way, if there is one, is dropped.
TokenRenewed ==
    /\ filesFaults.renewals < MaxRenewals
    /\ filesFaults' = [filesFaults EXCEPT !.renewals = @ + 1]
    /\ polling' = IF dialog.phase = "polling" THEN Started ELSE polling
    /\ UNCHANGED <<exports, dialog, filesList, downloading>>

-----------------------------------------------------------------------------
Next == Open /\ UNCHANGED route /\
    \/ \E i \in 1..MaxExports : WorkerRuns(i) \/ handleDownload(i) \/ DownloadEnds(i)
    \/ ChangeFilter \/ Refetch \/ ListArrives
    \/ OpenDialog \/ CloseDialog \/ ClosePanel \/ handleSubmit \/ Submitted
    \/ TimerFires \/ AnswerIsSlow \/ AnswerPoll \/ PollArrives \/ TokenRenewed

Spec == Init /\ [][Next]_vars

\* Timers fire and requests end; the worker may never run.
Fairness ==
    /\ WF_vars(Open /\ UNCHANGED route /\ ListArrives)
    /\ WF_vars(Open /\ UNCHANGED route /\ TimerFires)
    /\ WF_vars(Open /\ UNCHANGED route /\ AnswerPoll)
    /\ WF_vars(Open /\ UNCHANGED route /\ PollArrives)

FairSpec == Spec /\ Fairness

-----------------------------------------------------------------------------
(* Properties.                                                              *)

\* The effect polls just while the dialog, which cannot be closed then, says that
\* the export is being made, and polls an export that is there.
DialogIsPolled == Open =>
    /\ dialog.phase = "polling" <=> polling.at # "stopped"
    /\ dialog.phase = "polling" => dialog.id \in Ids

\* An export that has ended ends the polling, however the effect was restarted
\* meanwhile.
EndedExportIsShown ==
    Open /\ dialog.phase = "polling" /\ exports[dialog.id] \in TerminalStatuses ~>
        (Open => dialog.phase # "polling")

\* Polling is given up after ten minutes (gerar-zip-dialog.tsx:34), so that no
\* dialog stays open that cannot be closed.
PollingGivesUp == Open /\ dialog.phase = "polling" ~> (Open => dialog.phase # "polling")
=============================================================================
