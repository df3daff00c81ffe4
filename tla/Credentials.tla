----------------------------- MODULE Credentials -----------------------------
(***************************************************************************)
(* The credential of a company: POST and DELETE /companies/{id}/credential *)
(* of companies/credentials.py over the table and the bucket, asked for by *)
(* several users, and the panel of one of them (credential-panel.tsx with  *)
(* its dialogs of upload and revocation, over lib/companies/credentials.ts)*)
(*                                                                         *)
(* A request is one transaction, which get_tenant_db commits or rolls back *)
(* after the handler, from the event loop of its process.  The DELETE runs *)
(* in a thread; the POST is an async def that waits for the database and   *)
(* the bucket on the loop itself.  The role of the user, who cannot open a *)
(* dialog without canWrite, and the CN of the certificate are left out.    *)
(***************************************************************************)
EXTENDS Integers, FiniteSets, FiniteSetsExt

CONSTANTS
    Me,             \* the user of the panel
    Others,         \* users elsewhere
    Process,        \* the process of the API that serves a user
    MaxUploads,     \* bound: uploads, of all users
    MaxReads,       \* bound: calls of load() on their way at once, less one
    Faults          \* subset of {"network", "storage", "commit"}

VARIABLES
    route,          \* the page the tab is on
    rows, blobs,    \* company_credentials of the company; the bucket
    tx,             \* the request of each user, and its transaction
    loops,          \* the users whose POST holds the loop of its process
    panel,          \* what CredentialPanel shows
    reads,          \* the calls of load() on their way, and their answers
    dialog          \* the dialog that is open

server == <<rows, blobs, tx, loops>>
vars == <<route, server, panel, reads, dialog>>

Open == route = "/dashboard/empresas/[id]/credencial"

Users == {Me} \cup Others
\* Rows are numbered by created_at, the start of their transaction.
Uploads == 1..MaxUploads
RowStates == {"none", "open", "rolled_back", "active", "revoked"}

ErrorCodes == {"not_configured", "invalid_password_or_pfx", "pfx_too_large", "pfx_empty",
               "pfx_missing_key_or_cert", "storage_failed", "crypto_failed", "forbidden",
               "unauthorized", "not_found", "network", "unknown"}

Idle == [at |-> "idle", op |-> "none", id |-> 0, seen |-> {}, held |-> {}, answer |-> "ok"]
NoRead == [at |-> "none", cred |-> 0]
NoDialog == [op |-> "none", filled |-> FALSE, submitting |-> FALSE, error |-> "none"]

TypeOK == Open =>
    /\ rows \in [Uploads -> RowStates] /\ blobs \subseteq Uploads
    /\ tx \in [Users -> [at : {"idle", "sent", "begun", "update", "put", "delete", "commit",
                               "rollback", "answered"},
                         op : {"none", "upload", "revoke"}, id : 0..MaxUploads,
                         seen : SUBSET Uploads, held : SUBSET Uploads, answer : {"ok"} \cup ErrorCodes]]
    /\ loops \subseteq Users
    /\ panel \in [view : {"loading", "ready", "error"}, cred : 0..MaxUploads,
                  flash : {"none", "sent", "revoked"}]
    /\ reads \in [0..MaxReads -> [at : {"none", "asked", "answered", "failed"}, cred : 0..MaxUploads]]
    /\ dialog \in [op : {"none", "upload", "revoke"}, filled : BOOLEAN, submitting : BOOLEAN,
                   error : {"none", "nothing_to_revoke"} \cup ErrorCodes]

Init ==
    /\ Open
    /\ rows = [i \in Uploads |-> "none"] /\ blobs = {}
    /\ tx = [u \in Users |-> Idle]
    /\ loops = {}
    /\ panel = [view |-> "loading", cred |-> 0, flash |-> "none"]
    /\ reads = [i \in 0..MaxReads |-> IF i = 0 THEN [NoRead EXCEPT !.at = "asked"] ELSE NoRead]
    /\ dialog = NoDialog

-----------------------------------------------------------------------------
(* The API.                                                                 *)

Active == {i \in Uploads : rows[i] = "active"}

\* GET, and what the worker loads for a run: the newest of the active ones.
Served == IF Active = {} THEN 0 ELSE Max(Active)

\* mapApiError: the error of an answer, by its status and what its detail says.
mapApiError(status, says) ==
    CASE status = 401 -> "unauthorized"
      [] status = 403 -> "forbidden"
      [] status = 404 -> IF says = "credencial" THEN "not_configured" ELSE "not_found"
      [] status = 413 -> "pfx_too_large"
      [] status = 502 -> "storage_failed"
      [] status = 400 -> IF says = "vazio" THEN "pfx_empty"
                         ELSE IF says = "chave privada" THEN "pfx_missing_key_or_cert"
                         ELSE "invalid_password_or_pfx"
      [] status = 500 -> "crypto_failed"
      [] OTHER -> "unknown"

LoopFree(u) == \A v \in loops : Process[v] # Process[u]

\* What a user elsewhere is answered does not matter here.
Told(u, answer) == IF u = Me THEN answer ELSE "ok"
Answered(u, answer) ==
    tx' = [tx EXCEPT ![u] = IF u = Me THEN [Idle EXCEPT !.at = "answered", !.id = tx[u].id, !.answer = answer]
                            ELSE Idle]

\* The dependencies: access, and the session, whose transaction begins.
Begin(u) ==
    /\ tx[u].at = "sent" /\ LoopFree(u)
    /\ \/ /\ \E refused \in {401, 403, 404} : Answered(u, mapApiError(refused, "company"))
          /\ UNCHANGED rows
       \/ /\ tx[u].op = "revoke"
          /\ tx' = [tx EXCEPT ![u].at = "begun"] /\ UNCHANGED rows
       \/ /\ tx[u].op = "upload"
          /\ \E i \in Uploads :
                /\ rows[i] = "none" /\ \A j \in 1..(i - 1) : rows[j] # "none"
                /\ rows' = [rows EXCEPT ![i] = "open"]
                /\ tx' = [tx EXCEPT ![u].at = "begun", ![u].id = i]
    /\ UNCHANGED <<blobs, loops, panel, reads, dialog>>

\* Status and detail: too large, empty, a wrong password, no key, no cipher.
Refusals == {<<413, "">>, <<400, "vazio">>, <<400, "senha">>, <<400, "chave privada">>, <<500, "">>}

\* The POST refuses the file: nothing was written yet.
Reject(u) ==
    /\ tx[u].at = "begun" /\ tx[u].op = "upload" /\ LoopFree(u)
    /\ \E refused \in Refusals :
          tx' = [tx EXCEPT ![u].at = "rollback", ![u].answer = Told(u, mapApiError(refused[1], refused[2]))]
    /\ UNCHANGED <<rows, blobs, loops, panel, reads, dialog>>

\* UPDATE ... WHERE status = 'active': the rows its snapshot holds.
Look(u) ==
    /\ tx[u].at = "begun"
    /\ \/ tx[u].op = "upload" /\ LoopFree(u) /\ loops' = loops \cup {u}
       \/ tx[u].op = "revoke" /\ UNCHANGED loops
    /\ tx' = [tx EXCEPT ![u].at = "update", ![u].seen = Active]
    /\ UNCHANGED <<rows, blobs, panel, reads, dialog>>

\* It waits for a row another transaction has updated, and then leaves it out
\* when that one has committed; a row inserted meanwhile it does not see.
Retire(u) ==
    /\ tx[u].at = "update"
    /\ \A v \in Users \ {u} : tx[v].held \cap tx[u].seen = {}
    /\ LET held == tx[u].seen \cap Active IN
          tx' = [tx EXCEPT ![u].seen = {}, ![u].held = held,
                           ![u].at = IF tx[u].op = "upload" THEN "put"
                                     ELSE IF held = {} THEN "rollback" ELSE "delete",
                           ![u].answer = Told(u, IF tx[u].op = "revoke" /\ held = {}
                                                 THEN mapApiError(404, "credencial") ELSE "ok")]
    /\ UNCHANGED <<rows, blobs, loops, panel, reads, dialog>>

\* An upload whose failure is swallowed.
PutBestEffort(u) ==
    /\ tx[u].at = "put"
    /\ blobs' \in {blobs \cup {tx[u].id}} \cup (IF "storage" \in Faults THEN {blobs} ELSE {})
    /\ tx' = [tx EXCEPT ![u].at = "commit"]
    /\ loops' = loops \ {u}
    /\ UNCHANGED <<rows, panel, reads, dialog>>

\* The row is inserted, and the file put in the bucket under its id.
Put(u) ==
    /\ tx[u].at = "put"
    /\ \/ /\ blobs' = blobs \cup {tx[u].id}
          /\ tx' = [tx EXCEPT ![u].at = "commit"]
       \/ /\ "storage" \in Faults
          /\ tx' = [tx EXCEPT ![u].at = "rollback", ![u].answer = Told(u, mapApiError(502, ""))]
          /\ UNCHANGED blobs
    /\ loops' = loops \ {u}
    /\ UNCHANGED <<rows, panel, reads, dialog>>

\* The files of the rows it revokes, best effort: one may stay.
DeleteBlobs(u) ==
    /\ tx[u].at = "delete"
    /\ \E kept \in SUBSET tx[u].held :
          /\ kept # {} => "storage" \in Faults
          /\ blobs' = blobs \ (tx[u].held \ kept)
    /\ tx' = [tx EXCEPT ![u].at = "commit"]
    /\ UNCHANGED <<rows, loops, panel, reads, dialog>>

\* The end of get_tenant_session, and the answer.
EndTransaction(u) ==
    /\ LoopFree(u)
    /\ LET mine(i) == i = tx[u].id IN
       \/ /\ tx[u].at = "commit"
          /\ rows' = [i \in Uploads |-> IF mine(i) THEN "active"
                                        ELSE IF i \in tx[u].held THEN "revoked" ELSE rows[i]]
          /\ Answered(u, "ok")
       \/ /\ tx[u].at = "rollback" \/ (tx[u].at = "commit" /\ "commit" \in Faults)
          /\ rows' = [i \in Uploads |-> IF mine(i) THEN "rolled_back" ELSE rows[i]]
          /\ Answered(u, IF tx[u].at = "commit" THEN mapApiError(500, "") ELSE tx[u].answer)
    /\ UNCHANGED <<blobs, loops, panel, reads, dialog>>

\* A user elsewhere.
OtherAsks(u) ==
    /\ u \in Others /\ tx[u].at = "idle"
    /\ \E op \in {"upload", "revoke"} : tx' = [tx EXCEPT ![u] = [Idle EXCEPT !.at = "sent", !.op = op]]
    /\ UNCHANGED <<rows, blobs, loops, panel, reads, dialog>>

-----------------------------------------------------------------------------
(* The panel: load().                                                       *)

StartRead ==
    /\ \E i \in DOMAIN reads : /\ reads[i].at = "none"
                               /\ \A j \in 0..(i - 1) : reads[j].at # "none"
                               /\ reads' = [reads EXCEPT ![i].at = "asked"]
    /\ panel' = [panel EXCEPT !.view = "loading"]

\* A new access token is a new load; the one on its way is not cancelled.
TokenRenewed ==
    /\ StartRead
    /\ UNCHANGED <<server, dialog>>

\* "Tentar novamente".
Retry ==
    /\ panel.view = "error" /\ dialog.op = "none" /\ StartRead
    /\ UNCHANGED <<server, dialog>>

\* fetchCredential: a 404 is no credential.
ReadCredential(i) ==
    /\ reads[i].at = "asked" /\ LoopFree(Me)
    /\ \/ reads' = [reads EXCEPT ![i] = [at |-> "answered", cred |-> Served]]
       \/ "network" \in Faults /\ reads' = [reads EXCEPT ![i].at = "failed"]
    /\ UNCHANGED <<server, panel, dialog>>

\* The last answer to arrive is shown, whatever was asked since.
ReadArrives(i) ==
    /\ reads[i].at \in {"answered", "failed"}
    /\ panel' = [panel EXCEPT !.view = IF reads[i].at = "failed" THEN "error" ELSE "ready",
                              !.cred = IF reads[i].at = "failed" THEN @ ELSE reads[i].cred]
    /\ reads' = [reads EXCEPT ![i] = NoRead]
    /\ UNCHANGED <<server, dialog>>

-----------------------------------------------------------------------------
(* The panel: what it shows, and its dialogs.                               *)

\* decideCredentialBadge, for a certificate with that many days to go.
Badge(status, days) ==
    CASE status = "none" -> "pending"
      [] status = "revoked" -> "blocked"
      [] status = "invalid" -> "cred_invalid"
      [] status = "expired" \/ (status = "active" /\ days < 0) -> "failed"
      [] status = "active" /\ days \in 0..30 -> "cert_expiring"
      [] OTHER -> "success"

\* CredentialStatusBlock of what was loaded: what the API answers with is active.
StatusBlock(days) == IF panel.view # "ready" THEN panel.view
                     ELSE Badge(IF panel.cred = 0 THEN "none" ELSE "active", days)

CanUpload == panel.view # "loading"
CanRevoke == panel.view = "ready" /\ panel.cred # 0

OpenDialog(op) ==
    /\ dialog.op = "none"
    /\ IF op = "upload" THEN CanUpload ELSE CanRevoke
    /\ dialog' = [NoDialog EXCEPT !.op = op]
    /\ panel' = [panel EXCEPT !.flash = "none"]
    /\ UNCHANGED <<server, reads>>

\* What a dialog shows: while it is submitting nothing in it can be used.
DialogShows(op) == IF dialog.op # op THEN "closed"
                   ELSE IF dialog.submitting THEN "submitting"
                   ELSE IF dialog.error # "none" THEN "error"
                   ELSE IF dialog.filled THEN "filled" ELSE "empty"
UploadDialog == DialogShows("upload")
RevokeDialog == DialogShows("revoke")
InUse == {"empty", "filled", "error"}

\* A file and its password; the file takes the error away.
PickFile ==
    /\ UploadDialog \in InUse
    /\ dialog' = [dialog EXCEPT !.filled = TRUE, !.error = "none"]
    /\ UNCHANGED <<server, panel, reads>>

\* REVOGAR.
TypeWord ==
    /\ RevokeDialog \in InUse
    /\ dialog' = [dialog EXCEPT !.filled = TRUE]
    /\ UNCHANGED <<server, panel, reads>>

CloseDialog ==
    /\ {UploadDialog, RevokeDialog} \cap InUse # {}
    /\ dialog' = NoDialog
    /\ UNCHANGED <<server, panel, reads>>

\* handleSubmit of either dialog.
Submit ==
    /\ dialog.filled /\ ~dialog.submitting
    /\ dialog' = [dialog EXCEPT !.submitting = TRUE, !.error = "none"]
    /\ tx' = [tx EXCEPT ![Me] = [Idle EXCEPT !.at = "sent", !.op = dialog.op]]
    /\ UNCHANGED <<rows, blobs, loops, panel, reads>>

\* What a dialog says of an error: the upload has a text for each.
humanizeError(op, code) ==
    IF op = "revoke" /\ code \in {"not_configured", "not_found"} THEN "nothing_to_revoke" ELSE code

\* handleUploaded and handleRevoked, and the dialog closes; or its error.
SubmissionEnds ==
    /\ dialog.submitting /\ tx[Me].at = "answered"
    /\ \E answer \in {tx[Me].answer} \cup (Faults \cap {"network"}) :
          IF answer = "ok"
          THEN /\ panel' = IF dialog.op = "upload"
                           THEN [view |-> "ready", cred |-> tx[Me].id, flash |-> "sent"]
                           ELSE [view |-> "ready", cred |-> 0, flash |-> "revoked"]
               /\ dialog' = NoDialog
          ELSE /\ dialog' = [dialog EXCEPT !.submitting = FALSE, !.error = humanizeError(dialog.op, answer)]
               /\ UNCHANGED panel
    /\ tx' = [tx EXCEPT ![Me] = Idle]
    /\ UNCHANGED <<rows, blobs, loops, reads>>

-----------------------------------------------------------------------------
Next ==
    /\ Open /\ UNCHANGED route
    /\ \/ \E u \in Users : \/ Begin(u) \/ Reject(u) \/ Look(u) \/ Retire(u) \/ Put(u)
                           \/ DeleteBlobs(u) \/ EndTransaction(u) \/ OtherAsks(u)
       \/ TokenRenewed \/ Retry
       \/ \E i \in DOMAIN reads : ReadCredential(i) \/ ReadArrives(i)
       \/ \E op \in {"upload", "revoke"} : OpenDialog(op)
       \/ PickFile \/ TypeWord \/ CloseDialog \/ Submit \/ SubmissionEnds

Spec == Init /\ [][Next]_vars

-----------------------------------------------------------------------------
(* Properties.                                                              *)

\* A credential the table calls active, which the worker may load for a run,
\* has its file in the bucket, but for the moment before its revocation commits:
\* the upload puts the file before it commits and the revocation deletes none of
\* a row it leaves active, whatever uploads and revocations run side by side and
\* whether the bucket fails or not (upload_credential, revoke_credential).
ActiveHasBlob == Open =>
    \A i \in Active : i \in blobs \/ \E u \in Users : i \in tx[u].held

\* After an upload the badge is that of a credential, not "Nao configurada"
\* (docs/tasks/APP-04.md, "Upload cifra no servidor e badge fica verde"), while
\* nobody else touches it.
BadgeTurnsGreen == Open =>
    (panel.flash = "sent" /\ panel.view = "ready" => StatusBlock(365) = "success")

=============================================================================
