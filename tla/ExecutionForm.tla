---------------------------- MODULE ExecutionForm ----------------------------
(***************************************************************************)
(* The form of a new execution (nova-execucao-form.tsx) and the calls it   *)
(* makes through lib/api/executions.ts, against the answers of             *)
(* POST /executions (ExecutionsApi).  The list of companies is loaded when *)
(* the form opens and again whenever the access token changes; a load is   *)
(* never cancelled, so that two may be on their way.  The period, the two  *)
(* options and the role of the user, whom the form shows nothing to submit *)
(* without one of WRITE_ROLES, are left out; so is disabling a company,    *)
(* which the form stops listing and POST /executions still accepts.        *)
(***************************************************************************)
EXTENDS Naturals, FiniteSets

CONSTANTS
    Companies,      \* the companies of the tenant
    MaxRenewals,    \* bound: times the access token is renewed while the form is open
    MaxChanges      \* bound: companies deleted and credentials that expire

VARIABLES
    route,          \* the page the tab is on
    active, valid,  \* companies not deleted; with a credential in force
    opened,         \* companies with an open execution
    companies,      \* useCompanies: what is loaded
    loads,          \* the loads on their way: asked, or what they answered
    selectedIds,
    submission,     \* handleSubmit: the ids sent, or the answer on its way
    submitError,    \* what the form says: a code, and the companies it marks
    pushed,         \* where router.push goes
    renewals, changes

server == <<active, valid, opened>>
form == <<selectedIds, submission, submitError, pushed>>
vars == <<route, server, companies, loads, form, renewals, changes>>

Open == route = "/execucoes/nova"

Codes == {"companies_not_found", "credential_missing_or_expired", "queue_unavailable",
          "validation_error", "forbidden", "unauthorized", "not_found", "network", "unknown"}
NoError == [code |-> "none", blocked |-> {}]

Asked == [answered |-> FALSE, failed |-> FALSE, items |-> {}]
Loads == [answered : BOOLEAN, failed : BOOLEAN, items : SUBSET Companies]

\* The answer of a request: an error, or how many rows and for which companies
\* the job could not be queued (enqueue_error).
NoSubmission == [at |-> "none", ids |-> {}, error |-> NoError, lost |-> {}]

TypeOK == Open =>
    /\ active \subseteq Companies /\ valid \subseteq Companies
    /\ opened \subseteq Companies
    /\ companies \in [view : {"loading", "ready", "error"}, items : SUBSET Companies]
    /\ loads \in [1..MaxRenewals + 1 -> Loads \cup {[answered |-> FALSE]}]
    /\ selectedIds \subseteq Companies
    /\ submission.at \in {"none", "sent", "answered"} /\ submission.ids \subseteq Companies
    /\ submission.error.code \in Codes \cup {"none"} /\ submitError.code \in Codes \cup {"none"}
    /\ pushed \in {"stay", "execution", "list"}
    /\ renewals \in 0..MaxRenewals /\ changes \in 0..MaxChanges

NotLoading == [answered |-> FALSE]

Init ==
    /\ Open
    /\ active = Companies /\ valid = Companies
    /\ opened = {}
    /\ companies = [view |-> "loading", items |-> {}]
    /\ loads = [i \in 1..MaxRenewals + 1 |-> IF i = 1 THEN Asked ELSE NotLoading]
    /\ selectedIds = {} /\ submission = NoSubmission /\ submitError = NoError
    /\ pushed = "stay"
    /\ renewals = 0 /\ changes = 0

-----------------------------------------------------------------------------
(* The errors of lib/api/executions.ts.                                     *)

\* mapHttpError: the code of a status, and of the detail of a 422
\* (extractBackendDetail: the error and the companies it names).
mapHttpError(status, error, ids) ==
    CASE status = 401 -> [code |-> "unauthorized", blocked |-> {}]
      [] status = 403 -> [code |-> "forbidden", blocked |-> {}]
      [] status = 404 -> [code |-> "not_found", blocked |-> {}]
      [] status = 502 -> [code |-> "queue_unavailable", blocked |-> {}]
      [] status = 422 -> IF error \in {"companies_not_found", "credential_missing_or_expired"}
                         THEN [code |-> error, blocked |-> ids]
                         ELSE [code |-> "validation_error", blocked |-> {}]
      [] OTHER -> [code |-> "unknown", blocked |-> {}]

\* wrapApiError of a fetch that throws.
NetworkError == [code |-> "network", blocked |-> {}]

-----------------------------------------------------------------------------
(* The world outside the form.                                              *)

\* A company is deleted, or its credential expires.
CompanyChanges(c) ==
    /\ changes < MaxChanges /\ changes' = changes + 1
    /\ \/ active' = active \ {c} /\ UNCHANGED valid
       \/ valid' = valid \ {c} /\ UNCHANGED active
    /\ UNCHANGED <<opened, companies, loads, form, renewals>>

-----------------------------------------------------------------------------
(* useCompanies.                                                            *)

\* load(): the list is emptied before it is asked for.
StartLoad(i) ==
    /\ loads' = [loads EXCEPT ![i] = Asked]
    /\ companies' = [view |-> "loading", items |-> {}]

\* A new access token is a new load; the older one goes on.
TokenRenewed ==
    /\ renewals < MaxRenewals /\ renewals' = renewals + 1
    /\ \E i \in DOMAIN loads : loads[i] = NotLoading /\ StartLoad(i)
    /\ UNCHANGED <<server, form, changes>>

\* "Tentar novamente".
Reload ==
    /\ companies.view = "error"
    /\ \E i \in DOMAIN loads : loads[i] = NotLoading /\ StartLoad(i)
    /\ UNCHANGED <<server, form, renewals, changes>>

AnswerLoad(i) ==
    /\ loads[i] = Asked
    /\ \E bad \in BOOLEAN :
          loads' = [loads EXCEPT ![i] = [answered |-> TRUE, failed |-> bad,
                                         items |-> IF bad THEN {} ELSE active]]
    /\ UNCHANGED <<server, companies, form, renewals, changes>>

\* A failed load is dropped without a word.
LoadArrivesQuietly(i) ==
    /\ loads[i].answered
    /\ companies' = IF loads[i].failed THEN companies
                    ELSE [view |-> "ready", items |-> loads[i].items]
    /\ loads' = [loads EXCEPT ![i] = NotLoading]
    /\ UNCHANGED <<server, form, renewals, changes>>

\* The last answer to arrive wins, be it the older one.
LoadArrives(i) ==
    /\ loads[i].answered
    /\ companies' = [view |-> IF loads[i].failed THEN "error" ELSE "ready", items |-> loads[i].items]
    /\ loads' = [loads EXCEPT ![i] = NotLoading]
    /\ UNCHANGED <<server, form, renewals, changes>>

-----------------------------------------------------------------------------
(* The user.                                                                *)

\* "Enfileirando", and the companies that can be picked.
submitting == submission.at # "none"
listbox == IF companies.view = "ready" THEN companies.items ELSE {}

\* A change of the selection takes the error with it.
Select(ids) ==
    /\ selectedIds' = ids /\ submitError' = NoError
    /\ submission' = [submission EXCEPT !.lost = IF submitting THEN @ ELSE {}]
    /\ UNCHANGED <<server, companies, loads, pushed, renewals, changes>>

toggleCompany(c) ==
    /\ c \in listbox
    /\ Select(IF c \in selectedIds THEN selectedIds \ {c} ELSE selectedIds \cup {c})

selectAll == listbox # {} /\ Select(companies.items)
clearAll == listbox # {} /\ selectedIds # {} /\ Select({})

disabled == submitting \/ selectedIds = {}

\* The button works again while the router is on its way elsewhere.
handleSubmit ==
    /\ ~disabled
    /\ submission' = [NoSubmission EXCEPT !.at = "sent", !.ids = selectedIds]
    /\ submitError' = NoError
    /\ UNCHANGED <<server, companies, loads, selectedIds, pushed, renewals, changes>>

-----------------------------------------------------------------------------
(* POST /executions.                                                        *)

Reply(error, lost) ==
    submission' = [submission EXCEPT !.at = "answered", !.error = error, !.lost = lost]

\* Every company must be there, have a credential, and redis answer a ping.  A
\* company with an open execution gets that one; of the jobs of the others some
\* may not reach the queue (lost), and their rows fail at once.
CreateExecutions ==
    /\ submission.at = "sent"
    /\ LET ids == submission.ids
       IN  \/ /\ ~(ids \subseteq active)
              /\ Reply(mapHttpError(422, "companies_not_found", ids \ active), {})
              /\ UNCHANGED opened
           \/ /\ ids \subseteq active /\ ~(ids \subseteq valid)
              /\ Reply(mapHttpError(422, "credential_missing_or_expired", ids \ valid), {})
              /\ UNCHANGED opened
           \/ /\ ids \subseteq active \cap valid
              /\ Reply(mapHttpError(502, "", {}), {})
              /\ UNCHANGED opened
           \/ /\ ids \subseteq active \cap valid
              /\ \E lost \in SUBSET (ids \ opened) :
                    /\ opened' = opened \cup (ids \ lost)
                    /\ Reply(NoError, lost)
    /\ UNCHANGED <<active, valid, companies, loads, selectedIds, submitError, pushed, renewals, changes>>

\* The request is refused before or lost after: the session ended, the role
\* was taken away, the network failed.
RequestFails ==
    /\ submission.at \in {"sent", "answered"} /\ submission.error = NoError
    /\ \/ Reply(NetworkError, {})
       \/ /\ submission.at = "sent"
          /\ \E status \in {401, 403, 500} : Reply(mapHttpError(status, "", {}), {})
    /\ UNCHANGED <<server, companies, loads, selectedIds, submitError, pushed, renewals, changes>>

\* The answer: to the execution if it is one, to the list if there are more,
\* whatever each row says of its job; or the error.
SubmissionEnds ==
    /\ submission.at = "answered"
    /\ IF submission.error = NoError
       THEN /\ pushed' = IF Cardinality(submission.ids) = 1 THEN "execution" ELSE "list"
            /\ UNCHANGED submitError
       ELSE submitError' = submission.error /\ UNCHANGED pushed
    /\ submission' = [NoSubmission EXCEPT !.lost = submission.lost]
    /\ UNCHANGED <<server, companies, loads, selectedIds, renewals, changes>>

-----------------------------------------------------------------------------
Next == Open /\ UNCHANGED route /\
    \/ \E c \in Companies : CompanyChanges(c) \/ toggleCompany(c)
    \/ TokenRenewed \/ Reload \/ selectAll \/ clearAll \/ handleSubmit
    \/ \E i \in DOMAIN loads : AnswerLoad(i) \/ LoadArrives(i)
    \/ CreateExecutions \/ RequestFails \/ SubmissionEnds

Spec == Init /\ [][Next]_vars

\* Requests end.
Fairness ==
    /\ \A i \in 1..MaxRenewals + 1 :
          /\ WF_vars(Open /\ UNCHANGED route /\ AnswerLoad(i))
          /\ WF_vars(Open /\ UNCHANGED route /\ LoadArrives(i))
    /\ WF_vars(Open /\ UNCHANGED route /\ CreateExecutions)
    /\ WF_vars(Open /\ UNCHANGED route /\ SubmissionEnds)

FairSpec == Spec /\ Fairness

-----------------------------------------------------------------------------
(* Properties.                                                              *)

\* "Carregando empresas" is never said with no load on its way.
LoadingIsAsked == Open =>
    (companies.view = "loading" => \E i \in DOMAIN loads : loads[i] # NotLoading)

\* However loads overlap and whichever fails, the list does not stay in
\* "Carregando empresas".
FormSettles == Open /\ companies.view = "loading" ~> (Open => companies.view # "loading")

\* A job that could not be queued is treated as a partial error by the caller
\* (lib/api/executions.ts:7): once the answer is there, the form says so.
PartialFailureIsTold == Open =>
    (submission.at = "none" /\ submission.lost # {} => submitError # NoError)
=============================================================================
