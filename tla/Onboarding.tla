------------------------------ MODULE Onboarding ------------------------------
(***************************************************************************)
(* The onboarding wizard (components/onboarding): three steps whose state  *)
(* is derived from the backend (use-onboarding-state.ts), the calls its    *)
(* steps make, and the record of the first collection                      *)
(* (onboarding/routes.py).  The queries are asked together, when the       *)
(* wizard is mounted and after each step, and answered one by one.  "The   *)
(* first company" is the first of GET /companies, which lists the newest   *)
(* first.                                                                  *)
(***************************************************************************)
EXTENDS Naturals, Sequences

CONSTANTS
    MaxCompanies,   \* bound: companies of the tenant
    MaxLosses       \* bound: posts of the first collection that fail

VARIABLES
    route,          \* the page the tab is on
    credentials,    \* the companies, oldest first: whether each has one in force
    run,            \* the execution the wizard asks for
    collected,      \* some execution of the tenant has succeeded, in part at least
    recorded,       \* the notification first_collection_done of this user
    answers,        \* the queries: what each was answered
    asked,          \* the queries on their way
    wizard,         \* dismissed, celebrating, and the call a step has made
    step3,          \* StepExecucao: the execution it follows
    losses

backend == <<credentials, run, collected, recorded>>
vars == <<route, backend, answers, asked, wizard, step3, losses>>

Open == route = "/dashboard"

Queries == {"companies", "credential", "runs"}
Unanswered == [company |-> 0, hasCompany |-> "loading", active |-> "loading", runs |-> "loading"]
NotFollowing == [status |-> "none", notified |-> FALSE, post |-> "none"]
FirstStatuses == {"succeeded", "failed"}

TypeOK == Open =>
    /\ credentials \in Seq(BOOLEAN) /\ Len(credentials) <= MaxCompanies
    /\ run \in {"none", "open"} \cup FirstStatuses
    /\ collected \in BOOLEAN /\ recorded \in BOOLEAN
    /\ answers \in [company : 0..MaxCompanies, hasCompany : {"loading", "error", "no", "yes"},
                    active : {"loading", "error", "no", "yes"}, runs : {"loading", "error", "no", "yes"}]
    /\ asked \subseteq Queries
    /\ wizard \in [dismissed : BOOLEAN, celebrating : BOOLEAN,
                   call : {"none", "company", "credential", "execution"}]
    /\ step3 \in [status : {"none", "open"} \cup FirstStatuses, notified : BOOLEAN,
                  post : {"none", "sent", "ended"}]
    /\ losses \in 0..MaxLosses

Fresh == [dismissed |-> FALSE, celebrating |-> FALSE, call |-> "none"]

Init ==
    /\ Open
    /\ credentials = <<>> /\ run = "none" /\ collected = FALSE /\ recorded = FALSE
    /\ answers = Unanswered /\ asked = Queries
    /\ wizard = Fresh /\ step3 = NotFollowing
    /\ losses = 0

-----------------------------------------------------------------------------
(* What useOnboardingState derives, and what the wizard shows.              *)

isLoading == answers.hasCompany = "loading" \/ answers.runs = "loading"
             \/ (answers.hasCompany = "yes" /\ answers.active = "loading")
isError == "error" \in {answers.hasCompany, answers.active, answers.runs}

currentStep ==
    IF answers.hasCompany # "yes" THEN "empresa"
    ELSE IF answers.active # "yes" THEN "credencial"
    ELSE IF answers.runs # "yes" THEN "execucao"
    ELSE "done"

View == IF isLoading \/ isError THEN "nothing"
        ELSE IF currentStep = "done" THEN IF wizard.celebrating THEN "celebration" ELSE "nothing"
        ELSE IF wizard.dismissed THEN "nothing"
        ELSE currentStep

\* What step 3 shows of the execution it follows.
Step3View == CASE step3.status = "none" -> "start"
               [] step3.status = "open" -> "progress"
               [] OTHER -> step3.status

\* A step that is not shown any more is unmounted, and forgets what it follows;
\* a post it has sent goes on.
Unmounted == [NotFollowing EXCEPT !.post = step3.post]
Unmount == step3' = IF View' = "execucao" THEN step3 ELSE Unmounted

refresh == asked' = Queries

-----------------------------------------------------------------------------
(* The rest of the tenant.                                                  *)

\* Another member adds a company, or a credential; the newest company is the
\* one the wizard is about.
OthersAdd ==
    /\ \/ Len(credentials) < MaxCompanies /\ credentials' = Append(credentials, FALSE)
       \/ \E i \in DOMAIN credentials : credentials' = [credentials EXCEPT ![i] = TRUE]
    /\ UNCHANGED <<run, collected, recorded, answers, asked, wizard, step3, losses>>

CredentialExpires ==
    /\ \E i \in DOMAIN credentials : credentials' = [credentials EXCEPT ![i] = FALSE]
    /\ UNCHANGED <<run, collected, recorded, answers, asked, wizard, step3, losses>>

\* The worker ends the execution.
RunEnds ==
    /\ run = "open"
    /\ \E st \in FirstStatuses : run' = st /\ collected' = (collected \/ st = "succeeded")
    /\ UNCHANGED <<credentials, recorded, answers, asked, wizard, step3, losses>>

-----------------------------------------------------------------------------
(* The queries.                                                             *)

YesNo(b) == IF b THEN "yes" ELSE "no"
Newest == Len(credentials)

\* GET /companies; another company is another key for the credential.
CompaniesArrive ==
    /\ "companies" \in asked
    /\ \/ /\ answers' = [answers EXCEPT !.company = Newest, !.hasCompany = YesNo(Newest > 0),
                          !.active = IF Newest = answers.company THEN @ ELSE "loading"]
          /\ asked' = (asked \ {"companies"}) \cup
                      (IF Newest # answers.company THEN {"credential"} ELSE {})
       \/ answers' = [answers EXCEPT !.hasCompany = "error"] /\ asked' = asked \ {"companies"}
    /\ UNCHANGED <<backend, wizard, losses>>
    /\ Unmount

CredentialArrives ==
    /\ "credential" \in asked
    /\ asked' = asked \ {"credential"}
    /\ answers' \in IF answers.company = 0 THEN {answers}
                    ELSE {[answers EXCEPT !.active = a] : a \in {YesNo(credentials[answers.company]), "error"}}
    /\ UNCHANGED <<backend, wizard, losses>>
    /\ Unmount

RunsArrive ==
    /\ "runs" \in asked
    /\ asked' = asked \ {"runs"}
    /\ answers' \in {[answers EXCEPT !.runs = a] : a \in {YesNo(collected), "error"}}
    /\ UNCHANGED <<backend, wizard, losses>>
    /\ Unmount

\* The connection is back, and the queries are asked again.
Reconnect ==
    /\ asked = {} /\ refresh
    /\ UNCHANGED <<backend, answers, wizard, step3, losses>>

-----------------------------------------------------------------------------
(* The steps.                                                               *)

Submit(step, kind) ==
    /\ View = step /\ wizard.call = "none"
    /\ wizard' = [wizard EXCEPT !.call = kind]
    /\ UNCHANGED <<backend, answers, asked, step3, losses>>

SubmitCompany == Submit("empresa", "company")
SubmitCredential == Submit("credencial", "credential")

\* "Iniciar 1a coleta", and "Tentar novamente" after one that failed.
SubmitExecution == Step3View = "start" /\ Submit("execucao", "execution")
Retry ==
    /\ View = "execucao" /\ Step3View = "failed"
    /\ step3' = Unmounted
    /\ UNCHANGED <<backend, answers, asked, wizard, losses>>

\* The call ends: done or not, told or not; a step told that it is done goes on.
CompanyCreated ==
    /\ wizard.call = "company" /\ wizard' = [wizard EXCEPT !.call = "none"]
    /\ \/ credentials' = IF Len(credentials) < MaxCompanies THEN Append(credentials, FALSE) ELSE credentials
       \/ UNCHANGED credentials
    /\ asked' \in {asked, Queries}
    /\ UNCHANGED <<run, collected, recorded, answers, step3, losses>>

CredentialUploaded ==
    /\ wizard.call = "credential" /\ wizard' = [wizard EXCEPT !.call = "none"]
    /\ \/ answers.company \in DOMAIN credentials
          /\ credentials' = [credentials EXCEPT ![answers.company] = TRUE]
       \/ UNCHANGED credentials
    /\ asked' \in {asked, Queries}
    /\ UNCHANGED <<run, collected, recorded, answers, step3, losses>>

\* createExecutions gives the open execution of the company, or a new one.
ExecutionCreated ==
    /\ wizard.call = "execution" /\ wizard' = [wizard EXCEPT !.call = "none"]
    /\ \/ /\ run' = "open"
          /\ step3' = IF View = "execucao" THEN [Unmounted EXCEPT !.status = "open"] ELSE step3
       \/ UNCHANGED <<run, step3>>
    /\ UNCHANGED <<credentials, collected, recorded, answers, asked, losses>>

\* The poll of the execution, every 2 s until its status is final.
Poll ==
    /\ View = "execucao" /\ Step3View = "progress"
    /\ step3' = [step3 EXCEPT !.status = run]
    /\ UNCHANGED <<backend, answers, asked, wizard, losses>>

\* The effect of any end.
NotifyOfAnyEnd ==
    /\ step3.status \in FirstStatuses /\ ~step3.notified /\ step3.post = "none"
    /\ step3' = [step3 EXCEPT !.notified = TRUE, !.post = "sent"]
    /\ UNCHANGED <<backend, answers, asked, wizard, losses>>

\* The effect of a success, which marks it before it posts; one post at a time.
Notify ==
    /\ step3.status = "succeeded" /\ ~step3.notified /\ step3.post = "none"
    /\ step3' = [step3 EXCEPT !.notified = TRUE, !.post = "sent"]
    /\ UNCHANGED <<backend, answers, asked, wizard, losses>>

\* record_first_collection_done: one row, however often; or an error, ignored.
RecordFirstCollectionDone ==
    /\ step3.post = "sent"
    /\ step3' = [step3 EXCEPT !.post = "ended"]
    /\ \/ recorded' = TRUE /\ UNCHANGED losses
       \/ losses < MaxLosses /\ losses' = losses + 1 /\ UNCHANGED recorded
    /\ UNCHANGED <<credentials, run, collected, answers, asked, wizard>>

\* onCompleted, either way.
handleExecutionCompleted ==
    /\ step3.post = "ended"
    /\ step3' = [step3 EXCEPT !.post = "none"]
    /\ wizard' = [wizard EXCEPT !.celebrating = TRUE]
    /\ refresh
    /\ UNCHANGED <<backend, answers, losses>>

\* "Pular por enquanto", for 24 h.
handleSkip ==
    /\ View \in {"empresa", "credencial", "execucao"}
    /\ wizard' = [wizard EXCEPT !.dismissed = TRUE]
    /\ step3' = Unmounted
    /\ UNCHANGED <<backend, answers, asked, losses>>

CloseCelebration ==
    /\ View = "celebration"
    /\ wizard' = [wizard EXCEPT !.celebrating = FALSE, !.dismissed = FALSE]
    /\ UNCHANGED <<backend, answers, asked, step3, losses>>

\* The page is reloaded: the queries are asked anew, and the calls are lost,
\* served or not; a dismissal stays, unless it is a day old.
Reload ==
    /\ \E d \in {FALSE, wizard.dismissed} : wizard' = [Fresh EXCEPT !.dismissed = d]
    /\ answers' = Unanswered /\ refresh
    /\ step3' = NotFollowing
    /\ recorded' \in {recorded, recorded \/ step3.post = "sent"}
    /\ UNCHANGED <<credentials, run, collected, losses>>

-----------------------------------------------------------------------------
Next == Open /\ UNCHANGED route /\
    \/ OthersAdd \/ CredentialExpires \/ RunEnds
    \/ CompaniesArrive \/ CredentialArrives \/ RunsArrive \/ Reconnect
    \/ SubmitCompany \/ SubmitCredential \/ SubmitExecution \/ Retry
    \/ CompanyCreated \/ CredentialUploaded \/ ExecutionCreated
    \/ Poll \/ Notify \/ RecordFirstCollectionDone \/ handleExecutionCompleted
    \/ handleSkip \/ CloseCelebration \/ Reload

Spec == Init /\ [][Next]_vars

\* Requests end and effects run, whatever the user and the tenant do.
Fairness ==
    /\ WF_vars(Open /\ UNCHANGED route /\ CompaniesArrive)
    /\ WF_vars(Open /\ UNCHANGED route /\ CredentialArrives)
    /\ WF_vars(Open /\ UNCHANGED route /\ RunsArrive)
    /\ WF_vars(Open /\ UNCHANGED route /\ Poll) /\ WF_vars(Open /\ UNCHANGED route /\ Notify)
    /\ WF_vars(Open /\ UNCHANGED route /\ RecordFirstCollectionDone)
    /\ WF_vars(Open /\ UNCHANGED route /\ handleExecutionCompleted)

FairSpec == Spec /\ Fairness

-----------------------------------------------------------------------------
(* Properties.                                                              *)

\* What is recorded and celebrated has happened: no failed collection, and no
\* answer that came out of order, is taken for the first one.
CelebratedMeansCollected == Open =>
    (recorded \/ wizard.celebrating => collected)

\* A post that fails is retried when the wizard opens again
\* (step-execucao.tsx:147): a success that the step has seen comes to be recorded.
FirstCollectionIsRecorded ==
    Open /\ step3.status = "succeeded" ~> (Open => recorded)
=============================================================================
