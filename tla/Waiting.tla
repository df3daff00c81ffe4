-------------------------------- MODULE Waiting --------------------------------
(***************************************************************************)
(* What waits in the web panel: the session of a browser, and the pages    *)
(* that poll or load again.  A behaviour is that of the session,           *)
(* or of one page in a browser without one (its session does not change    *)
(* what is checked there); what belongs to the other pages does not exist  *)
(* (0) and stays so.                                                       *)
(***************************************************************************)
EXTENDS Session, Sequences

CONSTANTS
    ItemStatus, PageSize,                               \* ExecutionPage
    FormCompanies, FormRenewals, MaxChanges,            \* ExecutionForm
    PollTimeout, MaxExports, FilesRenewals, MaxFailures \* FilesPage

\* The items have an order, and a page of them a size.
ASSUME ItemsAssumption == ItemStatus \in Seq(STRING) /\ PageSize \in Nat \ {0}

ASSUME BoundsAssumption ==
    /\ FormRenewals \in Nat /\ MaxChanges \in Nat
    /\ PollTimeout \in Nat /\ MaxExports \in Nat /\ FilesRenewals \in Nat /\ MaxFailures \in Nat

VARIABLES
    route,
    rowStatus, stored, detail, items, filter, itemsPage, selected,
    active, valid, opened, companies, loads, selectedIds, submission, submitError, pushed,
    renewals, changes,
    exports, dialog, polling, filesList, downloading, filesFaults

sessionVars == <<live, cookie, tab, call, signedOut, orderly>>
execVars == <<rowStatus, stored, detail, items, filter, itemsPage, selected>>
formVars == <<active, valid, opened, companies, loads, selectedIds, submission, submitError,
              pushed, renewals, changes>>
filesVars == <<exports, dialog, polling, filesList, downloading, filesFaults>>
allVars == <<sessionVars, route, execVars, formVars, filesVars>>

Exec == INSTANCE ExecutionPage

Form == INSTANCE ExecutionForm WITH Companies <- FormCompanies, MaxRenewals <- FormRenewals

Files == INSTANCE FilesPage WITH MaxRenewals <- FilesRenewals

WaitingInit ==
    /\ Init
    /\ route \in {"session", "/execucoes/[id]", "/execucoes/nova", "/arquivos"}
    /\ route # "session" => cookie = NoToken
    /\ \/ Exec!Init
       \/ /\ ~Exec!Open /\ rowStatus = 0 /\ stored = 0 /\ detail = 0 /\ items = 0
          /\ filter = 0 /\ itemsPage = 0 /\ selected = 0
    /\ \/ Form!Init
       \/ /\ ~Form!Open /\ active = 0 /\ valid = 0 /\ opened = 0 /\ companies = 0
          /\ loads = 0 /\ selectedIds = 0 /\ submission = 0 /\ submitError = 0
          /\ pushed = 0 /\ renewals = 0 /\ changes = 0
    /\ \/ Files!Init
       \/ /\ ~Files!Open /\ exports = 0 /\ dialog = 0 /\ polling = 0
          /\ filesList = 0 /\ downloading = 0 /\ filesFaults = 0

WaitingNext ==
    \/ route = "session" /\ Next /\ UNCHANGED <<route, execVars, formVars, filesVars>>
    \/ Exec!Next /\ UNCHANGED <<sessionVars, formVars, filesVars>>
    \/ Form!Next /\ UNCHANGED <<sessionVars, execVars, filesVars>>
    \/ Files!Next /\ UNCHANGED <<sessionVars, execVars, formVars>>

WaitingSpec ==
    /\ WaitingInit /\ [][WaitingNext]_allVars
    /\ Fairness /\ Exec!Fairness /\ Form!Fairness /\ Files!Fairness

-----------------------------------------------------------------------------
(* What is checked of each page: see its module.                            *)

\* What "Reprocessar selecionados" counts (ExecutionPage).
WaitingSelectionIsOfFilter == Exec!SelectionIsOfFilter

\* A final status reaches the page of the execution (ExecutionPage).
WaitingFinalStatusIsShown == Exec!FinalStatusIsShown

\* The form leaves "Carregando empresas" (ExecutionForm).
WaitingFormSettles == Form!FormSettles

\* An export that has ended ends its polling (FilesPage).
WaitingEndedExportIsShown == Files!EndedExportIsShown
=============================================================================
