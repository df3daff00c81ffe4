--------------------------------- MODULE Panel ---------------------------------
(***************************************************************************)
(* The web panel whose safety is checked: the session of a browser and,    *)
(* page by page, the pages of a tab with the API and the users behind      *)
(* them.  A behaviour is that of the session of a browser, or of one page  *)
(* in a browser without one: what belongs to the other pages does not      *)
(* exist (0) and stays so.                                                 *)
(***************************************************************************)
EXTENDS Session, Sequences

CONSTANTS
    ScheduleUsers, Crons,                           \* Schedules
    First, Last, Calendar, Exprs,                   \* ScheduleForm, over Cron
    Filters, NoFilter, PageSizes, MaxRows, MaxSaved,    \* DataTable
    MaxCompanies, MaxLosses,                        \* Onboarding
    Me,                                             \* the user of the browser
    CredOthers, Process, MaxUploads, MaxReads, CredFaults,  \* Credentials
    CompOthers, Cnpjs, Cap, CompFaults,             \* Companies
    PageTabs, PageWrites, PageFaults,               \* CompanyPage
    OccOthers, OccWrites, OccFaults                 \* Occurrences

\* A cron is no mark of the model.
ASSUME CronsAssumption == {"none", "keep"} \cap Crons = {}

\* A field has a range, the weekdays more than one value, and an expression has
\* some parts in each field.
ASSUME ExprsAssumption ==
    /\ \A f \in {"minute", "hour", "day", "month", "dow"} :
          First[f] \in Nat /\ Last[f] \in Nat /\ First[f] <= Last[f]
    /\ First["dow"] < Last["dow"]
    /\ Exprs \subseteq [{"minute", "hour", "day", "month", "dow"} ->
          SUBSET [base : {"star", "one", "range"}, a : Nat, b : Nat, step : Nat]]

\* A page of a table has a size.
ASSUME TableAssumption ==
    NoFilter \in Filters /\ PageSizes \subseteq Nat \ {0} /\ MaxRows \in Nat /\ MaxSaved \in Nat

ASSUME OnboardingAssumption == MaxCompanies \in Nat /\ MaxLosses \in Nat

\* The user is none of the others, and no transaction fails to commit.
ASSUME CredentialsAssumption ==
    /\ Me \notin CredOthers /\ MaxUploads \in Nat /\ MaxReads \in Nat
    /\ CredFaults \subseteq {"network", "storage"}

ASSUME CompaniesAssumption == Me \notin CompOthers /\ CompFaults \subseteq {"network"}

ASSUME PageAssumption == PageTabs \in Seq(STRING) \ {<<>>} /\ PageWrites \in Nat

ASSUME OccurrencesAssumption ==
    OccWrites \in Nat /\ OccOthers \cap {"acknowledge", "resolve", "assign"} = {}

VARIABLES
    route,
    sched, tick, shown, editing, mutation, overlapped,
    saved, form, original,
    url, filterDraft, table, savedFilters,
    credentials, run, collected, recorded, answers, asked, wizard, step3, losses,
    rows, blobs, tx, loops, panel, reads, dialog,
    companiesLive, posts, list, newDialog,
    company, query, tabs, action, confirmed,
    occurrence, requests, detail, mutations, openDialog, runbook

schedVars == <<sched, tick, shown, editing, mutation, overlapped>>
sformVars == <<saved, form, original>>
tableVars == <<url, filterDraft, table, savedFilters>>
onbVars == <<credentials, run, collected, recorded, answers, asked, wizard, step3, losses>>
credVars == <<rows, blobs, tx, loops, panel, reads, dialog>>
compVars == <<companiesLive, posts, list, newDialog>>
pageVars == <<company, query, tabs, action, confirmed>>
occVars == <<occurrence, requests, detail, mutations, openDialog, runbook>>
pagesVars == <<schedVars, sformVars, tableVars, onbVars, credVars, compVars, pageVars, occVars>>
sessionVars == <<live, cookie, tab, call, signedOut, orderly>>
panelVars == <<sessionVars, route, pagesVars>>

-----------------------------------------------------------------------------
Sched == INSTANCE Schedules WITH Users <- ScheduleUsers

SForm == INSTANCE ScheduleForm

Table == INSTANCE DataTable

Onb == INSTANCE Onboarding

Cred == INSTANCE Credentials WITH Others <- CredOthers, Faults <- CredFaults

Comp == INSTANCE Companies WITH Others <- CompOthers, Faults <- CompFaults, live <- companiesLive

Page == INSTANCE CompanyPage WITH Tabs <- PageTabs, MaxWrites <- PageWrites, Faults <- PageFaults

Occ == INSTANCE Occurrences WITH Others <- OccOthers, MaxWrites <- OccWrites, Faults <- OccFaults

-----------------------------------------------------------------------------
PanelInit ==
    /\ Init
    /\ route \in {"session", "/agendamentos", "/agendamentos/form", "/ocorrencias",
                  "/ocorrencias/[id]", "/empresas", "/empresas/[id]", "/dashboard",
                  "/dashboard/empresas/[id]/credencial"}
    /\ route # "session" => cookie = NoToken
    /\ \/ Sched!Init
       \/ /\ ~Sched!Open
          /\ sched = 0 /\ tick = 0 /\ shown = 0 /\ editing = 0 /\ mutation = 0 /\ overlapped = 0
    /\ \/ SForm!Init
       \/ ~SForm!Open /\ saved = 0 /\ form = 0 /\ original = 0
    /\ \/ Table!Init
       \/ ~Table!Open /\ url = 0 /\ filterDraft = 0 /\ table = 0 /\ savedFilters = 0
    /\ \/ Onb!Init
       \/ /\ ~Onb!Open /\ credentials = 0 /\ run = 0 /\ collected = 0 /\ recorded = 0
          /\ answers = 0 /\ asked = 0 /\ wizard = 0 /\ step3 = 0 /\ losses = 0
    /\ \/ Cred!Init
       \/ /\ ~Cred!Open /\ rows = 0 /\ blobs = 0 /\ tx = 0 /\ loops = 0
          /\ panel = 0 /\ reads = 0 /\ dialog = 0
    /\ \/ Comp!Init
       \/ ~Comp!Open /\ companiesLive = 0 /\ posts = 0 /\ list = 0 /\ newDialog = 0
    /\ \/ Page!Init
       \/ ~Page!Open /\ company = 0 /\ query = 0 /\ tabs = 0 /\ action = 0 /\ confirmed = 0
    /\ \/ Occ!Init
       \/ /\ ~Occ!Open /\ occurrence = 0 /\ requests = 0 /\ detail = 0
          /\ mutations = 0 /\ openDialog = 0 /\ runbook = 0

PanelNext ==
    \/ route = "session" /\ Next /\ UNCHANGED <<route, pagesVars>>
    \/ /\ Sched!Next
       /\ UNCHANGED <<sessionVars, sformVars, tableVars, onbVars, credVars, compVars,
                      pageVars, occVars>>
    \/ /\ SForm!Next
       /\ UNCHANGED <<sessionVars, schedVars, tableVars, onbVars, credVars, compVars,
                      pageVars, occVars>>
    \/ /\ Table!Next
       /\ UNCHANGED <<sessionVars, schedVars, sformVars, onbVars, credVars, compVars,
                      pageVars, occVars>>
    \/ /\ Onb!Next
       /\ UNCHANGED <<sessionVars, schedVars, sformVars, tableVars, credVars, compVars,
                      pageVars, occVars>>
    \/ /\ Cred!Next
       /\ UNCHANGED <<sessionVars, schedVars, sformVars, tableVars, onbVars, compVars,
                      pageVars, occVars>>
    \/ /\ Comp!Next
       /\ UNCHANGED <<sessionVars, schedVars, sformVars, tableVars, onbVars, credVars,
                      pageVars, occVars>>
    \/ /\ Page!Next
       /\ UNCHANGED <<sessionVars, schedVars, sformVars, tableVars, onbVars, credVars,
                      compVars, occVars>>
    \/ /\ Occ!Next
       /\ UNCHANGED <<sessionVars, schedVars, sformVars, tableVars, onbVars, credVars,
                      compVars, pageVars>>

PanelSpec == PanelInit /\ [][PanelNext]_panelVars

-----------------------------------------------------------------------------
(* What is checked of each page: see its module.                            *)

\* The type invariants of the session and of the pages.
PanelTypeOK ==
    /\ TypeOK
    /\ Sched!TypeOK
    /\ SForm!TypeOK
    /\ Table!TypeOK
    /\ Onb!TypeOK
    /\ Cred!TypeOK
    /\ Comp!TypeOK
    /\ Page!TypeOK
    /\ Occ!TypeOK

\* What writers that come one after the other leave of a schedule (Schedules).
PanelSerialWritesAreCoherent == Sched!SerialWritesAreCoherent

\* What editing a schedule without choosing a frequency keeps (ScheduleForm).
PanelEditKeepsRuns == SForm!EditKeepsRuns

\* The way back from a page of a table that has emptied (DataTable).
PanelNobodyIsStranded == Table!NobodyIsStranded

\* What the wizard celebrates and has recorded (Onboarding).
PanelCelebratedMeansCollected == Onb!CelebratedMeansCollected

\* The file of every credential in force (Credentials).
PanelActiveHasBlob == Cred!ActiveHasBlob

\* What the page of a company shows after an edit (CompanyPage).
PanelEditIsShown == Page!EditIsShown

\* The moment of the first resolution (Occurrences).
PanelResolutionTimeKept == Occ!ResolutionTimeKept
=============================================================================
