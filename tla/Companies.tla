------------------------------ MODULE Companies ------------------------------
(***************************************************************************)
(* The companies of a tenant: POST and DELETE /companies of                *)
(* companies/routes.py, asked for by several users, and the page of one of *)
(* them that lists companies and creates them (empresas-view.tsx,          *)
(* empresas-table.tsx and nova-empresa-dialog.tsx, over                    *)
(* lib/api/companies.ts).                                                  *)
(*                                                                         *)
(* A POST is one transaction: it counts the companies against the cap of   *)
(* the plan, inserts, and is committed at its end.  A company is its CNPJ, *)
(* which the unique index of live companies is about; the fields of the    *)
(* form are valid or not, and the filters and pages of the list are        *)
(* DataTable's.                                                            *)
(***************************************************************************)
EXTENDS Naturals, FiniteSets

CONSTANTS
    Me,             \* the user of the page
    Others,         \* users elsewhere
    Cnpjs,          \* the CNPJs that are asked for
    Cap,            \* {the max_companies of the plan}, or {}
    Faults          \* subset of {"network"}

VARIABLES
    route,          \* the page the tab is on
    live,           \* the companies that are not deleted
    posts,          \* the POST of each user: its transaction, then its answer
    list,           \* the query of the list: what it shows and its request
    newDialog       \* NovaEmpresaDialog

vars == <<route, live, posts, list, newDialog>>

Open == route = "/empresas"

Users == {Me} \cup Others
Errors == {"none", "limit", "exists", "forbidden", "failed", "network"}

NoPost == [at |-> "none", cnpj |-> {}, answer |-> "none"]
NoDialog == [open |-> FALSE, cnpj |-> {}, valid |-> FALSE, told |-> FALSE, submitting |-> FALSE, error |-> "none"]

TypeOK == Open =>
    /\ live \subseteq Cnpjs
    /\ posts \in [Users -> [at : {"none", "sent", "counted", "inserted", "answered"},
                            cnpj : SUBSET Cnpjs, answer : Errors]]
    /\ list \in [view : {"loading", "rows", "error"}, rows : SUBSET Cnpjs,
                 req : {"none", "asked", "answered"}, got : SUBSET Cnpjs]
    /\ newDialog \in [open : BOOLEAN, cnpj : SUBSET Cnpjs, valid : BOOLEAN, told : BOOLEAN,
                      submitting : BOOLEAN, error : Errors]

Init ==
    /\ Open
    /\ live = {}
    /\ posts = [u \in Users |-> NoPost]
    /\ list = [view |-> "loading", rows |-> {}, req |-> "asked", got |-> {}]
    /\ newDialog = NoDialog

-----------------------------------------------------------------------------
(* The API.                                                                 *)

Answer(u, error) == posts' = [posts EXCEPT ![u] = IF u = Me THEN [@ EXCEPT !.at = "answered", !.answer = error]
                                                  ELSE NoPost]

\* Access, and the cap: _count_live_companies sees what is committed.
Count(u) ==
    /\ posts[u].at = "sent"
    /\ \/ Answer(u, "forbidden")
       \/ \E cap \in Cap : Cardinality(live) >= cap /\ Answer(u, "limit")
       \/ (\A cap \in Cap : Cardinality(live) < cap) /\ posts' = [posts EXCEPT ![u].at = "counted"]
    /\ UNCHANGED <<live, list, newDialog>>

\* The INSERT waits for the end of a transaction that has inserted the same.
Insert(u) ==
    /\ posts[u].at = "counted"
    /\ \A v \in Users : posts[v].at = "inserted" => posts[v].cnpj # posts[u].cnpj
    /\ IF posts[u].cnpj \subseteq live THEN Answer(u, "exists")
       ELSE posts' = [posts EXCEPT ![u].at = "inserted"]
    /\ UNCHANGED <<live, list, newDialog>>

Commit(u) ==
    /\ posts[u].at = "inserted"
    /\ live' = live \cup posts[u].cnpj
    /\ Answer(u, "none")
    /\ UNCHANGED <<list, newDialog>>

\* A user elsewhere creates a company, or deletes one (soft_delete_company).
OtherCreates(u) ==
    /\ u \in Others /\ posts[u].at = "none"
    /\ \E c \in Cnpjs : posts' = [posts EXCEPT ![u] = [NoPost EXCEPT !.at = "sent", !.cnpj = {c}]]
    /\ UNCHANGED <<live, list, newDialog>>

soft_delete_company(c) ==
    /\ c \in live /\ live' = live \ {c}
    /\ UNCHANGED <<posts, list, newDialog>>

-----------------------------------------------------------------------------
(* The list.                                                                *)

ListView == IF list.view # "rows" THEN list.view ELSE IF list.rows = {} THEN "empty" ELSE "table"

Refetch ==
    /\ list.req = "none" /\ ~newDialog.open
    /\ list' = [list EXCEPT !.req = "asked"]
    /\ UNCHANGED <<live, posts, newDialog>>

AnswerList ==
    /\ list.req = "asked"
    /\ list' = [list EXCEPT !.req = "answered", !.got = live]
    /\ UNCHANGED <<live, posts, newDialog>>

ListArrives ==
    /\ \/ /\ list.req = "answered"
          /\ list' = [view |-> "rows", rows |-> list.got, req |-> "none", got |-> {}]
       \/ /\ list.req # "none" /\ "network" \in Faults
          /\ list' = [list EXCEPT !.view = "error", !.req = "none", !.got = {}]
    /\ UNCHANGED <<live, posts, newDialog>>

-----------------------------------------------------------------------------
(* The dialog.                                                              *)

OpenDialog ==
    /\ ~newDialog.open
    /\ newDialog' = [NoDialog EXCEPT !.open = TRUE]
    /\ UNCHANGED <<live, posts, list>>

\* What it shows; while it is submitting nothing in it can be used.
DialogView == IF ~newDialog.open THEN "closed"
              ELSE IF newDialog.submitting THEN "submitting"
              ELSE IF newDialog.told THEN "invalid"
              ELSE IF newDialog.error # "none" THEN "error" ELSE "form"
InUse == DialogView \in {"form", "invalid", "error"}

\* The form is typed in: a CNPJ, and the other fields well or not.
Fill ==
    /\ InUse
    /\ \E c \in Cnpjs, valid \in BOOLEAN :
          newDialog' = [newDialog EXCEPT !.cnpj = {c}, !.valid = valid, !.told = @ /\ ~valid]
    /\ UNCHANGED <<live, posts, list>>

\* The schema tells a form that is not valid what is wrong, and sends nothing.
Refuse ==
    /\ InUse /\ ~newDialog.valid
    /\ newDialog' = [newDialog EXCEPT !.told = TRUE]
    /\ UNCHANGED <<live, posts, list>>

onSubmit ==
    /\ InUse /\ newDialog.valid
    /\ newDialog' = [newDialog EXCEPT !.submitting = TRUE, !.told = FALSE, !.error = "none"]
    /\ posts' = [posts EXCEPT ![Me] = [NoPost EXCEPT !.at = "sent", !.cnpj = newDialog.cnpj]]
    /\ UNCHANGED <<live, list>>

\* handleCreated closes the dialog and has the list asked for anew, whatever
\* request of it is on its way; an error is told.  A lost answer is an error too.
PostEnds ==
    /\ newDialog.submitting /\ posts[Me].at = "answered"
    /\ \E error \in {posts[Me].answer} \cup (Faults \cap {"network"}) :
          IF error = "none"
          THEN newDialog' = NoDialog /\ list' = [list EXCEPT !.req = "asked", !.got = {}]
          ELSE newDialog' = [newDialog EXCEPT !.submitting = FALSE, !.error = error] /\ UNCHANGED list
    /\ posts' = [posts EXCEPT ![Me] = NoPost]
    /\ UNCHANGED live

\* Not while it is submitting.
CloseDialog ==
    /\ InUse
    /\ newDialog' = NoDialog
    /\ UNCHANGED <<live, posts, list>>

-----------------------------------------------------------------------------
Next ==
    /\ Open /\ UNCHANGED route
    /\ \/ \E u \in Users : Count(u) \/ Insert(u) \/ Commit(u) \/ OtherCreates(u)
       \/ \E c \in Cnpjs : soft_delete_company(c)
       \/ Refetch \/ AnswerList \/ ListArrives
       \/ OpenDialog \/ Fill \/ Refuse \/ onSubmit \/ PostEnds \/ CloseDialog

Spec == Init /\ [][Next]_vars

-----------------------------------------------------------------------------
(* Properties.                                                              *)

\* A tenant never has more live companies than its plan allows, as routes.py
\* says of the POST: "se a contagem de companies vivas do tenant ja atingiu o
\* teto, devolve 409" (the count and the INSERT are two statements).
CapHolds == Open => \A cap \in Cap : Cardinality(live) <= cap

=============================================================================
