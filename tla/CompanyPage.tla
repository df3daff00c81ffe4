----------------------------- MODULE CompanyPage -----------------------------
(***************************************************************************)
(* The page of a company: its query (company-detail-view.tsx), its tabs    *)
(* (company-tabs.tsx), and the tab that edits and deletes it               *)
(* (overview-tab.tsx), against GET, PATCH and DELETE /companies/{id}.      *)
(*                                                                         *)
(* The query is React Query's: one request at a time, a failed one after   *)
(* its retries, and invalidateQueries drops the request on its way for a   *)
(* new one.  The company is its name and status, each written with a stamp *)
(* of its own; the role of the user, without which the buttons are not     *)
(* there, is left out.                                                     *)
(***************************************************************************)
EXTENDS Naturals, Sequences

CONSTANTS
    Tabs,           \* TABS, in their order
    MaxWrites,      \* bound: writes of the company, of all users
    Faults          \* subset of {"network"}

VARIABLES
    route,          \* the page the tab is on
    company,        \* the row: what it says, how often it was written, deleted or not
    query,          \* the query of the page: its data, its status and its request
    tabs,           \* the tab of the URL; the tabs mounted; FALSE once router.replace has left
    action,         \* the dialog of the overview tab: its form and its request
    confirmed       \* the write the last dialog that closed by itself made

vars == <<route, company, query, tabs, action, confirmed>>

Open == route = "/empresas/[id]"

Content == [name : 0..MaxWrites, status : {"active", "paused"}, stamp : 0..MaxWrites]
TabIds == {Tabs[i] : i \in DOMAIN Tabs}
Overview == Tabs[1]

Unwritten == [name |-> 0, status |-> "active", stamp |-> 0]
NoAction == [op |-> "none", form |-> Unwritten, at |-> "open", error |-> "none"]

TypeOK == Open =>
    /\ company \in [row : Content, live : BOOLEAN]
    /\ query \in [status : {"pending", "success", "not_found", "failed"}, data : Content,
                  req : {"none", "asked", "answered", "gone"}, got : Content]
    /\ tabs \in [here : BOOLEAN, active : TabIds, mounted : SUBSET TabIds]
    /\ action \in [op : {"none", "edit", "delete"}, form : Content,
                   at : {"open", "sent", "done", "refreshing", "missing", "refused"},
                   error : {"none", "forbidden", "missing", "failed"}]
    /\ confirmed \in 0..MaxWrites

Init ==
    /\ Open
    /\ company = [row |-> Unwritten, live |-> TRUE]
    /\ query = [status |-> "pending", data |-> Unwritten, req |-> "asked", got |-> Unwritten]
    /\ \E t \in TabIds : tabs = [here |-> TRUE, active |-> t, mounted |-> {t}]
    /\ action = NoAction
    /\ confirmed = 0

-----------------------------------------------------------------------------
(* The row.                                                                 *)

\* update_company: the fields sent, in one statement.
Write(name, status) ==
    LET stamp == company.row.stamp + 1 IN
    /\ company.live /\ stamp <= MaxWrites
    /\ company' = [company EXCEPT !.row = [name |-> name, status |-> status, stamp |-> stamp]]

\* Another user edits the company, or deletes it.
OtherWrites ==
    /\ \/ \E st \in {"active", "paused"} : Write(company.row.name, st)
       \/ company.live /\ company' = [company EXCEPT !.live = FALSE]
    /\ UNCHANGED <<query, tabs, action, confirmed>>

-----------------------------------------------------------------------------
(* CompanyDetailView.                                                       *)

DetailView == IF query.status = "success" THEN "company" ELSE query.status
Shown == tabs.here /\ DetailView = "company"

\* Its header: the badge of the status.
statusVariant(status) == CASE status = "active" -> "success"
                           [] status = "paused" -> "pending"
                           [] OTHER -> "blocked"
Badge == IF Shown THEN statusVariant(query.data.status) ELSE "none"

\* A request that is on its way will do.
AskedOnce == IF query.req = "none" THEN [query EXCEPT !.req = "asked", !.got = Unwritten] ELSE query

Asked == [query EXCEPT !.req = "asked", !.got = Unwritten]

\* The tabs are gone with the company, and their dialogs; they come back as new.
\* A request of a dialog that is gone is like one of another user.
Unmounted == tabs' = [tabs EXCEPT !.mounted = {tabs.active}] /\ action' = NoAction

AnswerQuery ==
    /\ query.req = "asked"
    /\ query' = [query EXCEPT !.req = IF company.live THEN "answered" ELSE "gone",
                              !.got = IF company.live THEN company.row ELSE Unwritten]
    /\ UNCHANGED <<company, tabs, action, confirmed>>

\* An edit that waits for the query closes its dialog once the query has ended.
QueryArrives ==
    /\ query.req = "answered"
    /\ query' = [status |-> "success", data |-> query.got, req |-> "none", got |-> Unwritten]
    /\ action' = IF action.at = "refreshing" THEN NoAction ELSE action
    /\ UNCHANGED <<company, tabs, confirmed>>

\* DetailError takes the place of a company that was there.
QueryFails ==
    /\ \/ query.req = "gone" /\ query' = [query EXCEPT !.status = "not_found", !.req = "none"]
       \/ /\ query.req \in {"asked", "answered"} /\ "network" \in Faults
          /\ query' = [query EXCEPT !.status = "failed", !.req = "none", !.got = Unwritten]
    /\ Unmounted
    /\ UNCHANGED <<company, confirmed>>

\* The connection comes back, or the page is opened again: the query goes on
\* with the request that is on its way, if there is one.
Refetch ==
    /\ tabs.here /\ query.req = "none"
    /\ query' = Asked
    /\ UNCHANGED <<company, tabs, action, confirmed>>

-----------------------------------------------------------------------------
(* CompanyTabs.                                                             *)

\* setTab, by a click: a tab once visited stays mounted, hidden.
setTab(t) ==
    /\ Shown /\ action.op = "none" /\ t # tabs.active
    /\ tabs' = [tabs EXCEPT !.active = t, !.mounted = @ \cup {t}]
    /\ UNCHANGED <<company, query, action, confirmed>>

\* A panel, once the tab was visited.
PanelShown(t) == IF t \notin tabs.mounted THEN "not_mounted"
                 ELSE IF t = tabs.active THEN "visible" ELSE "hidden"

\* onKeyDown: the tab the key leads to, round the ends.
TabOfKey(key, i) ==
    CASE key = "ArrowRight" -> Tabs[(i % Len(Tabs)) + 1]
      [] key = "ArrowLeft" -> Tabs[((i + Len(Tabs) - 2) % Len(Tabs)) + 1]
      [] key = "Home" -> Tabs[1]
      [] key = "End" -> Tabs[Len(Tabs)]

onKeyDown(key) == \E i \in DOMAIN Tabs : Tabs[i] = tabs.active /\ setTab(TabOfKey(key, i))

-----------------------------------------------------------------------------
(* OverviewTab and its two dialogs.                                         *)

\* The form of the edit is what is shown when it opens.
OpenAction(op) ==
    /\ Shown /\ PanelShown(Overview) = "visible" /\ action.op = "none"
    /\ action' = [NoAction EXCEPT !.op = op, !.form = query.data]
    /\ UNCHANGED <<company, query, tabs, confirmed>>

\* What a dialog shows; while it is submitting nothing in it can be used.
DialogShows(op) == IF action.op # op THEN "closed"
                   ELSE IF action.at # "open" THEN "submitting"
                   ELSE IF action.error # "none" THEN "error" ELSE "form"
EditDialog == DialogShows("edit")
DeleteDialog == DialogShows("delete")
InUse == {"form", "error"}

\* "Cancelar", Esc and the backdrop.
CloseAction ==
    /\ {EditDialog, DeleteDialog} \cap InUse # {}
    /\ action' = NoAction
    /\ UNCHANGED <<company, query, tabs, confirmed>>

EditStatus ==
    /\ EditDialog \in InUse
    /\ \E st \in {"active", "paused"} : action' = [action EXCEPT !.form.status = st]
    /\ UNCHANGED <<company, query, tabs, confirmed>>

Submit ==
    /\ {EditDialog, DeleteDialog} \cap InUse # {}
    /\ action' = [action EXCEPT !.at = "sent", !.error = "none"]
    /\ UNCHANGED <<company, query, tabs, confirmed>>

\* The PATCH writes all the form holds: a new name or the one it was opened with.
ServeEdit ==
    /\ action.op = "edit" /\ action.at = "sent"
    /\ \E name \in {company.row.stamp + 1, action.form.name} : Write(name, action.form.status)
    /\ action' = [action EXCEPT !.at = "done", !.form = company'.row]
    /\ UNCHANGED <<query, tabs, confirmed>>

ServeDelete ==
    /\ action.op = "delete" /\ action.at = "sent" /\ company.live
    /\ company' = [company EXCEPT !.live = FALSE]
    /\ action' = [action EXCEPT !.at = "done"]
    /\ UNCHANGED <<query, tabs, confirmed>>

\* No row is left to write, or no permission.
Deny ==
    /\ action.at = "sent"
    /\ \E at \in {"refused"} \cup (IF company.live THEN {} ELSE {"missing"}) :
          action' = [action EXCEPT !.at = at]
    /\ UNCHANGED <<company, query, tabs, confirmed>>

\* What a dialog says of an answer that is not a success: only the deletion
\* tells a company that is gone.
ErrorOf(at) == IF at = "refused" THEN "forbidden"
               ELSE IF at = "missing" /\ action.op = "delete" THEN "missing" ELSE "failed"

\* The edit has the query asked for anew and waits for it, in its dialog; the
\* deletion goes to the list.
Succeed ==
    /\ action.at = "done"
    /\ \/ /\ action.op = "edit"
          /\ query' = Asked /\ action' = [action EXCEPT !.at = "refreshing"]
          /\ confirmed' = action.form.stamp
          /\ UNCHANGED tabs
       \/ /\ action.op = "delete"
          /\ tabs' = [tabs EXCEPT !.here = FALSE, !.mounted = {}] /\ action' = NoAction
          /\ UNCHANGED <<query, confirmed>>
    /\ UNCHANGED company

Fail ==
    /\ \/ action.at \in {"missing", "refused"}
       \/ action.at \in {"sent", "done"} /\ "network" \in Faults
    /\ action' = [action EXCEPT !.at = "open", !.error = ErrorOf(action.at)]
    /\ UNCHANGED <<company, query, tabs, confirmed>>

-----------------------------------------------------------------------------
Next ==
    /\ Open /\ UNCHANGED route
    /\ \/ OtherWrites
       \/ AnswerQuery \/ QueryArrives \/ QueryFails \/ Refetch
       \/ \E t \in TabIds : setTab(t)
       \/ \E key \in {"ArrowRight", "ArrowLeft", "Home", "End"} : onKeyDown(key)
       \/ \E op \in {"edit", "delete"} : OpenAction(op)
       \/ CloseAction \/ EditStatus \/ Submit \/ ServeEdit \/ ServeDelete \/ Deny \/ Succeed \/ Fail

Spec == Init /\ [][Next]_vars

-----------------------------------------------------------------------------
(* Properties.                                                              *)

\* Once the dialog of an edit that was saved has closed, the page shows what was
\* saved or something newer, even when a request of before the edit was on its
\* way: an older company is never shown under the closed dialog (overview-tab.tsx
\* onSubmit awaits invalidateQueries before onClose).
EditIsShown == Open =>
    (Shown /\ action.at # "refreshing" => query.data.stamp >= confirmed)

=============================================================================
