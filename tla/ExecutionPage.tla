---------------------------- MODULE ExecutionPage ----------------------------
(***************************************************************************)
(* The page of one execution (execucao-detail-view.tsx): a query for the   *)
(* row, polled every 2 s until its status is final, and a query for the    *)
(* page of items shown, polled only while the row SHOWN is not final.      *)
(*                                                                         *)
(* A query (react-query) is asked, is answered with what the server holds  *)
(* at that moment, and arrives; a failure is retried once.  What the       *)
(* server holds is a number, how many items the worker has stored, and the *)
(* row's status.  The query of the items is the one shown: when the user   *)
(* comes to another (filter, page), the cache may hold no answer for it,   *)
(* or any answer the server gave before.                                   *)
(***************************************************************************)
EXTENDS Naturals, FiniteSets

CONSTANTS
    ItemStatus,     \* the status each item of the execution gets, in order
    PageSize        \* ITEMS_PAGE_SIZE

VARIABLES
    route,          \* the page the tab is on
    rowStatus,      \* executions.status
    stored,         \* the items in the database
    detail,         \* the query of the row: what it shows and what is asked
    items,          \* the query of the items shown, likewise; due: to be fetched
                    \* though it is not polled
    filter, itemsPage, selected

server == <<rowStatus, stored>>
shownState == <<filter, itemsPage, selected>>
vars == <<route, server, detail, items, shownState>>

Open == route = "/execucoes/[id]"

Items == DOMAIN ItemStatus
NoData == Cardinality(Items) + 1
Filters == {"all"} \cup {ItemStatus[i] : i \in Items}

FinalStatuses == {"succeeded", "failed", "cancelled", "partial"}
isTerminalStatus(st) == st \in FinalStatuses

\* The items of filter f among the first n, and those of its page pg.
Matching(f, n) == {i \in 1..n : f = "all" \/ ItemStatus[i] = f}
OnPage(f, pg, n) == {i \in Matching(f, n) :
    Cardinality({j \in Matching(f, n) : j < i}) \div PageSize = pg - 1}

\* itemsTotalPages.
TotalPages(f, n) ==
    LET full == (Cardinality(Matching(f, n)) + PageSize - 1) \div PageSize
    IN  IF full = 0 THEN 1 ELSE full


\* A request: idle, on its way for the first or the second time, or answered
\* with what was stored (and, for the row, its status) then.
Idle == [leg |-> "idle", n |-> 0, st |-> "queued"]
Ask(leg) == [leg |-> leg, n |-> 0, st |-> "queued"]

TypeOK == Open =>
    /\ rowStatus \in FinalStatuses \cup {"queued", "running"}
    /\ stored \in 0..Cardinality(Items)
    /\ detail.data \in 0..NoData /\ detail.st \in FinalStatuses \cup {"queued", "running"}
    /\ detail.error \in BOOLEAN
    /\ items.data \in 0..NoData /\ items.due \in BOOLEAN
    /\ \A r \in {items.req, detail.req} :
          r.leg \in {"idle", "asked", "again", "answered", "failed"}
    /\ filter \in Filters /\ itemsPage \in 1..TotalPages("all", Cardinality(Items))
    /\ selected \subseteq Items

Init ==
    /\ Open
    /\ rowStatus = "queued" /\ stored = 0
    /\ detail = [data |-> NoData, st |-> "queued", error |-> FALSE, req |-> Ask("asked")]
    /\ items = [data |-> NoData, due |-> FALSE, req |-> Idle]
    /\ filter = "all" /\ itemsPage = 1 /\ selected = {}

-----------------------------------------------------------------------------
(* What the page shows.                                                     *)

\* The row is loaded, and its status as shown is final.
Loaded == detail.data # NoData
ShownFinal == Loaded /\ isTerminalStatus(detail.st)

\* An error replaces the content, data or not.
DetailView ==
    IF ~Loaded /\ (detail.req # Idle \/ ~detail.error) THEN "loading"
    ELSE IF detail.error THEN "error"
    ELSE "execution"

\* computeProgress, of a row whose items_total is t.
computeProgress(t, processed) ==
    LET total == IF t > processed THEN t ELSE processed
    IN  [processed |-> processed, total |-> total,
         percent |-> IF total = 0 THEN 0 ELSE (200 * processed + total) \div (2 * total)]

\* The rows of the table.
itemRows == IF items.data = NoData THEN {} ELSE OnPage(filter, itemsPage, items.data)

ItemsView ==
    IF DetailView # "execution" THEN "hidden"
    ELSE IF items.data = NoData THEN IF items.req # Idle \/ items.due THEN "loading" ELSE "error"
    ELSE IF itemRows = {} THEN "empty"
    ELSE "table"

-----------------------------------------------------------------------------
(* The server: the worker of Collection, as this page sees it.              *)

StoreItem ==
    /\ rowStatus \in {"queued", "running"} /\ stored < Cardinality(Items)
    /\ rowStatus' = "running" /\ stored' = stored + 1
    /\ UNCHANGED <<detail, items, shownState>>

FinishRow ==
    /\ rowStatus = "running"
    /\ rowStatus' \in {"succeeded", "failed"}
    /\ UNCHANGED <<stored, detail, items, shownState>>

-----------------------------------------------------------------------------
(* Requests.                                                                *)

Pending(r) == r.leg \in {"asked", "again"}

\* The server answers with what it holds.
Answered(r) == [leg |-> "answered", n |-> stored, st |-> rowStatus]

\* The request fails: once more (retry: 1), then it has failed.
Failed(r) == IF r.leg = "asked" THEN Ask("again") ELSE Ask("failed")

\* Polling that an error ends for good.
PollDetailUntilError ==
    /\ detail.req.leg = "idle" /\ ~ShownFinal /\ ~detail.error
    /\ detail' = [detail EXCEPT !.req = Ask("asked")]
    /\ UNCHANGED <<server, items, shownState>>

PollDetail ==
    /\ detail.req.leg = "idle" /\ ~ShownFinal
    /\ detail' = [detail EXCEPT !.req = Ask("asked")]
    /\ UNCHANGED <<server, items, shownState>>

AnswerDetail ==
    /\ Pending(detail.req)
    /\ detail' = [detail EXCEPT !.req = Answered(@)]
    /\ UNCHANGED <<server, items, shownState>>

LoseDetail ==
    /\ Pending(detail.req)
    /\ detail' = [detail EXCEPT !.req = Failed(@)]
    /\ UNCHANGED <<server, items, shownState>>

\* The first row enables the items query.
DetailArrives ==
    /\ detail.req.leg \in {"answered", "failed"}
    /\ detail' = IF detail.req.leg = "failed"
                 THEN [detail EXCEPT !.error = TRUE, !.req = Idle]
                 ELSE [data |-> detail.req.n, st |-> detail.req.st, error |-> FALSE, req |-> Idle]
    /\ items' = [items EXCEPT !.due = @ \/ (~Loaded /\ detail'.data # NoData)]
    /\ UNCHANGED <<server, shownState>>

\* Fetched when first shown, then polled unless the row shown is final.
PollItems ==
    /\ Loaded /\ items.req = Idle
    /\ items.due \/ ~ShownFinal
    /\ items' = [items EXCEPT !.req = Ask("asked"), !.due = FALSE]
    /\ UNCHANGED <<server, detail, shownState>>

AnswerItems ==
    /\ Pending(items.req)
    /\ items' = [items EXCEPT !.req = Answered(@)]
    /\ UNCHANGED <<server, detail, shownState>>

LoseItems ==
    /\ Pending(items.req)
    /\ items' = [items EXCEPT !.req = Failed(@)]
    /\ UNCHANGED <<server, detail, shownState>>

ItemsArrive ==
    /\ items.req.leg \in {"answered", "failed"}
    /\ items' = [items EXCEPT !.req = Idle,
                 !.data = IF items.req.leg = "failed" THEN @ ELSE items.req.n]
    /\ UNCHANGED <<server, detail, shownState>>

-----------------------------------------------------------------------------
(* The user.                                                                *)

\* Showing page pg of filter f: an answer of the cache, fetched anew if it is
\* older than staleTime, or none yet.
Show(f, pg) ==
    /\ filter' = f /\ itemsPage' = pg
    /\ \/ items' = [data |-> NoData, due |-> TRUE, req |-> Idle]
       \/ \E n \in 0..stored, old \in BOOLEAN :
             items' = [data |-> n, due |-> old, req |-> Idle]

\* A filter that keeps what was selected under the one before.
SetFilterKeepsSelection(f) ==
    /\ DetailView = "execution" /\ f # filter
    /\ Show(f, 1)
    /\ UNCHANGED <<server, detail, selected>>

\* A filter tab; the effect on it goes back to page 1 and drops the selection.
SetFilter(f) ==
    /\ DetailView = "execution" /\ f # filter
    /\ Show(f, 1)
    /\ selected' = {}
    /\ UNCHANGED <<server, detail>>

\* "Anterior" and "Proxima", of the pages the last answer counts.
TurnPage(pg) ==
    /\ DetailView = "execution" /\ items.data # NoData
    /\ pg \in {itemsPage - 1, itemsPage + 1} \cap 1..TotalPages(filter, items.data)
    /\ Show(filter, pg)
    /\ UNCHANGED <<server, detail, selected>>

toggleItem(i) ==
    /\ ItemsView = "table" /\ i \in itemRows
    /\ selected' = IF i \in selected THEN selected \ {i} ELSE selected \cup {i}
    /\ UNCHANGED <<server, detail, items, filter, itemsPage>>

toggleAllVisible ==
    /\ ItemsView = "table"
    /\ selected' = IF itemRows \subseteq selected THEN selected \ itemRows ELSE selected \cup itemRows
    /\ UNCHANGED <<server, detail, items, filter, itemsPage>>

-----------------------------------------------------------------------------
User ==
    \/ \E f \in Filters : SetFilter(f)
    \/ \E pg \in 1..TotalPages("all", Cardinality(Items)) : TurnPage(pg)
    \/ \E i \in Items : toggleItem(i)
    \/ toggleAllVisible

Next == Open /\ UNCHANGED route /\
    \/ StoreItem \/ FinishRow
    \/ PollDetail \/ AnswerDetail \/ LoseDetail \/ DetailArrives
    \/ PollItems \/ AnswerItems \/ LoseItems \/ ItemsArrive
    \/ User

Spec == Init /\ [][Next]_vars

\* Polls fire and answers arrive, whatever the worker does; of the requests that
\* are made again and again, not every one fails.
Fairness ==
    /\ WF_vars(Open /\ UNCHANGED route /\ PollDetail) /\ SF_vars(Open /\ UNCHANGED route /\ AnswerDetail)
    /\ WF_vars(Open /\ UNCHANGED route /\ DetailArrives) /\ WF_vars(Open /\ UNCHANGED route /\ PollItems)
    /\ SF_vars(Open /\ UNCHANGED route /\ AnswerItems) /\ WF_vars(Open /\ UNCHANGED route /\ ItemsArrive)

FairSpec == Spec /\ Fairness

-----------------------------------------------------------------------------
(* Properties.                                                              *)

\* What "Reprocessar selecionados" counts are items of the filter shown.
SelectionIsOfFilter == Open => selected \subseteq Matching(filter, stored)

\* The status the page takes for final, and stops polling at, is the row's: an
\* older answer shows one that is not (execucao-detail-view.tsx, refetchInterval).
ShownFinalIsTrue == Open => (ShownFinal => detail.st = rowStatus)

\* A final status reaches the page, even after requests that failed.
FinalStatusIsShown == Open /\ isTerminalStatus(rowStatus) ~>
    (Open => DetailView = "execution" /\ detail.st = rowStatus)

\* The page is polled until the final status (docs/tasks/APP-05.md:22): then the
\* table a user leaves alone holds every item of its page.
FinalItemsAreShown ==
    [](isTerminalStatus(rowStatus) => <>(itemRows = OnPage(filter, itemsPage, stored)))
=============================================================================
