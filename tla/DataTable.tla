------------------------------ MODULE DataTable ------------------------------
(***************************************************************************)
(* The table of companies, occurrences and members (data-table.tsx): its   *)
(* filter, sort and page live in the URL, the filter fields in a draft,    *)
(* and the rows in a query (react-query) keyed by the URL, which shows the *)
(* rows of the URL before (keepPreviousData) until those of this one are   *)
(* there.  The server may hold any number of rows at any time; a filter is *)
(* all the fields together.  Saved filters are those of one tab, fewer     *)
(* than the 20 that localStorage keeps.                                    *)
(***************************************************************************)
EXTENDS Naturals, Sequences

CONSTANTS
    Filters,        \* what the filter fields may hold, with NoFilter
    NoFilter,
    PageSizes,      \* pageSizeOptions
    MaxRows,        \* bound: rows on the server
    MaxSaved        \* bound: saved filters

VARIABLES
    route,          \* the page the tab is on
    url,            \* urlState: pagination, sort and filters
    filterDraft,
    table,          \* the query: whose rows it shows, and what is asked
    savedFilters    \* saved filters, the newest first

vars == <<route, url, filterDraft, table, savedFilters>>

Open == route = "/ocorrencias"

Sorts == {"none", "asc", "desc"}
Urls == [page : 0..MaxRows, size : PageSizes, sort : Sorts, filter : Filters]

\* What is saved of a URL, under a name: its filter and its sort.
Entries == [filter : Filters, sort : Sorts]

TypeOK == Open =>
    /\ url \in Urls
    /\ filterDraft \in Filters
    /\ table \in [of : {"nothing", "another", "this"}, total : 0..MaxRows, rows : 0..MaxRows,
                  asked : BOOLEAN, error : BOOLEAN]
    /\ savedFilters \in Seq(Entries) /\ Len(savedFilters) <= MaxSaved

Init ==
    /\ Open
    /\ \E size \in PageSizes :
          url = [page |-> 0, size |-> size, sort |-> "none", filter |-> NoFilter]
    /\ filterDraft = url.filter
    /\ table = [of |-> "nothing", total |-> 0, rows |-> 0, asked |-> TRUE, error |-> FALSE]
    /\ savedFilters = <<>>

-----------------------------------------------------------------------------
(* What the table shows.                                                    *)

\* Rows of a page beyond the last one.
RowsOnAnyPage(u, total) ==
    LET before == u.page * u.size
    IN  IF total - before < u.size THEN total - before ELSE u.size

\* The rows of page u.page, of total.
RowsOn(u, total) ==
    LET before == u.page * u.size
    IN  IF total <= before THEN 0 ELSE IF total - before < u.size THEN total - before ELSE u.size

pageCount ==
    LET full == (table.total + url.size - 1) \div url.size
    IN  IF full = 0 THEN 1 ELSE full

BodyView == IF table.error THEN "error"
            ELSE IF table.of = "nothing" THEN "loading"
            ELSE IF table.rows = 0 THEN "empty"
            ELSE "rows"

\* No way back where there seems to be one page only.
previousOfMany == url.page > 0 /\ pageCount > 1

previousEnabled == url.page > 0
nextEnabled == url.page + 1 < pageCount

\* The CSV is of the rows shown, of whichever URL.
exportEnabled == table.rows > 0

-----------------------------------------------------------------------------
(* The URL.                                                                 *)

\* pushUrl: a query the cache has no answer for is asked, and shows what there
\* was; one it has is shown, and asked again if it is old.  The draft follows
\* the filter of the URL when that changes.
pushUrl(u) ==
    /\ url' = u
    /\ IF u = url THEN UNCHANGED table
       ELSE \/ table' = [table EXCEPT !.of = IF @ = "nothing" THEN @ ELSE "another",
                                      !.asked = TRUE, !.error = FALSE]
            \/ \E total \in 0..MaxRows, old \in BOOLEAN :
                  table' = [of |-> "this", total |-> total, rows |-> RowsOn(u, total),
                            asked |-> old, error |-> FALSE]

FollowUrl == filterDraft' = IF url'.filter = url.filter THEN filterDraft ELSE url'.filter

EditDraft ==
    /\ filterDraft' \in Filters \ {filterDraft}
    /\ UNCHANGED <<url, table, savedFilters>>

\* "Aplicar", or Enter in a text field.
applyFilters ==
    /\ pushUrl([url EXCEPT !.page = 0, !.filter = filterDraft])
    /\ UNCHANGED <<filterDraft, savedFilters>>

clearFilters ==
    /\ pushUrl([url EXCEPT !.page = 0, !.filter = NoFilter])
    /\ filterDraft' = NoFilter
    /\ UNCHANGED savedFilters

onPageChange ==
    /\ \/ previousEnabled /\ pushUrl([url EXCEPT !.page = @ - 1])
       \/ nextEnabled /\ pushUrl([url EXCEPT !.page = @ + 1])
    /\ UNCHANGED <<filterDraft, savedFilters>>

onPageSizeChange ==
    /\ \E size \in PageSizes : pushUrl([url EXCEPT !.page = 0, !.size = size])
    /\ UNCHANGED <<filterDraft, savedFilters>>

\* Ascending, descending, none.
onToggleSort ==
    /\ pushUrl([url EXCEPT !.page = 0,
                !.sort = CASE @ = "none" -> "asc" [] @ = "asc" -> "desc" [] OTHER -> "none"])
    /\ UNCHANGED <<filterDraft, savedFilters>>

\* "Voltar" of the browser, or a link: any URL parseState reads.
Navigate ==
    /\ \E u \in Urls : pushUrl(u)
    /\ FollowUrl
    /\ UNCHANGED savedFilters

-----------------------------------------------------------------------------
(* The query.                                                               *)

QueryArrives ==
    /\ table.asked
    /\ \E total \in 0..MaxRows :
          table' = [of |-> "this", total |-> total, rows |-> RowsOn(url, total),
                    asked |-> FALSE, error |-> FALSE]
    /\ UNCHANGED <<url, filterDraft, savedFilters>>

\* An error drops the rows of another URL and keeps those of this one, hidden.
QueryFails ==
    /\ table.asked
    /\ table' = IF table.of = "this" THEN [table EXCEPT !.asked = FALSE, !.error = TRUE]
                ELSE [of |-> "nothing", total |-> 0, rows |-> 0, asked |-> FALSE, error |-> TRUE]
    /\ UNCHANGED <<url, filterDraft, savedFilters>>

\* "Tentar novamente"; the window is mounted anew.  A query with rows shows its
\* error until it is answered; one without shows that it is loading.
Refetch ==
    /\ ~table.asked
    /\ table' = [table EXCEPT !.asked = TRUE, !.error = @ /\ table.of = "this"]
    /\ UNCHANGED <<url, filterDraft, savedFilters>>

-----------------------------------------------------------------------------
(* Saved filters.                                                           *)

Without(i) == SubSeq(savedFilters, 1, i - 1) \o SubSeq(savedFilters, i + 1, Len(savedFilters))

\* saveFilter: what the URL holds, not the draft; a name in use is taken over.
onSaveCurrent ==
    /\ \E keep \in {savedFilters} \cup {Without(i) : i \in DOMAIN savedFilters} :
          /\ Len(keep) < MaxSaved
          /\ savedFilters' = <<[filter |-> url.filter, sort |-> url.sort]>> \o keep
    /\ UNCHANGED <<url, filterDraft, table>>

onApplySaved(i) ==
    /\ i \in DOMAIN savedFilters
    /\ pushUrl([url EXCEPT !.page = 0, !.sort = savedFilters[i].sort, !.filter = savedFilters[i].filter])
    /\ filterDraft' = savedFilters[i].filter
    /\ UNCHANGED savedFilters

onDeleteSaved(i) ==
    /\ i \in DOMAIN savedFilters
    /\ savedFilters' = Without(i)
    /\ UNCHANGED <<url, filterDraft, table>>

-----------------------------------------------------------------------------
Next == Open /\ UNCHANGED route /\
    \/ EditDraft \/ applyFilters \/ clearFilters \/ onPageChange \/ onPageSizeChange
    \/ onToggleSort \/ Navigate \/ QueryArrives \/ QueryFails \/ Refetch \/ onSaveCurrent
    \/ \E i \in 1..MaxSaved : onApplySaved(i) \/ onDeleteSaved(i)

Spec == Init /\ [][Next]_vars

-----------------------------------------------------------------------------
(* Properties.                                                              *)

\* Wherever rows go while a page is shown, a page with nothing on it and rows
\* elsewhere has a way back, whatever the cache showed meanwhile.
NobodyIsStranded == Open =>
    (BodyView = "empty" /\ table.of = "this" /\ table.total > 0 => previousEnabled)
=============================================================================
