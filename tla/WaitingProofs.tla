----------------------------- MODULE WaitingProofs -----------------------------
(***************************************************************************)
(* Proofs about Waiting: what the pages that poll or load again hold, for  *)
(* any number of items, companies, exports and renewed tokens, whatever    *)
(* requests are lost.  Of the liveness that TLC checks, the part that is   *)
(* safety is proved here: nothing says that it waits with nothing on its   *)
(* way, and what ends a poll is the truth.                                 *)
(***************************************************************************)
EXTENDS Waiting, FiniteSetTheorems, TLAPS

-----------------------------------------------------------------------------
(* A step is, for each page, a step of the page or leaves it alone.         *)

LEMMA RouteStays == [WaitingNext]_allVars => UNCHANGED route
BY DEF WaitingNext, allVars, Exec!Next, Form!Next, Files!Next

LEMMA PageSteps ==
    ASSUME [WaitingNext]_allVars
    PROVE  /\ Exec!Next \/ UNCHANGED execVars
           /\ Form!Next \/ UNCHANGED formVars
           /\ Files!Next \/ UNCHANGED filesVars
BY DEF WaitingNext, allVars

-----------------------------------------------------------------------------
(* The selection (ExecutionPage).                                           *)
(*                                                                          *)
(* The invariant.  A selected item is one of the rows on the screen when it *)
(* is toggled, so that the answers the screen is made from must not tell of *)
(* more items than the database holds.                                      *)

Known(r) == r.leg = "answered" => r.n \in 0..stored

ExecInv ==
    /\ stored \in Nat
    /\ items = [data |-> items.data, due |-> items.due, req |-> items.req]
    /\ items.data = Exec!NoData \/ items.data \in 0..stored
    /\ Known(items.req)
    /\ selected \subseteq Exec!Matching(filter, stored)

SelectionInv == Exec!Open => ExecInv

\* Items are only added: those of a filter stay among them.
LEMMA MatchingGrows ==
    ASSUME NEW f, NEW m \in Nat, NEW n \in Nat, m <= n
    PROVE  Exec!Matching(f, m) \subseteq Exec!Matching(f, n)
BY SMT DEF Exec!Matching

\* The rows of the table are items of the filter shown.
LEMMA RowsAreOfFilter ==
    ASSUME ExecInv
    PROVE  Exec!itemRows \subseteq Exec!Matching(filter, stored)
<1>1. CASE items.data = Exec!NoData
  BY <1>1 DEF Exec!itemRows
<1>2. CASE items.data # Exec!NoData
  <2>1. items.data \in 0..stored
    BY <1>2 DEF ExecInv
  <2>2. Exec!Matching(filter, items.data) \subseteq Exec!Matching(filter, stored)
    BY <2>1, MatchingGrows DEF ExecInv
  <2>3. Exec!itemRows \subseteq Exec!Matching(filter, items.data)
    BY <1>2 DEF Exec!itemRows, Exec!OnPage
  <2> QED
    BY <2>2, <2>3
<1> QED
  BY <1>1, <1>2

-----------------------------------------------------------------------------
(* The steps of the page.                                                   *)

\* The worker stores an item, or ends the row.
LEMMA ServerKeeps ==
    ASSUME ExecInv, Exec!StoreItem \/ Exec!FinishRow
    PROVE  ExecInv'
<1>1. stored' \in Nat /\ stored <= stored' /\ UNCHANGED <<items, filter, selected>>
  BY DEF ExecInv, Exec!StoreItem, Exec!FinishRow, Exec!server, Exec!shownState
<1>2. Exec!Matching(filter, stored) \subseteq Exec!Matching(filter, stored')
  BY <1>1, MatchingGrows DEF ExecInv
<1>3. selected' \subseteq Exec!Matching(filter, stored)'
  <2>1. Exec!Matching(filter, stored)' = Exec!Matching(filter, stored')
    BY <1>1 DEF Exec!Matching
  <2> QED
    BY <1>1, <1>2, <2>1 DEF ExecInv
<1>4. (items.data = Exec!NoData \/ items.data \in 0..stored)'
  BY <1>1 DEF ExecInv, Exec!NoData
<1>5. Known(items.req)'
  BY <1>1 DEF ExecInv, Known
<1> QED
  BY <1>1, <1>3, <1>4, <1>5 DEF ExecInv

\* The row's query changes nothing of the items but when they are due.
LEMMA DetailKeeps ==
    ASSUME ExecInv,
           \/ Exec!PollDetail \/ Exec!AnswerDetail
           \/ Exec!LoseDetail \/ Exec!DetailArrives
    PROVE  ExecInv'
<1>1. UNCHANGED <<stored, filter, selected>>
  BY DEF Exec!PollDetail, Exec!AnswerDetail, Exec!LoseDetail, Exec!DetailArrives,
         Exec!server, Exec!shownState
<1>2. \/ UNCHANGED items
      \/ \E due : items' = [items EXCEPT !.due = due]
  BY DEF Exec!PollDetail, Exec!AnswerDetail, Exec!LoseDetail, Exec!DetailArrives
<1>3. /\ items' = [data |-> items'.data, due |-> items'.due, req |-> items'.req]
      /\ items'.data = items.data /\ items'.req = items.req
  BY <1>2 DEF ExecInv
<1> QED
  BY <1>1, <1>3 DEF ExecInv, Known, Exec!NoData, Exec!Matching

\* A request of the items brings what was stored when it was answered.
LEMMA ItemsKeep ==
    ASSUME ExecInv,
           \/ Exec!PollItems \/ Exec!AnswerItems
           \/ Exec!LoseItems \/ Exec!ItemsArrive
    PROVE  ExecInv'
<1>1. UNCHANGED <<stored, filter, selected>>
  BY DEF Exec!PollItems, Exec!AnswerItems, Exec!LoseItems, Exec!ItemsArrive,
         Exec!server, Exec!shownState
<1>2. SUFFICES
        /\ items' = [data |-> items'.data, due |-> items'.due, req |-> items'.req]
        /\ items'.data = Exec!NoData \/ items'.data \in 0..stored
        /\ Known(items'.req)
  BY <1>1 DEF ExecInv, Known, Exec!NoData, Exec!Matching
<1>3. CASE Exec!PollItems
  BY <1>3 DEF ExecInv, Known, Exec!PollItems, Exec!Ask
<1>4. CASE Exec!AnswerItems
  BY <1>4 DEF ExecInv, Known, Exec!AnswerItems, Exec!Answered
<1>5. CASE Exec!LoseItems
  BY <1>5 DEF ExecInv, Known, Exec!LoseItems, Exec!Failed, Exec!Ask
<1>6. CASE Exec!ItemsArrive
  BY <1>6 DEF ExecInv, Known, Exec!ItemsArrive, Exec!Idle
<1> QED
  BY <1>3, <1>4, <1>5, <1>6

\* What the cache answers for another page is an answer the server gave.
LEMMA ShowKeeps ==
    ASSUME ExecInv, NEW f, NEW pg, Exec!Show(f, pg), UNCHANGED stored
    PROVE  /\ items' = [data |-> items'.data, due |-> items'.due, req |-> items'.req]
           /\ items'.data = Exec!NoData \/ items'.data \in 0..stored
           /\ Known(items'.req)
           /\ filter' = f
BY DEF ExecInv, Exec!Show, Known, Exec!Idle

\* The user: another filter drops the selection, a page keeps filter and
\* selection, a row or all rows of the table are toggled.
LEMMA UserKeeps ==
    ASSUME ExecInv, Exec!User
    PROVE  ExecInv'
<1>1. CASE \E f : Exec!SetFilter(f)
  <2>1. PICK f : Exec!SetFilter(f)
    BY <1>1
  <2>2. Exec!Show(f, 1) /\ UNCHANGED stored /\ selected' = {}
    BY <2>1 DEF Exec!SetFilter, Exec!server
  <2> QED
    BY <2>2, ShowKeeps DEF ExecInv, Known, Exec!NoData
<1>2. CASE \E pg : Exec!TurnPage(pg)
  <2>1. PICK pg : Exec!TurnPage(pg)
    BY <1>2
  <2>2. Exec!Show(filter, pg) /\ UNCHANGED <<stored, selected>>
    BY <2>1 DEF Exec!TurnPage, Exec!server
  <2> QED
    BY <2>2, ShowKeeps DEF ExecInv, Known, Exec!NoData, Exec!Matching
<1>3. CASE (\E i : Exec!toggleItem(i)) \/ Exec!toggleAllVisible
  <2>1. UNCHANGED <<stored, items, filter>>
    BY <1>3 DEF Exec!toggleItem, Exec!toggleAllVisible, Exec!server
  <2>2. selected' \subseteq selected \cup Exec!itemRows
    BY <1>3 DEF Exec!toggleItem, Exec!toggleAllVisible
  <2>3. selected' \subseteq Exec!Matching(filter, stored)
    BY <2>2, RowsAreOfFilter DEF ExecInv
  <2> QED
    BY <2>1, <2>3 DEF ExecInv, Known, Exec!NoData, Exec!Matching
<1> QED
  BY <1>1, <1>2, <1>3 DEF Exec!User

LEMMA InitSelection == WaitingInit => SelectionInv
<1> SUFFICES ASSUME WaitingInit, Exec!Open PROVE ExecInv
  BY DEF SelectionInv
<1>1. Exec!Init
  BY DEF WaitingInit
<1> QED
  BY <1>1 DEF Exec!Init, ExecInv, Known, Exec!Idle, Exec!NoData, Exec!Matching

LEMMA StepSelection == SelectionInv /\ [WaitingNext]_allVars => SelectionInv'
<1> SUFFICES ASSUME SelectionInv, [WaitingNext]_allVars, Exec!Open'
             PROVE  ExecInv'
  BY DEF SelectionInv
<1>1. UNCHANGED route
  BY RouteStays
<1>2. ExecInv
  BY <1>1 DEF SelectionInv, Exec!Open
<1>3. CASE Exec!Next
  BY <1>2, <1>3, ServerKeeps, DetailKeeps, ItemsKeep, UserKeeps DEF Exec!Next
<1>4. CASE UNCHANGED execVars
  BY <1>2, <1>4 DEF execVars, ExecInv, Known, Exec!NoData, Exec!Matching
<1> QED
  BY <1>3, <1>4, PageSteps

\* The property of MCWaiting: what "Reprocessar selecionados" counts on the page
\* of an execution are items of the filter shown.
THEOREM WaitingSelectionStays == WaitingSpec => []WaitingSelectionIsOfFilter
<1>1. SelectionInv => WaitingSelectionIsOfFilter
  BY DEF SelectionInv, ExecInv, WaitingSelectionIsOfFilter, Exec!SelectionIsOfFilter
<1> QED
  BY <1>1, InitSelection, StepSelection, PTL DEF WaitingSpec

-----------------------------------------------------------------------------
(* The types of the page of an execution, and the status that ends its poll. *)

Statuses == Exec!FinalStatuses \cup {"queued", "running"}
Legs == {"idle", "asked", "again", "answered", "failed"}
Total == Len(ItemStatus)
RequestType == [leg : Legs, n : 0..Total, st : Statuses]

ExecTypes ==
    /\ rowStatus \in Statuses
    /\ stored \in 0..Total
    /\ detail \in [data : 0..(Total + 1), st : Statuses, error : BOOLEAN, req : RequestType]
    /\ items \in [data : 0..(Total + 1), due : BOOLEAN, req : RequestType]
    /\ filter \in Exec!Filters
    /\ itemsPage \in 1..Exec!TotalPages("all", Exec!Cardinality(Exec!Items))

\* An answer of the row, and what it shows, that are final are the row's status:
\* no step of the worker leaves a final status.
StatusOK ==
    /\ detail.req.leg = "answered" /\ Exec!isTerminalStatus(detail.req.st)
        => detail.req.st = rowStatus
    /\ Exec!ShownFinal => detail.st = rowStatus

PageOK == ExecTypes /\ StatusOK
PageInv == Exec!Open => PageOK

LEMMA SameCardinality == \A S : Exec!Cardinality(S) = Cardinality(S)
BY DEF Exec!Cardinality, Cardinality

LEMMA ItemsSize ==
    /\ Total \in Nat /\ Exec!Items = 1..Total
    /\ Exec!Cardinality(Exec!Items) = Total /\ Exec!NoData = Total + 1
<1>1. Total \in Nat /\ Exec!Items = 1..Total
  BY ItemsAssumption DEF Total, Exec!Items
<1>2. Cardinality(1..Total) = Total
  BY <1>1, FS_Interval
<1> QED
  BY <1>1, <1>2, SameCardinality DEF Exec!NoData

\* There is always a first page.
LEMMA FirstPage == 1 \in 1..Exec!TotalPages("all", Exec!Cardinality(Exec!Items))
<1> DEFINE m == Exec!Cardinality(Exec!Matching("all", Total))
           full == (m + PageSize - 1) \div PageSize
<1>1. Exec!Matching("all", Total) \subseteq 1..Total
  BY DEF Exec!Matching
<1>2. m \in Nat
  <2>1. IsFiniteSet(1..Total)
    BY ItemsSize, FS_Interval
  <2>2. Cardinality(Exec!Matching("all", Total)) \in Nat
    BY <1>1, <2>1, FS_Subset, FS_CardinalityType
  <2> QED
    BY <2>2, SameCardinality
<1>3. full \in Nat
  <2>1. PageSize \in Nat /\ PageSize > 0
    BY ItemsAssumption
  <2> HIDE DEF m
  <2> QED
    BY <1>2, <2>1, Z3
<1>4. Exec!TotalPages("all", Exec!Cardinality(Exec!Items)) = IF full = 0 THEN 1 ELSE full
  BY ItemsSize DEF Exec!TotalPages
<1> QED
  <2> HIDE DEF full
  <2> QED
    BY <1>3, <1>4

LEMMA RequestTypes ==
    /\ Exec!Idle \in RequestType
    /\ \A leg \in Legs : Exec!Ask(leg) \in RequestType
BY ItemsSize DEF RequestType, Legs, Statuses, Exec!Idle, Exec!Ask

LEMMA ServerKeepsPage ==
    ASSUME PageOK, Exec!StoreItem \/ Exec!FinishRow
    PROVE  PageOK'
<1>1. /\ rowStatus' \in Statuses /\ stored' \in 0..Total
      /\ ~Exec!isTerminalStatus(rowStatus)
  BY ItemsSize DEF PageOK, ExecTypes, Statuses, Exec!StoreItem, Exec!FinishRow,
                   Exec!FinalStatuses, Exec!isTerminalStatus
<1>2. UNCHANGED <<detail, items, filter, itemsPage>>
  BY DEF Exec!StoreItem, Exec!FinishRow, Exec!shownState
<1>3. ExecTypes'
  BY <1>1, <1>2 DEF PageOK, ExecTypes
<1>4. StatusOK'
  BY <1>1, <1>2 DEF PageOK, StatusOK, Exec!ShownFinal, Exec!Loaded, Exec!isTerminalStatus,
                    Exec!NoData
<1> QED
  BY <1>3, <1>4 DEF PageOK

\* The query of the row.
LEMMA DetailKeepsPage ==
    ASSUME PageOK,
           \/ Exec!PollDetail \/ Exec!AnswerDetail
           \/ Exec!LoseDetail \/ Exec!DetailArrives
    PROVE  PageOK'
<1> DEFINE DetailOK ==
        /\ detail' \in [data : 0..(Total + 1), st : Statuses, error : BOOLEAN, req : RequestType]
        /\ detail'.req.leg = "answered" /\ Exec!isTerminalStatus(detail'.req.st)
            => detail'.req.st = rowStatus
        /\ detail'.data # Exec!NoData /\ Exec!isTerminalStatus(detail'.st)
            => detail'.st = rowStatus
<1> USE ItemsSize DEF PageOK, ExecTypes, StatusOK, RequestType, Exec!ShownFinal, Exec!Loaded
<1>1. UNCHANGED <<rowStatus, stored, filter, itemsPage>>
  BY DEF Exec!PollDetail, Exec!AnswerDetail, Exec!LoseDetail, Exec!DetailArrives,
         Exec!server, Exec!shownState
<1>2. items' \in [data : 0..(Total + 1), due : BOOLEAN, req : RequestType]
  <2>1. UNCHANGED items \/ \E due \in BOOLEAN : items' = [items EXCEPT !.due = due]
    <3>1. CASE Exec!DetailArrives
      <4>1. (items.due \/ (~Exec!Loaded /\ detail'.data # Exec!NoData)) \in BOOLEAN
        OBVIOUS
      <4> QED
        BY <3>1, <4>1 DEF Exec!DetailArrives
    <3> QED
      BY <3>1 DEF Exec!PollDetail, Exec!AnswerDetail, Exec!LoseDetail
  <2> QED
    BY <2>1
<1>3. CASE Exec!PollDetail
  <2>1. DetailOK
    BY <1>3 DEF Exec!PollDetail, Exec!Ask, Legs, Statuses
  <2> QED
    BY <1>1, <1>2, <2>1 DEF Exec!isTerminalStatus, Exec!NoData
<1>4. CASE Exec!AnswerDetail
  <2>1. DetailOK
    BY <1>4 DEF Exec!AnswerDetail, Exec!Answered, Legs, Statuses
  <2> QED
    BY <1>1, <1>2, <2>1 DEF Exec!isTerminalStatus, Exec!NoData
<1>5. CASE Exec!LoseDetail
  <2>1. DetailOK
    BY <1>5 DEF Exec!LoseDetail, Exec!Failed, Exec!Ask, Legs, Statuses
  <2> QED
    BY <1>1, <1>2, <2>1 DEF Exec!isTerminalStatus, Exec!NoData
<1>6. CASE Exec!DetailArrives
  <2>1. DetailOK
    <3>1. Exec!Idle \in RequestType /\ Exec!Idle.leg = "idle"
      BY RequestTypes DEF Exec!Idle
    <3>2. CASE detail.req.leg = "failed"
      <4>1. detail' = [detail EXCEPT !.error = TRUE, !.req = Exec!Idle]
        BY <1>6, <3>2 DEF Exec!DetailArrives
      <4> QED
        BY <3>1, <4>1
    <3>3. CASE detail.req.leg = "answered"
      <4>1. detail' = [data |-> detail.req.n, st |-> detail.req.st, error |-> FALSE,
                       req |-> Exec!Idle]
        BY <1>6, <3>3 DEF Exec!DetailArrives
      <4>2. detail.req.n \in 0..(Total + 1) /\ detail.req.st \in Statuses
        OBVIOUS
      <4> QED
        BY <3>1, <3>3, <4>1, <4>2
    <3> QED
      BY <1>6, <3>2, <3>3 DEF Exec!DetailArrives
  <2> QED
    BY <1>1, <1>2, <2>1 DEF Exec!isTerminalStatus, Exec!NoData
<1> QED
  BY <1>3, <1>4, <1>5, <1>6

\* The query of the items.
LEMMA ItemsKeepPage ==
    ASSUME PageOK,
           \/ Exec!PollItems \/ Exec!AnswerItems
           \/ Exec!LoseItems \/ Exec!ItemsArrive
    PROVE  PageOK'
<1>1. UNCHANGED <<rowStatus, stored, detail, filter, itemsPage>>
  BY DEF Exec!PollItems, Exec!AnswerItems, Exec!LoseItems, Exec!ItemsArrive,
         Exec!server, Exec!shownState
<1>2. StatusOK'
  BY <1>1 DEF PageOK, StatusOK, Exec!ShownFinal, Exec!Loaded, Exec!isTerminalStatus, Exec!NoData
<1>3. items' \in [data : 0..(Total + 1), due : BOOLEAN, req : RequestType]
  <2> USE ItemsSize, RequestTypes DEF PageOK, ExecTypes
  <2>1. CASE Exec!PollItems
    BY <2>1 DEF Exec!PollItems, Legs
  <2>2. CASE Exec!AnswerItems
    BY <2>2 DEF Exec!AnswerItems, Exec!Answered, RequestType, Legs, Statuses
  <2>3. CASE Exec!LoseItems
    BY <2>3 DEF Exec!LoseItems, Exec!Failed, Legs
  <2>4. CASE Exec!ItemsArrive
    <3>1. items.req.n \in 0..(Total + 1)
      BY DEF RequestType
    <3> QED
      BY <2>4, <3>1 DEF Exec!ItemsArrive
  <2> QED
    BY <2>1, <2>2, <2>3, <2>4
<1> QED
  BY <1>1, <1>2, <1>3 DEF PageOK, ExecTypes

LEMMA UserKeepsPage ==
    ASSUME PageOK, Exec!User
    PROVE  PageOK'
<1>1. UNCHANGED <<rowStatus, stored, detail>>
  BY DEF Exec!User, Exec!SetFilter, Exec!TurnPage, Exec!toggleItem, Exec!toggleAllVisible,
         Exec!server
<1>2. StatusOK'
  BY <1>1 DEF PageOK, StatusOK, Exec!ShownFinal, Exec!Loaded, Exec!isTerminalStatus, Exec!NoData
<1>3. CASE \E f \in Exec!Filters, pg \in 1..Exec!TotalPages("all", Exec!Cardinality(Exec!Items)) :
              Exec!Show(f, pg)
  <2>1. items' \in [data : 0..(Total + 1), due : BOOLEAN, req : RequestType]
    <3>1. Exec!NoData \in 0..(Total + 1) /\ 0..stored \subseteq 0..(Total + 1)
      BY ItemsSize DEF PageOK, ExecTypes
    <3>2. \E n \in 0..(Total + 1), old \in BOOLEAN :
              items' = [data |-> n, due |-> old, req |-> Exec!Idle]
      BY <1>3, <3>1 DEF Exec!Show
    <3> QED
      BY <3>2, RequestTypes
  <2>2. filter' \in Exec!Filters
        /\ itemsPage' \in 1..Exec!TotalPages("all", Exec!Cardinality(Exec!Items))
    BY <1>3 DEF Exec!Show
  <2> QED
    BY <1>1, <1>2, <2>1, <2>2 DEF PageOK, ExecTypes
<1>4. CASE UNCHANGED <<items, filter, itemsPage>>
  BY <1>1, <1>2, <1>4 DEF PageOK, ExecTypes
<1>5. CASE \E f \in Exec!Filters : Exec!SetFilter(f)
  BY <1>3, <1>5, FirstPage DEF Exec!SetFilter
<1>6. CASE \E pg \in 1..Exec!TotalPages("all", Exec!Cardinality(Exec!Items)) : Exec!TurnPage(pg)
  BY <1>3, <1>6 DEF Exec!TurnPage, PageOK, ExecTypes
<1>7. CASE (\E i : Exec!toggleItem(i)) \/ Exec!toggleAllVisible
  BY <1>4, <1>7 DEF Exec!toggleItem, Exec!toggleAllVisible
<1> QED
  BY <1>5, <1>6, <1>7 DEF Exec!User

LEMMA InitPage == WaitingInit => PageInv
<1> SUFFICES ASSUME WaitingInit, Exec!Open PROVE PageOK
  BY DEF PageInv
<1>1. Exec!Init
  BY DEF WaitingInit
<1>2. ExecTypes
  BY <1>1, ItemsSize, FirstPage
     DEF Exec!Init, ExecTypes, Statuses, RequestType, Legs, Exec!Ask, Exec!Idle, Exec!Filters
<1>3. StatusOK
  BY <1>1 DEF Exec!Init, StatusOK, Exec!Ask, Exec!ShownFinal, Exec!Loaded
<1> QED
  BY <1>2, <1>3 DEF PageOK

LEMMA StepPage == PageInv /\ [WaitingNext]_allVars => PageInv'
<1> SUFFICES ASSUME PageInv, [WaitingNext]_allVars, Exec!Open'
             PROVE  PageOK'
  BY DEF PageInv
<1>1. PageOK
  BY RouteStays DEF PageInv, Exec!Open
<1>2. CASE Exec!Next
  BY <1>1, <1>2, ServerKeepsPage, DetailKeepsPage, ItemsKeepPage, UserKeepsPage DEF Exec!Next
<1>3. CASE UNCHANGED execVars
  BY <1>1, <1>3 DEF execVars, PageOK, ExecTypes, StatusOK, Exec!ShownFinal, Exec!Loaded,
                    Exec!isTerminalStatus, Exec!NoData
<1> QED
  BY <1>2, <1>3, PageSteps

\* The page of an execution stops polling for a status the row really ended with:
\* an answer given before the end, however late, does not show a final status.
THEOREM WaitingShownFinalIsTrue == WaitingSpec => []Exec!ShownFinalIsTrue
<1>1. PageInv => Exec!ShownFinalIsTrue
  BY DEF PageInv, PageOK, StatusOK, Exec!ShownFinalIsTrue
<1> QED
  BY <1>1, InitPage, StepPage, PTL DEF WaitingSpec

-----------------------------------------------------------------------------
(* The form of a new execution (ExecutionForm).                             *)

LoadSlots == 1..(FormRenewals + 1)
CompaniesType == [view : {"loading", "ready", "error"}, items : SUBSET FormCompanies]
ErrorType == [code : Form!Codes \cup {"none"}, blocked : SUBSET FormCompanies]
SubmissionType == [at : {"none", "sent", "answered"}, ids : SUBSET FormCompanies,
                   error : ErrorType, lost : SUBSET FormCompanies]

FormTypes ==
    /\ active \subseteq FormCompanies /\ valid \subseteq FormCompanies
    /\ opened \subseteq FormCompanies
    /\ companies \in CompaniesType
    /\ loads \in [LoadSlots -> Form!Loads \cup {Form!NotLoading}]
    /\ selectedIds \subseteq FormCompanies
    /\ submission \in SubmissionType
    /\ submitError \in ErrorType
    /\ pushed \in {"stay", "execution", "list"}
    /\ renewals \in 0..FormRenewals /\ changes \in 0..MaxChanges

\* The form says that it loads only while a load is on its way.
LoadingOK ==
    companies.view = "loading" => \E i \in LoadSlots : loads[i] # Form!NotLoading

FormOK == FormTypes /\ LoadingOK
FormInv == Form!Open => FormOK

LEMMA LoadValues ==
    /\ Form!Asked \in Form!Loads /\ Form!Asked # Form!NotLoading
    /\ \A x \in Form!Loads \cup {Form!NotLoading} : x.answered => x \in Form!Loads
<1>1. Form!Asked \in Form!Loads
  BY DEF Form!Asked, Form!Loads
<1>2. Form!Asked # Form!NotLoading
  <2>1. "failed" \in DOMAIN Form!Asked
    BY DEF Form!Asked
  <2>2. "failed" \notin DOMAIN Form!NotLoading
    BY DEF Form!NotLoading
  <2> QED
    BY <2>1, <2>2
<1>3. ~Form!NotLoading.answered
  BY DEF Form!NotLoading
<1> QED
  BY <1>1, <1>2, <1>3

LEMMA ErrorTypes ==
    /\ Form!NoError \in ErrorType /\ Form!NetworkError \in ErrorType
    /\ \A st, error : \A ids \in SUBSET FormCompanies :
          Form!mapHttpError(st, error, ids) \in ErrorType
<1>1. Form!NoError \in ErrorType /\ Form!NetworkError \in ErrorType
  BY DEF ErrorType, Form!NoError, Form!NetworkError, Form!Codes
<1>2. ASSUME NEW st, NEW error, NEW ids \in SUBSET FormCompanies
      PROVE  Form!mapHttpError(st, error, ids) \in ErrorType
  BY DEF ErrorType, Form!mapHttpError, Form!Codes
<1> QED
  BY <1>1, <1>2

LEMMA InitForm == WaitingInit => FormInv
<1> SUFFICES ASSUME WaitingInit, Form!Open PROVE FormOK
  BY DEF FormInv
<1>1. Form!Init
  BY DEF WaitingInit
<1> USE <1>1 DEF Form!Init
<1>2. companies \in CompaniesType /\ companies.view = "loading"
  BY DEF CompaniesType
<1>3. /\ loads \in [LoadSlots -> Form!Loads \cup {Form!NotLoading}]
      /\ 1 \in LoadSlots /\ loads[1] # Form!NotLoading
  BY LoadValues, BoundsAssumption DEF LoadSlots
<1>4. submission \in SubmissionType /\ submitError \in ErrorType
  BY ErrorTypes DEF SubmissionType, Form!NoSubmission
<1>5. renewals \in 0..FormRenewals /\ changes \in 0..MaxChanges
  BY BoundsAssumption
<1> QED
  BY <1>2, <1>3, <1>4, <1>5 DEF FormOK, FormTypes, LoadingOK

\* A company is deleted, or its credential expires.
LEMMA CompanyChangesKeeps ==
    ASSUME FormOK, NEW c, Form!CompanyChanges(c)
    PROVE  FormOK'
<1> USE DEF FormOK, FormTypes, Form!CompanyChanges, Form!form
<1>1. UNCHANGED <<opened, companies, loads, selectedIds, submission, submitError, pushed, renewals>>
  OBVIOUS
<1>2. active' \subseteq FormCompanies /\ valid' \subseteq FormCompanies
  OBVIOUS
<1>3. changes' \in 0..MaxChanges
  BY BoundsAssumption
<1> QED
  BY <1>1, <1>2, <1>3 DEF LoadingOK

\* A load is started, answered, or arrives.
LEMMA LoadsKeep ==
    ASSUME FormOK,
           \/ Form!TokenRenewed \/ Form!Reload
           \/ \E i \in DOMAIN loads : Form!AnswerLoad(i) \/ Form!LoadArrives(i)
    PROVE  FormOK'
<1>1. UNCHANGED <<active, valid, opened, selectedIds, submission, submitError, pushed, changes>>
  BY DEF Form!TokenRenewed, Form!Reload, Form!AnswerLoad, Form!LoadArrives, Form!server, Form!form
<1>2. renewals' \in 0..FormRenewals
  BY BoundsAssumption DEF FormOK, FormTypes, Form!TokenRenewed, Form!Reload, Form!AnswerLoad,
                          Form!LoadArrives
<1>3. DOMAIN loads = LoadSlots
  BY DEF FormOK, FormTypes
<1>4. /\ companies' \in CompaniesType
      /\ loads' \in [LoadSlots -> Form!Loads \cup {Form!NotLoading}]
      /\ LoadingOK'
  <2>1. ASSUME NEW i \in LoadSlots, Form!StartLoad(i)
        PROVE  /\ companies' \in CompaniesType
               /\ loads' \in [LoadSlots -> Form!Loads \cup {Form!NotLoading}]
               /\ LoadingOK'
    <3>1. companies' \in CompaniesType
      BY <2>1 DEF Form!StartLoad, CompaniesType
    <3>2. /\ loads' \in [LoadSlots -> Form!Loads \cup {Form!NotLoading}]
          /\ loads'[i] # Form!NotLoading
      BY <2>1, LoadValues DEF Form!StartLoad, FormOK, FormTypes
    <3> QED
      BY <3>1, <3>2 DEF LoadingOK
  <2>2. ASSUME NEW i \in LoadSlots, Form!AnswerLoad(i)
        PROVE  /\ companies' \in CompaniesType
               /\ loads' \in [LoadSlots -> Form!Loads \cup {Form!NotLoading}]
               /\ LoadingOK'
    <3>1. UNCHANGED companies /\ active \subseteq FormCompanies
      BY <2>2 DEF Form!AnswerLoad, FormOK, FormTypes
    <3>2. PICK answer \in Form!Loads : answer.answered /\ loads' = [loads EXCEPT ![i] = answer]
      BY <2>2, <3>1 DEF Form!AnswerLoad, Form!Loads
    <3>3. answer # Form!NotLoading
      BY <3>2 DEF Form!NotLoading
    <3>4. loads' \in [LoadSlots -> Form!Loads \cup {Form!NotLoading}]
      BY <3>2 DEF FormOK, FormTypes
    <3>5. \A j \in LoadSlots : loads[j] # Form!NotLoading => loads'[j] # Form!NotLoading
      BY <3>2, <3>3 DEF FormOK, FormTypes
    <3> QED
      BY <3>1, <3>4, <3>5 DEF FormOK, FormTypes, LoadingOK
  <2>3. ASSUME NEW i \in LoadSlots, Form!LoadArrives(i)
        PROVE  /\ companies' \in CompaniesType
               /\ loads' \in [LoadSlots -> Form!Loads \cup {Form!NotLoading}]
               /\ LoadingOK'
    <3>1. loads[i] \in Form!Loads
      BY <2>3, LoadValues DEF Form!LoadArrives, FormOK, FormTypes
    <3>2. companies' \in CompaniesType /\ companies'.view # "loading"
      BY <2>3, <3>1 DEF Form!LoadArrives, Form!Loads, CompaniesType
    <3>3. loads' \in [LoadSlots -> Form!Loads \cup {Form!NotLoading}]
      BY <2>3 DEF Form!LoadArrives, FormOK, FormTypes
    <3> QED
      BY <3>2, <3>3 DEF LoadingOK
  <2> QED
    BY <1>3, <2>1, <2>2, <2>3 DEF Form!TokenRenewed, Form!Reload
<1> QED
  BY <1>1, <1>2, <1>4 DEF FormOK, FormTypes

\* The user picks companies and submits them.
LEMMA SelectKeeps ==
    ASSUME FormOK, NEW ids \in SUBSET FormCompanies, Form!Select(ids)
    PROVE  FormOK'
<1>1. UNCHANGED <<active, valid, opened, companies, loads, pushed, renewals, changes>>
  BY DEF Form!Select, Form!server
<1>2. selectedIds' \subseteq FormCompanies /\ submitError' \in ErrorType
  BY ErrorTypes DEF Form!Select
<1>3. submission' \in SubmissionType
  BY DEF FormOK, FormTypes, Form!Select, SubmissionType
<1> QED
  BY <1>1, <1>2, <1>3 DEF FormOK, FormTypes, LoadingOK

LEMMA FormUserKeeps ==
    ASSUME FormOK,
           \/ \E c \in FormCompanies : Form!toggleCompany(c)
           \/ Form!selectAll \/ Form!clearAll \/ Form!handleSubmit
    PROVE  FormOK'
<1>1. companies.items \subseteq FormCompanies /\ selectedIds \subseteq FormCompanies
  BY DEF FormOK, FormTypes, CompaniesType
<1>2. CASE \E c \in FormCompanies : Form!toggleCompany(c)
  <2>1. PICK c \in FormCompanies : Form!toggleCompany(c)
    BY <1>2
  <2>2. (IF c \in selectedIds THEN selectedIds \ {c} ELSE selectedIds \cup {c}) \subseteq FormCompanies
    BY <1>1
  <2> QED
    BY <2>1, <2>2, SelectKeeps DEF Form!toggleCompany
<1>3. CASE Form!selectAll \/ Form!clearAll
  BY <1>1, <1>3, SelectKeeps DEF Form!selectAll, Form!clearAll
<1>4. CASE Form!handleSubmit
  <2>1. UNCHANGED <<active, valid, opened, companies, loads, selectedIds, pushed, renewals, changes>>
    BY <1>4 DEF Form!handleSubmit, Form!server
  <2>2. submission' \in SubmissionType /\ submitError' \in ErrorType
    BY <1>1, <1>4, ErrorTypes DEF Form!handleSubmit, Form!NoSubmission, SubmissionType
  <2> QED
    BY <2>1, <2>2 DEF FormOK, FormTypes, LoadingOK
<1> QED
  BY <1>2, <1>3, <1>4

\* Every error a status maps to is one of the form's.
LEMMA MappedError ==
    ASSUME NEW st, NEW error, NEW ids \in SUBSET FormCompanies
    PROVE  Form!mapHttpError(st, error, ids) \in ErrorType
BY ErrorTypes

\* A reply has the type of an answer.
LEMMA ReplyType ==
    ASSUME FormOK, NEW error \in ErrorType, NEW lost \in SUBSET FormCompanies,
           Form!Reply(error, lost)
    PROVE  submission' \in SubmissionType
BY DEF FormOK, FormTypes, Form!Reply, SubmissionType

\* POST /executions and its answer.
LEMMA RequestKeeps ==
    ASSUME FormOK, Form!CreateExecutions \/ Form!RequestFails \/ Form!SubmissionEnds
    PROVE  FormOK'
<1>1. /\ submission.ids \subseteq FormCompanies /\ submission.lost \subseteq FormCompanies
      /\ submission.error \in ErrorType
  BY DEF FormOK, FormTypes, SubmissionType
<1>2. UNCHANGED <<active, valid, companies, loads, selectedIds, renewals, changes>>
  BY DEF Form!CreateExecutions, Form!RequestFails, Form!SubmissionEnds, Form!server
<1>3. CASE Form!CreateExecutions
  <2>1. UNCHANGED <<submitError, pushed>>
    BY <1>3 DEF Form!CreateExecutions
  <2>2. opened' \subseteq FormCompanies
    BY <1>1, <1>3 DEF Form!CreateExecutions, FormOK, FormTypes
  <2>3. \E error \in ErrorType, lost \in SUBSET FormCompanies : Form!Reply(error, lost)
    <3>1. \/ Form!Reply(Form!mapHttpError(422, "companies_not_found", submission.ids \ active), {})
          \/ Form!Reply(Form!mapHttpError(422, "credential_missing_or_expired",
                                          submission.ids \ valid), {})
          \/ Form!Reply(Form!mapHttpError(502, "", {}), {})
          \/ \E lost \in SUBSET (submission.ids \ opened) : Form!Reply(Form!NoError, lost)
      BY ONLY <1>3, Zenon DEF Form!CreateExecutions
    <3>2. /\ submission.ids \ active \in SUBSET FormCompanies
          /\ submission.ids \ valid \in SUBSET FormCompanies
          /\ {} \in SUBSET FormCompanies
          /\ SUBSET (submission.ids \ opened) \subseteq SUBSET FormCompanies
      BY <1>1
    <3>3. /\ Form!NoError \in ErrorType
          /\ Form!mapHttpError(422, "companies_not_found", submission.ids \ active) \in ErrorType
          /\ Form!mapHttpError(422, "credential_missing_or_expired", submission.ids \ valid)
                \in ErrorType
          /\ Form!mapHttpError(502, "", {}) \in ErrorType
      <4>1. Form!NoError \in ErrorType
        BY ErrorTypes
      <4>2. Form!mapHttpError(422, "companies_not_found", submission.ids \ active) \in ErrorType
        BY ONLY <3>2, MappedError
      <4>3. Form!mapHttpError(422, "credential_missing_or_expired", submission.ids \ valid) \in ErrorType
        BY ONLY <3>2, MappedError
      <4>4. Form!mapHttpError(502, "", {}) \in ErrorType
        BY DEF Form!mapHttpError, ErrorType, Form!Codes
      <4> QED
        BY ONLY <4>1, <4>2, <4>3, <4>4
    <3>5. CASE Form!Reply(Form!mapHttpError(422, "companies_not_found", submission.ids \ active), {})
      BY ONLY <3>2, <3>3, <3>5, Zenon
    <3>6. CASE Form!Reply(Form!mapHttpError(422, "credential_missing_or_expired",
                                            submission.ids \ valid), {})
      BY ONLY <3>2, <3>3, <3>6, Zenon
    <3>7. CASE Form!Reply(Form!mapHttpError(502, "", {}), {})
      BY ONLY <3>2, <3>3, <3>7, Zenon
    <3>8. CASE \E lost \in SUBSET (submission.ids \ opened) : Form!Reply(Form!NoError, lost)
      BY ONLY <3>2, <3>3, <3>8, Zenon
    <3> QED
      BY ONLY <3>1, <3>5, <3>6, <3>7, <3>8, Zenon
  <2>4. submission' \in SubmissionType
    BY <2>3, ReplyType
  <2> QED
    BY <1>2, <2>1, <2>2, <2>4 DEF FormOK, FormTypes, LoadingOK
<1>4. CASE Form!RequestFails
  <2>1. UNCHANGED <<opened, submitError, pushed>>
    BY <1>4 DEF Form!RequestFails, Form!server
  <2>2. \E error \in ErrorType : Form!Reply(error, {})
    <3>1. \/ Form!Reply(Form!NetworkError, {})
          \/ /\ submission.at = "sent"
             /\ \E st \in {401, 403, 500} : Form!Reply(Form!mapHttpError(st, "", {}), {})
      BY ONLY <1>4, Zenon DEF Form!RequestFails
    <3>2. CASE Form!Reply(Form!NetworkError, {})
      BY ONLY <3>2, ErrorTypes, Zenon
    <3>3. ASSUME NEW st, Form!Reply(Form!mapHttpError(st, "", {}), {})
          PROVE  \E error \in ErrorType : Form!Reply(error, {})
      <4>1. Form!mapHttpError(st, "", {}) \in ErrorType
        BY ONLY MappedError
      <4> QED
        BY ONLY <3>3, <4>1, Zenon
    <3> QED
      BY ONLY <3>1, <3>2, <3>3, Zenon
  <2>3. submission' \in SubmissionType
    BY <2>2, ReplyType
  <2> QED
    BY <1>2, <2>1, <2>3 DEF FormOK, FormTypes, LoadingOK
<1>5. CASE Form!SubmissionEnds
  <2>1. UNCHANGED opened
    BY <1>5 DEF Form!SubmissionEnds, Form!server
  <2>2. pushed' \in {"stay", "execution", "list"} /\ submitError' \in ErrorType
    BY <1>1, <1>5 DEF Form!SubmissionEnds, FormOK, FormTypes
  <2>3. submission' \in SubmissionType
    BY <1>1, <1>5, ErrorTypes DEF Form!SubmissionEnds, Form!NoSubmission, SubmissionType
  <2> QED
    BY <1>2, <2>1, <2>2, <2>3 DEF FormOK, FormTypes, LoadingOK
<1> QED
  BY <1>3, <1>4, <1>5

LEMMA StepForm == FormInv /\ [WaitingNext]_allVars => FormInv'
<1> SUFFICES ASSUME FormInv, [WaitingNext]_allVars, Form!Open'
             PROVE  FormOK'
  BY DEF FormInv
<1>1. FormOK
  BY RouteStays DEF FormInv, Form!Open
<1>2. CASE Form!Next
  BY <1>1, <1>2, CompanyChangesKeeps, LoadsKeep, FormUserKeeps, RequestKeeps DEF Form!Next
<1>3. CASE UNCHANGED formVars
  BY <1>1, <1>3 DEF formVars, FormOK, FormTypes, LoadingOK
<1> QED
  BY <1>2, <1>3, PageSteps

\* The form never says "Carregando empresas" with no load on its way, however the
\* loads overlap (useCompanies cancels none).
THEOREM WaitingLoadingIsAsked == WaitingSpec => []Form!LoadingIsAsked
<1>1. FormInv => Form!LoadingIsAsked
  BY DEF FormInv, FormOK, FormTypes, LoadingOK, Form!LoadingIsAsked
<1> QED
  BY <1>1, InitForm, StepForm, PTL DEF WaitingSpec

-----------------------------------------------------------------------------
(* The files page and its dialog (FilesPage).                               *)

FilesOK == Files!TypeOK /\ Files!DialogIsPolled
FilesInv == Files!Open => FilesOK

LEMMA InitFiles == WaitingInit => FilesInv
<1> SUFFICES ASSUME WaitingInit, Files!Open PROVE FilesOK
  BY DEF FilesInv
<1>1. Files!Init
  BY DEF WaitingInit
<1> USE <1>1, BoundsAssumption DEF Files!Init
<1>2. exports \in Seq(Files!ExportStatuses) /\ Len(exports) <= MaxExports
  OBVIOUS
<1>3. dialog \in [phase : {"closed", "idle", "ready", "empty", "failed", "timed_out"}
                             \cup Files!InProgress, id : 0..MaxExports]
  OBVIOUS
<1>4. polling \in [at : {"stopped", "timer", "asked", "answered", "failed"},
                   got : Files!ExportStatuses, since : 0..PollTimeout + 1]
  BY DEF Files!Stopped, Files!ExportStatuses
<1>5. filesList \in [view : {"loading", "error", "rows"}, rows : SUBSET (1..MaxExports),
                     req : {"none", "asked"}]
  OBVIOUS
<1>6. /\ downloading \in [button : 0..MaxExports, asked : SUBSET (1..MaxExports), error : BOOLEAN]
      /\ filesFaults \in [renewals : 0..FilesRenewals, failures : 0..MaxFailures]
  OBVIOUS
<1>7. Files!DialogIsPolled
  BY DEF Files!DialogIsPolled, Files!Stopped
<1> QED
  BY <1>2, <1>3, <1>4, <1>5, <1>6, <1>7 DEF FilesOK, Files!TypeOK

\* A request that fails is counted.
LEMMA FailsType ==
    ASSUME Files!Open, FilesOK, Files!Fails
    PROVE  filesFaults' \in [renewals : 0..FilesRenewals, failures : 0..MaxFailures]
BY BoundsAssumption DEF FilesOK, Files!TypeOK, Files!Fails

\* The files are those of exports that are there.
LEMMA FilesAreExports ==
    ASSUME Files!Open, FilesOK
    PROVE  Files!ReadyFiles \subseteq 1..MaxExports
BY BoundsAssumption DEF FilesOK, Files!TypeOK, Files!ReadyFiles, Files!Ids

\* The worker moves an export.
LEMMA WorkerRunsKeeps ==
    ASSUME Files!Open, Files!Open', FilesOK, NEW i, Files!WorkerRuns(i)
    PROVE  FilesOK'
<1> USE DEF FilesOK, Files!TypeOK, Files!WorkerRuns, Files!Ids
<1>1. UNCHANGED <<dialog, polling, filesList, downloading, filesFaults>>
  OBVIOUS
<1>2. exports' \in Seq(Files!ExportStatuses) /\ Len(exports') = Len(exports)
  <2>1. PICK st \in Files!ExportStatuses : exports' = [exports EXCEPT ![i] = st]
    BY DEF Files!ExportStatuses
  <2>2. exports \in Seq(Files!ExportStatuses) /\ i \in 1..Len(exports)
    OBVIOUS
  <2> QED
    BY <2>1, <2>2
<1> QED
  BY <1>1, <1>2 DEF Files!DialogIsPolled

\* The list of files.
LEMMA ListKeeps ==
    ASSUME Files!Open, Files!Open', FilesOK,
           Files!ChangeFilter \/ Files!Refetch \/ Files!ListArrives
    PROVE  FilesOK'
<1>1. UNCHANGED <<exports, dialog, polling, downloading>>
  BY DEF Files!ChangeFilter, Files!Refetch, Files!ListArrives
<1>2. filesFaults' \in [renewals : 0..FilesRenewals, failures : 0..MaxFailures]
  BY FailsType DEF FilesOK, Files!TypeOK, Files!ChangeFilter, Files!Refetch, Files!ListArrives
<1>3. filesList' \in [view : {"loading", "error", "rows"}, rows : SUBSET (1..MaxExports),
                      req : {"none", "asked"}]
  <2>1. CASE Files!ChangeFilter
    BY <2>1 DEF Files!ChangeFilter
  <2>2. CASE Files!Refetch
    BY <2>2 DEF Files!Refetch, FilesOK, Files!TypeOK
  <2>3. CASE Files!ListArrives
    <3>1. \/ filesList' = [view |-> "rows", rows |-> Files!ReadyFiles, req |-> "none"]
          \/ filesList' = [filesList EXCEPT !.view = "error", !.req = "none"]
      BY <2>3 DEF Files!ListArrives
    <3>2. Files!ReadyFiles \subseteq 1..MaxExports
      BY FilesAreExports
    <3>3. CASE filesList' = [view |-> "rows", rows |-> Files!ReadyFiles, req |-> "none"]
      BY <3>2, <3>3
    <3>4. CASE filesList' = [filesList EXCEPT !.view = "error", !.req = "none"]
      BY <3>4 DEF FilesOK, Files!TypeOK
    <3> QED
      BY <3>1, <3>3, <3>4
  <2> QED
    BY <2>1, <2>2, <2>3
<1> QED
  BY <1>1, <1>2, <1>3 DEF FilesOK, Files!TypeOK, Files!DialogIsPolled, Files!Ids

\* The downloads.
LEMMA DownloadsKeep ==
    ASSUME Files!Open, Files!Open', FilesOK, NEW i \in 1..MaxExports,
           Files!handleDownload(i) \/ Files!DownloadEnds(i)
    PROVE  FilesOK'
<1>1. UNCHANGED <<exports, dialog, polling, filesList>>
  BY DEF Files!handleDownload, Files!DownloadEnds
<1>2. filesFaults' \in [renewals : 0..FilesRenewals, failures : 0..MaxFailures]
  BY FailsType DEF FilesOK, Files!TypeOK, Files!handleDownload, Files!DownloadEnds
<1>3. downloading' \in [button : 0..MaxExports, asked : SUBSET (1..MaxExports), error : BOOLEAN]
  <2>1. PICK button \in 0..MaxExports, asked \in SUBSET (1..MaxExports), error \in BOOLEAN :
          downloading' = [button |-> button, asked |-> asked, error |-> error]
    <3>1. downloading.asked \in SUBSET (1..MaxExports) /\ downloading.error \in BOOLEAN
          /\ downloading = [button |-> downloading.button, asked |-> downloading.asked,
                            error |-> downloading.error]
      BY DEF FilesOK, Files!TypeOK
    <3>2. i \in 0..MaxExports /\ 0 \in 0..MaxExports
      BY BoundsAssumption
    <3>3. CASE Files!handleDownload(i)
      BY <3>1, <3>2, <3>3 DEF Files!handleDownload
    <3>4. CASE Files!DownloadEnds(i)
      BY <3>1, <3>2, <3>4 DEF Files!DownloadEnds
    <3> QED
      BY <3>3, <3>4
  <2> QED
    BY <2>1
<1> QED
  BY <1>1, <1>2, <1>3 DEF FilesOK, Files!TypeOK, Files!DialogIsPolled, Files!Ids

\* The dialog is opened, filled in and closed: never while it polls.
LEMMA DialogKeeps ==
    ASSUME Files!Open, Files!Open', FilesOK,
           Files!OpenDialog \/ Files!CloseDialog \/ Files!ClosePanel \/ Files!handleSubmit
    PROVE  FilesOK'
<1> USE DEF Files!OpenDialog, Files!CloseDialog, Files!ClosePanel, Files!Close, Files!dismissable,
            Files!handleSubmit, Files!InProgress
<1>1. UNCHANGED <<exports, polling, filesList, downloading, filesFaults>>
  OBVIOUS
<1>2. dialog.phase # "polling" /\ dialog'.phase # "polling"
  OBVIOUS
<1>3. dialog' \in [phase : {"closed", "idle", "ready", "empty", "failed", "timed_out"}
                              \cup Files!InProgress, id : 0..MaxExports]
  BY BoundsAssumption
<1> QED
  BY <1>1, <1>2, <1>3 DEF FilesOK, Files!TypeOK, Files!DialogIsPolled

\* POST /exports.
LEMMA SubmittedKeeps ==
    ASSUME Files!Open, Files!Open', FilesOK, Files!Submitted
    PROVE  FilesOK'
<1> USE BoundsAssumption DEF Files!Submitted
<1>1. UNCHANGED <<filesList, downloading>>
  OBVIOUS
<1>2. filesFaults' \in [renewals : 0..FilesRenewals, failures : 0..MaxFailures]
  BY FailsType DEF FilesOK, Files!TypeOK
<1>3. exports' \in Seq(Files!ExportStatuses) /\ Len(exports') <= MaxExports
  <2>1. exports \in Seq(Files!ExportStatuses) /\ Len(exports) < MaxExports
    BY DEF FilesOK, Files!TypeOK
  <2>2. exports' = exports \/ \E st \in Files!ExportStatuses : exports' = Append(exports, st)
    BY DEF Files!ExportStatuses, Files!TerminalStatuses
  <2>3. ASSUME NEW st \in Files!ExportStatuses
        PROVE  /\ Append(exports, st) \in Seq(Files!ExportStatuses)
               /\ Len(Append(exports, st)) = Len(exports) + 1
    BY <2>1
  <2> QED
    BY <2>1, <2>2, <2>3
<1>4. /\ dialog' \in [phase : {"closed", "idle", "ready", "empty", "failed", "timed_out"}
                                 \cup Files!InProgress, id : 0..MaxExports]
      /\ polling' \in [at : {"stopped", "timer", "asked", "answered", "failed"},
                       got : Files!ExportStatuses, since : 0..PollTimeout + 1]
  BY DEF FilesOK, Files!TypeOK, Files!InProgress, Files!Started, Files!ExportStatuses
<1>5. Files!DialogIsPolled'
  <2>1. CASE dialog'.phase = "polling"
    <3>1. exports' = Append(exports, "queued") /\ dialog'.id = Len(exports) + 1
          /\ polling' = Files!Started
      BY <2>1
    <3>2. Len(exports') = Len(exports) + 1 /\ Len(exports) \in Nat
      BY <3>1 DEF FilesOK, Files!TypeOK
    <3> QED
      BY <2>1, <3>1, <3>2 DEF Files!DialogIsPolled, Files!Ids, Files!Started
  <2>2. CASE dialog'.phase # "polling"
    <3>1. UNCHANGED polling /\ polling.at = "stopped"
      BY <2>2 DEF FilesOK, Files!DialogIsPolled
    <3> QED
      BY <2>2, <3>1 DEF Files!DialogIsPolled
  <2> QED
    BY <2>1, <2>2
<1> QED
  BY <1>1, <1>2, <1>3, <1>4, <1>5 DEF FilesOK, Files!TypeOK

\* The timer and the request of the effect that polls.
LEMMA PollKeeps ==
    ASSUME Files!Open, Files!Open', FilesOK,
           Files!TimerFires \/ Files!AnswerIsSlow \/ Files!AnswerPoll \/ Files!TokenRenewed
    PROVE  FilesOK'
<1>1. UNCHANGED <<exports, dialog, filesList, downloading>>
  BY DEF Files!TimerFires, Files!AnswerIsSlow, Files!AnswerPoll, Files!TokenRenewed
<1>2. filesFaults' \in [renewals : 0..FilesRenewals, failures : 0..MaxFailures]
  BY FailsType, BoundsAssumption
     DEF FilesOK, Files!TypeOK, Files!TimerFires, Files!AnswerIsSlow, Files!AnswerPoll,
         Files!TokenRenewed
<1>3. /\ polling' \in [at : {"stopped", "timer", "asked", "answered", "failed"},
                       got : Files!ExportStatuses, since : 0..PollTimeout + 1]
      /\ polling'.at = "stopped" <=> polling.at = "stopped"
  <2> USE BoundsAssumption DEF FilesOK, Files!TypeOK
  <2>1. CASE Files!TimerFires
    <3>1. (IF polling.since > PollTimeout THEN polling.since ELSE polling.since + 1)
              \in 0..PollTimeout + 1
      OBVIOUS
    <3> QED
      BY <2>1, <3>1 DEF Files!TimerFires
  <2>2. CASE Files!AnswerIsSlow
    <3>1. polling.since + 1 \in 0..PollTimeout + 1
      BY <2>2 DEF Files!AnswerIsSlow
    <3>2. polling' = [polling EXCEPT !.since = polling.since + 1]
      BY <2>2 DEF Files!AnswerIsSlow
    <3> QED
      BY <3>1, <3>2
  <2>3. CASE Files!AnswerPoll
    <3>1. exports[dialog.id] \in Files!ExportStatuses
      BY <2>3 DEF Files!AnswerPoll, Files!DialogIsPolled, Files!Ids
    <3> QED
      BY <2>3, <3>1 DEF Files!AnswerPoll
  <2>4. CASE Files!TokenRenewed
    BY <2>4 DEF Files!TokenRenewed, Files!DialogIsPolled, Files!Started, Files!ExportStatuses
  <2> QED
    BY <2>1, <2>2, <2>3, <2>4
<1> QED
  BY <1>1, <1>2, <1>3 DEF FilesOK, Files!TypeOK, Files!DialogIsPolled, Files!Ids

\* The rest of tick.
LEMMA PollArrivesKeeps ==
    ASSUME Files!Open, Files!Open', FilesOK, Files!PollArrives
    PROVE  FilesOK'
<1>1. PICK phase \in {"failed", "timed_out", "polling"} \cup Files!TerminalStatuses :
        /\ dialog' = [dialog EXCEPT !.phase = phase]
        /\ polling' = IF phase = "polling" THEN Files!Started ELSE Files!Stopped
        /\ IF phase = "ready" THEN Files!Invalidated ELSE UNCHANGED filesList
        /\ UNCHANGED <<exports, downloading, filesFaults>>
  BY DEF Files!PollArrives
<1>2. dialog.phase = "polling" /\ dialog.id \in Files!Ids
  BY DEF FilesOK, Files!DialogIsPolled, Files!PollArrives
<1>3. /\ dialog' \in [phase : {"closed", "idle", "ready", "empty", "failed", "timed_out"}
                                 \cup Files!InProgress, id : 0..MaxExports]
      /\ dialog'.phase = phase /\ dialog'.id = dialog.id
  BY <1>1 DEF FilesOK, Files!TypeOK, Files!TerminalStatuses, Files!InProgress
<1>4. polling' \in [at : {"stopped", "timer", "asked", "answered", "failed"},
                    got : Files!ExportStatuses, since : 0..PollTimeout + 1]
  BY <1>1, BoundsAssumption DEF Files!Started, Files!Stopped, Files!ExportStatuses
<1>5. filesList' \in [view : {"loading", "error", "rows"}, rows : SUBSET (1..MaxExports),
                      req : {"none", "asked"}]
  BY <1>1 DEF FilesOK, Files!TypeOK, Files!Invalidated
<1>6. Files!DialogIsPolled'
  BY <1>1, <1>2, <1>3 DEF Files!DialogIsPolled, Files!Ids, Files!Started, Files!Stopped
<1> QED
  BY <1>1, <1>3, <1>4, <1>5, <1>6 DEF FilesOK, Files!TypeOK

LEMMA StepFiles == FilesInv /\ [WaitingNext]_allVars => FilesInv'
<1> SUFFICES ASSUME FilesInv, [WaitingNext]_allVars, Files!Open'
             PROVE  FilesOK'
  BY DEF FilesInv
<1>1. Files!Open /\ FilesOK
  BY RouteStays DEF FilesInv, Files!Open
<1>2. CASE Files!Next
  BY <1>1, <1>2, WorkerRunsKeeps, ListKeeps, DownloadsKeep, DialogKeeps, SubmittedKeeps,
     PollKeeps, PollArrivesKeeps DEF Files!Next
<1>3. CASE UNCHANGED filesVars
  BY <1>1, <1>3 DEF filesVars, FilesOK, Files!TypeOK, Files!DialogIsPolled, Files!Ids
<1> QED
  BY <1>2, <1>3, PageSteps

\* The dialog of an export says that it is being made just while the effect polls
\* an export that is there: however the effect is torn down and started over, no
\* dialog that cannot be closed is left without it (gerar-zip-dialog.tsx).
THEOREM WaitingDialogIsPolled == WaitingSpec => []Files!DialogIsPolled
<1>1. FilesInv => Files!DialogIsPolled
  BY DEF FilesInv, FilesOK, Files!DialogIsPolled
<1> QED
  BY <1>1, InitFiles, StepFiles, PTL DEF WaitingSpec

-----------------------------------------------------------------------------
(* The types of the three pages.                                            *)

\* Every variable of the pages that poll or load again stays in its type.
THEOREM WaitingTypes == WaitingSpec => [](Exec!TypeOK /\ Form!TypeOK /\ Files!TypeOK)
<1>1. SelectionInv /\ PageInv => Exec!TypeOK
  <2> SUFFICES ASSUME Exec!Open, ExecInv, PageOK PROVE Exec!TypeOK
    BY DEF SelectionInv, PageInv, Exec!TypeOK
  <2> USE ItemsSize DEF PageOK, ExecTypes
  <2>1. selected \subseteq Exec!Items
    BY DEF ExecInv, Exec!Matching
  <2>2. \A r \in {items.req, detail.req} : r.leg \in Legs
    BY DEF RequestType
  <2>3. /\ detail.data \in 0..Exec!NoData /\ detail.st \in Statuses /\ detail.error \in BOOLEAN
        /\ items.data \in 0..Exec!NoData /\ items.due \in BOOLEAN
    OBVIOUS
  <2> QED
    BY <2>1, <2>2, <2>3 DEF Exec!TypeOK, Statuses, Legs
<1>2. FormInv => Form!TypeOK
  BY DEF FormInv, FormOK, FormTypes, CompaniesType, SubmissionType, ErrorType, LoadSlots,
         Form!NotLoading, Form!TypeOK
<1>3. FilesInv => Files!TypeOK
  BY DEF FilesInv, FilesOK, Files!TypeOK
<1> QED
  BY <1>1, <1>2, <1>3, InitSelection, StepSelection, InitPage, StepPage, InitForm, StepForm,
     InitFiles, StepFiles, PTL DEF WaitingSpec
=============================================================================
