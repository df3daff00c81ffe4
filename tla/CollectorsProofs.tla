-------------------------- MODULE CollectorsProofs --------------------------
(***************************************************************************)
(* Proofs about the two collectors: about the service (Collection), for    *)
(* any feeds, companies, runs, page size and faults; about the command     *)
(* line (LegacyBatch), for any clients, feeds, periods, processes and      *)
(* faults; and about the two together.                                     *)
(***************************************************************************)
EXTENDS Collectors, SequenceTheorems, WellFoundedInduction, TLAPS

-----------------------------------------------------------------------------
(* The service: the windows of its runs.                                    *)

\* A run's window ends where the portal had published, so its documents are
\* in the feed, and it is delivered in order.
WindowOK ==
    /\ \A c \in Companies : cursor[c] <= published[c] /\ published[c] <= Len(Feed[c])
    /\ \A r \in Runs :
        pc[r] # "idle" =>
            /\ nsuFrom[r] <= nsuDone[r]
            /\ nsuDone[r] <= nsuTo[r]
            /\ nsuTo[r] <= published[company[r]]

LEMMA FeedTypes == \A c \in Companies : Len(Feed[c]) \in Nat
                                        /\ \A n \in 1 .. Len(Feed[c]) : Feed[c][n] \in Docs
  BY CollectionAssumption

LEMMA InitInv == Init => TypeOK /\ WindowOK
  BY CollectionAssumption, FeedTypes DEF Init, TypeOK, WindowOK, Results

LEMMA WorksBoolean ==
    Works("dry") \subseteq BOOLEAN /\ Works("parse") \subseteq BOOLEAN
    /\ Works("storage") \subseteq BOOLEAN
  BY DEF Works

\* The two actions that insert rows insert at most the one of their document.
LEMMA RowInserted ==
    ASSUME NEW r \in Runs, StoreItem(r) \/ ItemError(r)
    PROVE  \/ UNCHANGED item
           \/ \E p, x \in BOOLEAN :
                item' = [item EXCEPT ![NextDoc(r)] =
                            [company |-> company[r], parsed |-> p, xml |-> x]]
<1>1. CASE StoreItem(r)
  <2>1. PICK p \in Works("parse"), x \in Works("storage") :
            \/ UNCHANGED item
            \/ item' = [item EXCEPT ![NextDoc(r)] =
                            [company |-> company[r], parsed |-> p, xml |-> x]]
    BY <1>1, Zenon DEF StoreItem
  <2>2. p \in BOOLEAN /\ x \in BOOLEAN
    BY WorksBoolean
  <2>3. QED
    BY <2>1, <2>2, Zenon
<1>2. CASE ItemError(r)
  <2>1. PICK p \in Works("parse"), x \in Works("storage") :
            \/ UNCHANGED item
            \/ item' = [item EXCEPT ![NextDoc(r)] =
                            [company |-> company[r], parsed |-> p, xml |-> x]]
    BY <1>2, Zenon DEF ItemError
  <2>2. p \in BOOLEAN /\ x \in BOOLEAN
    BY WorksBoolean
  <2>3. QED
    BY <2>1, <2>2, Zenon
<1>3. QED
  BY <1>1, <1>2

\* Only Start, Publish, FetchPage, Advance and a delivered document touch
\* the windows; a run delivers no document beyond nsuTo.
LEMMA StepInv == TypeOK /\ WindowOK /\ [Next]_vars => TypeOK' /\ WindowOK'
<1> SUFFICES ASSUME TypeOK, WindowOK, [Next]_vars PROVE TypeOK' /\ WindowOK'
  OBVIOUS
<1> USE CollectionAssumption DEF TypeOK, WindowOK, shared, counters, window
<1>1. ASSUME NEW c \in Companies, Publish(c) PROVE TypeOK' /\ WindowOK'
  BY <1>1, FeedTypes DEF Publish
<1>2. ASSUME NEW r \in Runs, NEW c \in Companies, Start(r, c) PROVE TypeOK' /\ WindowOK'
  BY <1>2, WorksBoolean DEF Start, Results
<1>3. ASSUME NEW r \in Runs, FetchPage(r) PROVE TypeOK' /\ WindowOK'
  <2> DEFINE top == IF published[company[r]] < nsuTo[r] + PageSize
                    THEN published[company[r]] ELSE nsuTo[r] + PageSize
  <2>1. /\ pc[r] = "page" /\ nsuTo[r] < published[company[r]]
        /\ nsuTo' = [nsuTo EXCEPT ![r] = top]
        /\ UNCHANGED <<shared, pc, company, dry, nsuFrom, nsuDone, counters, result>>
    BY <1>3 DEF FetchPage
  <2>2. top \in Nat /\ nsuTo[r] <= top /\ top <= published[company[r]]
    <3>1. company[r] \in Companies /\ published[company[r]] \in Nat /\ nsuTo[r] \in Nat
      BY <2>1
    <3>2. QED
      BY <2>1, <3>1
  <2> HIDE DEF top
  <2>3. TypeOK'
    BY <2>1, <2>2
  <2>4. WindowOK'
    BY <2>1, <2>2
  <2>5. QED
    BY <2>3, <2>4
<1>4. ASSUME NEW r \in Runs, LastPage(r) \/ FetchFails(r) \/ Finish(r) \/ Die(r)
      PROVE  TypeOK' /\ WindowOK'
  <2>1. CASE LastPage(r)
    BY <2>1 DEF LastPage
  <2>2. CASE FetchFails(r)
    BY <2>2 DEF FetchFails, Results
  <2>3. CASE Finish(r)
    <3>1. FinalStatus(r) \in Results
      BY DEF FinalStatus, Results
    <3> QED
      BY <2>3, <3>1 DEF Finish
  <2>4. CASE Die(r)
    BY <2>4 DEF Die
  <2> QED
    BY <1>4, <2>1, <2>2, <2>3, <2>4
<1>5. ASSUME NEW r \in Runs,
             SkipDocument(r) \/ DryItem(r) \/ StoreItem(r) \/ StoreKeyless(r) \/ ItemError(r)
      PROVE  TypeOK' /\ WindowOK'
  <2>1. /\ pc[r] = "items" /\ nsuDone[r] < nsuTo[r]
        /\ nsuDone' = [nsuDone EXCEPT ![r] = @ + 1]
        /\ UNCHANGED <<published, cursor, pc, company, dry, nsuFrom, nsuTo, result>>
    BY <1>5 DEF SkipDocument, DryItem, StoreItem, StoreKeyless, ItemError, Delivering, Delivered
  <2>2. item' \in [Docs -> ItemRow \cup {None}]
    <3>1. \A c \in Companies, p, x \in BOOLEAN :
              [company |-> c, parsed |-> p, xml |-> x] \in ItemRow
      BY DEF ItemRow
    <3>2. company[r] \in Companies
      BY <2>1
    <3>3. CASE StoreItem(r) \/ ItemError(r)
      <4>1. CASE UNCHANGED item
        BY <4>1
      <4>2. ASSUME NEW p \in BOOLEAN, NEW x \in BOOLEAN,
                   item' = [item EXCEPT ![NextDoc(r)] =
                               [company |-> company[r], parsed |-> p, xml |-> x]]
            PROVE  item' \in [Docs -> ItemRow \cup {None}]
        <5> DEFINE new == [company |-> company[r], parsed |-> p, xml |-> x]
        <5>1. new \in ItemRow
          BY <3>1, <3>2
        <5> HIDE DEF new
        <5>2. item' = [item EXCEPT ![NextDoc(r)] = new]
          BY <4>2 DEF new
        <5>3. QED
          BY <5>1, <5>2
      <4>3. QED
        BY <3>3, <4>1, <4>2, RowInserted
    <3>4. CASE UNCHANGED item
      BY <3>4
    <3>5. QED
      BY <1>5, <3>3, <3>4 DEF SkipDocument, DryItem, StoreKeyless
  <2>3. itemsOk' \in [Runs -> SUBSET Nat] /\ itemsFail' \in [Runs -> SUBSET Nat]
    <3>1. NextNsu(r) \in Nat
      BY DEF NextNsu
    <3>2. \/ UNCHANGED <<itemsOk, itemsFail>>
          \/ \E parsed \in BOOLEAN : Count(r, parsed)
          \/ /\ itemsFail' = [itemsFail EXCEPT ![r] = @ \cup {NextNsu(r)}]
             /\ UNCHANGED itemsOk
      <4>1. CASE SkipDocument(r)
        BY <4>1 DEF SkipDocument
      <4>2. CASE DryItem(r)
        BY <4>2 DEF DryItem
      <4>3. CASE StoreItem(r)
        BY <4>3, WorksBoolean DEF StoreItem
      <4>4. CASE StoreKeyless(r)
        BY <4>4 DEF StoreKeyless
      <4>5. CASE ItemError(r)
        BY <4>5 DEF ItemError
      <4>6. QED
        BY <1>5, <4>1, <4>2, <4>3, <4>4, <4>5
    <3>3. CASE UNCHANGED <<itemsOk, itemsFail>>
      BY <3>3
    <3>4. ASSUME NEW parsed \in BOOLEAN, Count(r, parsed)
          PROVE  itemsOk' \in [Runs -> SUBSET Nat] /\ itemsFail' \in [Runs -> SUBSET Nat]
      BY <3>1, <3>4 DEF Count
    <3>5. CASE itemsFail' = [itemsFail EXCEPT ![r] = @ \cup {NextNsu(r)}]
               /\ UNCHANGED itemsOk
      BY <3>1, <3>5
    <3>6. QED
      BY <3>2, <3>3, <3>4, <3>5
  <2>4. lostXml' \in [Runs -> BOOLEAN]
    <3>1. CASE UNCHANGED lostXml
      BY <3>1
    <3>2. CASE \E x \in Works("storage") : lostXml' = [lostXml EXCEPT ![r] = @ \/ ~x]
      BY <3>2, WorksBoolean
    <3>3. CASE StoreItem(r)
      BY <3>2, <3>3, Zenon DEF StoreItem
    <3>4. CASE ItemError(r)
      BY <3>2, <3>4, Zenon DEF ItemError
    <3>5. CASE StoreKeyless(r)
      BY <3>2, <3>5 DEF StoreKeyless
    <3>6. CASE SkipDocument(r)
      BY <3>1, <3>6 DEF SkipDocument
    <3>7. CASE DryItem(r)
      BY <3>1, <3>7 DEF DryItem
    <3>8. QED
      BY <1>5, <3>3, <3>4, <3>5, <3>6, <3>7
  <2>5. nsuDone' \in [Runs -> Nat]
    BY <2>1
  <2>6. TypeOK'
    BY <2>1, <2>2, <2>3, <2>4, <2>5
  <2>7. WindowOK'
    BY <2>1
  <2>8. QED
    BY <2>6, <2>7
<1>6. ASSUME NEW r \in Runs, Advance(r) PROVE TypeOK' /\ WindowOK'
  BY <1>6 DEF Advance
<1>7. CASE UNCHANGED vars
  BY <1>7 DEF vars
<1>8. QED
  BY <1>1, <1>2, <1>3, <1>4, <1>5, <1>6, <1>7 DEF Next, Collect, Fail

\* Type correctness of the collection, and its windows stay inside the feeds.
THEOREM CollectionTypes == Spec => [](TypeOK /\ WindowOK)
  BY InitInv, StepInv, PTL DEF Spec

-----------------------------------------------------------------------------
\* The cursor never moves back, for any overlap of runs.
THEOREM CursorNeverMovesBack == Spec => CursorMonotone
<1>1. TypeOK /\ [Next]_vars => [\A c \in Companies : cursor'[c] >= cursor[c]]_cursor
  <2> SUFFICES ASSUME TypeOK, [Next]_vars, cursor' # cursor
               PROVE  \A c \in Companies : cursor'[c] >= cursor[c]
    OBVIOUS
  <2>1. PICK r \in Runs : Advance(r)
    BY DEF Next, vars, shared, Publish, Start, Collect, Fail, FetchPage, LastPage,
           FetchFails, SkipDocument, DryItem, StoreItem, StoreKeyless, ItemError,
           Finish, Die
  <2>2. QED
    BY <2>1 DEF Advance, TypeOK
<1>2. QED
  BY <1>1, CollectionTypes, PTL DEF Spec, CursorMonotone

-----------------------------------------------------------------------------
\* What a run that stores has delivered is in the table, and so is all that
\* lies behind the cursor: the window of a run starts at the cursor.
DeliveredStored ==
    \A r \in Runs :
        pc[r] # "idle" /\ ~dry[r] =>
            /\ \A n \in Notes(company[r], 0, nsuDone[r]) : item[Feed[company[r]][n]] # None
            /\ pc[r] = "advance" => nsuDone[r] = nsuTo[r]

RowsInv == CursorBehindRows /\ DeliveredStored

\* Rows are never deleted.
LEMMA RowsStay ==
    ASSUME TypeOK, WindowOK, [Next]_vars
    PROVE  \A d \in Docs : item[d] # None => item'[d] # None
<1> USE CollectionAssumption DEF TypeOK
<1>1. ASSUME NEW r \in Runs, StoreItem(r) \/ ItemError(r)
      PROVE  \A d \in Docs : item[d] # None => item'[d] # None
  BY <1>1 DEF StoreItem, ItemError
<1>2. ASSUME UNCHANGED item
      PROVE  \A d \in Docs : item[d] # None => item'[d] # None
  BY <1>2
<1>3. QED
  BY <1>1, <1>2
     DEF Next, vars, shared, Publish, Start, Collect, Fail, FetchPage, LastPage,
         FetchFails, SkipDocument, DryItem, StoreKeyless, Finish, Advance, Die

LEMMA StepRows ==
    ASSUME {"database", "timeout"} \cap Faults = {},
           TypeOK, WindowOK, RowsInv, [Next]_vars
    PROVE  RowsInv'
<1> USE CollectionAssumption DEF RowsInv, TypeOK, WindowOK, shared, counters, window
<1>1. ASSUME UNCHANGED <<item, cursor, pc, company, dry, nsuDone, nsuTo>> PROVE RowsInv'
  BY <1>1 DEF CursorBehindRows, DeliveredStored, Notes
<1>2. ASSUME NEW r \in Runs, NEW c \in Companies, Start(r, c) PROVE RowsInv'
  <2>1. CursorBehindRows'
    BY <1>2 DEF Start, CursorBehindRows, Notes
  <2>2. ASSUME NEW q \in Runs, pc'[q] # "idle", ~dry'[q]
        PROVE  /\ \A n \in Notes(company[q], 0, nsuDone[q])' : item'[Feed[company'[q]][n]] # None
               /\ pc'[q] = "advance" => nsuDone'[q] = nsuTo'[q]
    <3>1. CASE q = r
      BY <1>2, <2>2, <3>1 DEF Start, CursorBehindRows, Notes
    <3>2. CASE q # r
      BY <1>2, <2>2, <3>2 DEF Start, DeliveredStored, Notes
    <3>3. QED
      BY <3>1, <3>2
  <2>3. QED
    BY <2>1, <2>2 DEF DeliveredStored
<1>3. ASSUME NEW r \in Runs, FetchPage(r) \/ LastPage(r) \/ FetchFails(r) \/ Finish(r) \/ Die(r)
      PROVE  RowsInv'
  <2>1. CursorBehindRows'
    BY <1>3 DEF FetchPage, LastPage, FetchFails, Finish, Die, CursorBehindRows, Notes
  <2>2. DeliveredStored'
    <3>1. CASE FetchPage(r)
      BY <3>1 DEF FetchPage, DeliveredStored, Notes
    <3>2. CASE LastPage(r)
      BY <3>2 DEF LastPage, DeliveredStored, Notes
    <3>3. CASE FetchFails(r)
      BY <3>3 DEF FetchFails, DeliveredStored, Notes
    <3>4. CASE Finish(r)
      BY <3>4 DEF Finish, DeliveredStored, Notes
    <3>5. CASE Die(r)
      BY <3>5 DEF Die, DeliveredStored, Notes
    <3>6. QED
      BY <1>3, <3>1, <3>2, <3>3, <3>4, <3>5
  <2>3. QED
    BY <2>1, <2>2
<1>4. ASSUME NEW r \in Runs,
             SkipDocument(r) \/ DryItem(r) \/ StoreItem(r) \/ StoreKeyless(r) \/ ItemError(r)
      PROVE  RowsInv'
  <2>1. /\ pc[r] = "items" /\ nsuDone[r] < nsuTo[r]
        /\ nsuDone' = [nsuDone EXCEPT ![r] = @ + 1]
        /\ UNCHANGED <<cursor, pc, company, dry, nsuTo>>
    BY <1>4 DEF SkipDocument, DryItem, StoreItem, StoreKeyless, ItemError, Delivering, Delivered
  <2>2. ASSUME ~dry[r], Kind[Feed[company[r]][nsuDone[r] + 1]] = "nfse"
        PROVE  item'[Feed[company[r]][nsuDone[r] + 1]] # None
    <3>1. company[r] \in Companies /\ Feed[company[r]][nsuDone[r] + 1] \in Docs
      BY <2>1, FeedTypes
    <3>2. StoreItem(r)
      BY <1>4, <2>2 DEF SkipDocument, DryItem, StoreKeyless, ItemError, NextDoc, NextNsu
    <3>3. \A c \in Companies, p, x \in BOOLEAN :
              [company |-> c, parsed |-> p, xml |-> x] # None
      BY DEF ItemRow
    <3>4. QED
      <4>1. PICK p \in Works("parse"), x \in Works("storage") :
                \/ item[NextDoc(r)] # None /\ item' = item
                \/ item' = [item EXCEPT ![NextDoc(r)] =
                                [company |-> company[r], parsed |-> p, xml |-> x]]
        BY <3>2, Zenon DEF StoreItem
      <4>2. CASE item[NextDoc(r)] # None /\ item' = item
        BY <4>2 DEF NextDoc, NextNsu
      <4>3. CASE item' = [item EXCEPT ![NextDoc(r)] =
                             [company |-> company[r], parsed |-> p, xml |-> x]]
        BY <3>1, <3>3, <4>3, WorksBoolean DEF NextDoc, NextNsu
      <4>4. QED
        BY <4>1, <4>2, <4>3
  <2>3. CursorBehindRows'
    <3>1. ASSUME NEW c \in Companies, NEW n \in Notes(c, 0, cursor[c])
          PROVE  item'[Feed[c][n]] # None
      <4>1. Feed[c][n] \in Docs
        BY FeedTypes DEF Notes
      <4>2. QED
        BY <4>1, RowsStay DEF CursorBehindRows
    <3>2. QED
      BY <2>1, <3>1 DEF CursorBehindRows, Notes
  <2>4. DeliveredStored'
    <3> SUFFICES ASSUME NEW q \in Runs, pc'[q] # "idle", ~dry'[q]
                 PROVE  /\ \A n \in Notes(company'[q], 0, nsuDone'[q]) :
                                item'[Feed[company'[q]][n]] # None
                        /\ pc'[q] = "advance" => nsuDone'[q] = nsuTo'[q]
      BY DEF DeliveredStored, Notes
    <3>1. pc'[q] = "advance" => nsuDone'[q] = nsuTo'[q]
      BY <2>1 DEF DeliveredStored
    <3>2. ASSUME NEW n \in Notes(company[q], 0, nsuDone[q])
          PROVE  item'[Feed[company[q]][n]] # None
      <4>1. Feed[company[q]][n] \in Docs
        BY <2>1, FeedTypes DEF Notes
      <4>2. QED
        BY <2>1, <4>1, RowsStay DEF DeliveredStored
    <3>3. ASSUME NEW n \in Notes(company[q], 0, nsuDone'[q])
          PROVE  item'[Feed[company[q]][n]] # None
      <4>1. CASE n \in 1 .. nsuDone[q]
        BY <3>2, <4>1 DEF Notes
      <4>2. CASE q = r /\ n = nsuDone[r] + 1
        BY <2>1, <2>2, <4>2 DEF Notes
      <4>3. QED
        BY <2>1, <4>1, <4>2 DEF Notes
    <3>4. QED
      BY <2>1, <3>1, <3>3
  <2>5. QED
    BY <2>3, <2>4
<1>5. ASSUME NEW r \in Runs, Advance(r) PROVE RowsInv'
  BY <1>5 DEF Advance, MayAdvance, CursorBehindRows, DeliveredStored, Notes
<1>6. QED
  BY <1>1, <1>2, <1>3, <1>4, <1>5 DEF Next, Collect, Fail, Publish, vars

\* When every INSERT succeeds, no note behind the cursor is missing, however
\* runs overlap, fail or die: the cursor is written last.
THEOREM NoRowIsSkipped ==
    ASSUME {"database", "timeout"} \cap Faults = {}
    PROVE  Spec => []CursorBehindRows
<1>1. Init => RowsInv
  BY DEF Init, RowsInv, CursorBehindRows, DeliveredStored, Notes
<1>2. TypeOK /\ WindowOK /\ RowsInv /\ [Next]_vars => RowsInv'
  BY StepRows
<1>3. RowsInv => CursorBehindRows
  BY DEF RowsInv
<1>4. QED
  BY <1>1, <1>2, <1>3, CollectionTypes, PTL DEF Spec

-----------------------------------------------------------------------------
(* The service implements FeedReader.                                       *)

Notas == {d \in Docs : Kind[d] = "nfse"}
HolderOf(row) == IF row = None THEN None ELSE row.company
Holder == [d \in Docs |-> HolderOf(item[d])]

\* The steps of FeedReader, of what the service has for its variables.
LEMMA ReaderPublishes ==
    ASSUME NEW c \in Companies, published[c] < Len(Feed[c]),
           published' = [published EXCEPT ![c] = @ + 1], UNCHANGED <<cursor, Holder>>
    PROVE  Reader!Next
BY Zenon DEF Reader!Next, Reader!Publish, Holder, HolderOf

LEMMA ReaderCollects ==
    ASSUME NEW c \in Companies, NEW n \in 1..Len(Feed[c]),
           n \in cursor[c] + 1 .. published[c],
           Feed[c][n] \in Notas, Holder[Feed[c][n]] = None,
           Holder' = [Holder EXCEPT ![Feed[c][n]] = c],
           UNCHANGED <<published, cursor>>
    PROVE  Reader!Next
<1>1. Reader!Collect(c, n)
  BY Zenon DEF Reader!Collect, Holder, HolderOf, Notas
<1> QED
  BY <1>1, Zenon DEF Reader!Next

LEMMA ReaderMoves ==
    ASSUME NEW c \in Companies, NEW n \in 1..Len(Feed[c]),
           n \in cursor[c] + 1 .. published[c],
           \A k \in 1..n : Feed[c][k] \in Notas => Holder[Feed[c][k]] # None,
           cursor' = [cursor EXCEPT ![c] = n],
           UNCHANGED <<published, Holder>>
    PROVE  Reader!Next
<1>1. Reader!MoveTo(c, n)
  BY Zenon DEF Reader!MoveTo, Holder, HolderOf, Notas
<1> QED
  BY <1>1, Zenon DEF Reader!Next

\* A note whose row was made is one its run had ahead of the cursor, of every
\* company that receives it: behind a cursor all rows were there.
LEMMA RowsAreMadeAhead ==
    ASSUME TypeOK, WindowOK, RowsInv, NEW r \in Runs, StoreItem(r),
           item[NextDoc(r)] = None
    PROVE  /\ company[r] \in Companies
           /\ NextNsu(r) \in cursor[company[r]] + 1 .. published[company[r]]
           /\ NextDoc(r) \in Notas
<1>1. /\ pc[r] = "items" /\ nsuDone[r] < nsuTo[r] /\ Kind[NextDoc(r)] = "nfse"
  BY DEF StoreItem, Delivering
<1>2. /\ company[r] \in Companies /\ nsuDone[r] \in Nat /\ nsuTo[r] \in Nat
      /\ published[company[r]] \in Nat /\ cursor[company[r]] \in Nat
      /\ nsuTo[r] <= published[company[r]] /\ published[company[r]] <= Len(Feed[company[r]])
  BY <1>1 DEF TypeOK, WindowOK
<1>3. NextNsu(r) \in 1 .. published[company[r]] /\ NextNsu(r) \in 1 .. Len(Feed[company[r]])
  BY <1>1, <1>2, FeedTypes DEF NextNsu
<1>4. ~(NextNsu(r) <= cursor[company[r]])
  <2> SUFFICES ASSUME NextNsu(r) <= cursor[company[r]] PROVE FALSE
    OBVIOUS
  <2>1. NextNsu(r) \in Notes(company[r], 0, cursor[company[r]])
    BY <1>1, <1>2, <1>3 DEF Notes, NextDoc
  <2> QED
    BY <1>2, <2>1 DEF RowsInv, CursorBehindRows, NextDoc
<1>5. NextDoc(r) \in Notas
  BY <1>1, <1>2, <1>3, FeedTypes DEF NextDoc, Notas
<1> QED
  BY <1>2, <1>3, <1>4, <1>5

\* A row that is made gives its note to its company, and moves no other.
LEMMA HolderOfNewRow ==
    ASSUME TypeOK, NEW d \in Docs, NEW c \in Companies, NEW p \in BOOLEAN, NEW x \in BOOLEAN,
           item' = [item EXCEPT ![d] = [company |-> c, parsed |-> p, xml |-> x]]
    PROVE  Holder' = [Holder EXCEPT ![d] = c]
<1> DEFINE new == [company |-> c, parsed |-> p, xml |-> x]
<1>1. new # None /\ new.company = c
  BY CollectionAssumption DEF ItemRow
<1>2. \A e \in Docs : item'[e] = IF e = d THEN new ELSE item[e]
  BY DEF TypeOK
<1> HIDE DEF new
<1>3. \A e \in Docs : HolderOf(item'[e]) = IF e = d THEN c ELSE HolderOf(item[e])
  BY <1>1, <1>2 DEF HolderOf
<1> QED
  BY <1>3 DEF Holder

LEMMA StoreCollects ==
    ASSUME TypeOK, WindowOK, RowsInv, NEW r \in Runs, StoreItem(r)
    PROVE  \/ Reader!Next
           \/ UNCHANGED <<published, cursor, Holder>>
<1>1. UNCHANGED <<published, cursor>>
  BY DEF StoreItem
<1>2. CASE UNCHANGED item
  BY <1>1, <1>2 DEF Holder
<1>3. CASE item' # item
  <2>1. item[NextDoc(r)] = None
    BY <1>3 DEF StoreItem
  <2>2. /\ company[r] \in Companies
        /\ NextNsu(r) \in cursor[company[r]] + 1 .. published[company[r]]
        /\ NextDoc(r) \in Notas
    BY <2>1, RowsAreMadeAhead
  <2>3. NextNsu(r) \in 1..Len(Feed[company[r]])
    BY <2>2, FeedTypes DEF TypeOK, WindowOK
  <2>4. NextDoc(r) \in Docs /\ NextDoc(r) = Feed[company[r]][NextNsu(r)]
    BY <2>2 DEF Notas, NextDoc
  <2>5. PICK p \in BOOLEAN, x \in BOOLEAN :
            item' = [item EXCEPT ![NextDoc(r)] =
                        [company |-> company[r], parsed |-> p, xml |-> x]]
    BY <1>3, RowInserted
  <2>6. Holder' = [Holder EXCEPT ![NextDoc(r)] = company[r]]
    BY <2>2, <2>4, <2>5, HolderOfNewRow
  <2>7. Holder[NextDoc(r)] = None
    BY <2>1, <2>4 DEF Holder, HolderOf
  <2> QED
    BY <1>1, <2>2, <2>3, <2>4, <2>6, <2>7, ReaderCollects
<1> QED
  BY <1>2, <1>3

LEMMA AdvanceMoves ==
    ASSUME TypeOK, WindowOK, RowsInv, NEW r \in Runs, Advance(r)
    PROVE  \/ Reader!Next
           \/ UNCHANGED <<published, cursor, Holder>>
<1>1. UNCHANGED <<published, item, Holder>> /\ pc[r] = "advance"
  BY DEF Advance, Holder
<1>2. /\ company[r] \in Companies /\ nsuTo[r] \in Nat /\ cursor[company[r]] \in Nat
      /\ published[company[r]] \in Nat
      /\ nsuTo[r] <= published[company[r]] /\ published[company[r]] <= Len(Feed[company[r]])
  BY <1>1 DEF TypeOK, WindowOK
<1>3. CASE MayAdvance(r) /\ cursor[company[r]] < nsuTo[r]
  <2>1. cursor' = [cursor EXCEPT ![company[r]] = nsuTo[r]]
    BY <1>3 DEF Advance
  <2>2. nsuTo[r] \in cursor[company[r]] + 1 .. published[company[r]]
    BY <1>2, <1>3
  <2>3. nsuTo[r] \in 1..Len(Feed[company[r]])
    BY <1>2, <1>3, FeedTypes
  <2>4. \A n \in Notes(company[r], 0, nsuTo[r]) : item[Feed[company[r]][n]] # None
    BY <1>1, <1>3 DEF MayAdvance, RowsInv, DeliveredStored
  <2>5. ASSUME NEW k \in 1..nsuTo[r], Feed[company[r]][k] \in Notas
        PROVE  Holder[Feed[company[r]][k]] # None
    <3>1. k \in Notes(company[r], 0, nsuTo[r]) /\ Feed[company[r]][k] \in Docs
      BY <2>5 DEF Notes, Notas
    <3>2. item[Feed[company[r]][k]] \in ItemRow
      BY <2>4, <3>1 DEF TypeOK
    <3>3. HolderOf(item[Feed[company[r]][k]]) \in Companies
      BY <2>4, <3>1, <3>2 DEF HolderOf, ItemRow
    <3> QED
      BY <3>1, <3>3, CollectionAssumption DEF Holder
  <2> QED
    BY <1>1, <1>2, <2>1, <2>2, <2>3, <2>5, ReaderMoves
<1>4. CASE ~(MayAdvance(r) /\ cursor[company[r]] < nsuTo[r])
  <2>1. cursor' = cursor
    BY <1>2, <1>4 DEF Advance, TypeOK
  <2> QED
    BY <1>1, <2>1
<1> QED
  BY <1>3, <1>4

\* Unless an INSERT fails or the job timeout is raised in the callback, the
\* service does what one reader of the feeds does: every run, page, retry and
\* crash is a step of FeedReader or none.
THEOREM ServiceReadsLikeOneReader ==
    ASSUME {"database", "timeout"} \cap Faults = {}
    PROVE  Spec => ReadsLikeOneReader
<1>1. Init => Reader!Init
  BY CollectionAssumption DEF Init, Reader!Init
<1>2. TypeOK /\ WindowOK /\ RowsInv /\ [Next]_vars
        => [Reader!Next]_<<published, cursor, Holder>>
  <2> SUFFICES ASSUME TypeOK, WindowOK, RowsInv, [Next]_vars
               PROVE  Reader!Next \/ UNCHANGED <<published, cursor, Holder>>
    BY Zenon
  <2>1. ASSUME NEW c \in Companies, Publish(c) PROVE Reader!Next
    BY <2>1, ReaderPublishes DEF Publish, Holder
  <2>2. ASSUME NEW r \in Runs, NEW c \in Companies, Start(r, c)
        PROVE  UNCHANGED <<published, cursor, Holder>>
    BY <2>2 DEF Start, shared, Holder
  <2>3. ASSUME NEW r \in Runs, Collect(r) \/ Fail(r), ~StoreItem(r), ~Advance(r)
        PROVE  UNCHANGED <<published, cursor, Holder>>
    <3>1. ~ItemError(r)
      BY DEF ItemError
    <3>2. UNCHANGED <<published, cursor, item>>
      BY <2>3, <3>1 DEF Collect, Fail, FetchPage, LastPage, FetchFails, SkipDocument, DryItem,
                        StoreKeyless, Finish, Die, shared
    <3> QED
      BY <3>2 DEF Holder
  <2>4. CASE UNCHANGED vars
    BY <2>4 DEF vars, shared, Holder
  <2>5. ASSUME NEW r \in Runs, Collect(r) \/ Fail(r)
        PROVE  Reader!Next \/ UNCHANGED <<published, cursor, Holder>>
    BY <2>3, <2>5, StoreCollects, AdvanceMoves
  <2> QED
    BY <2>1, <2>2, <2>4, <2>5 DEF Next
<1>3. Spec => [](TypeOK /\ WindowOK /\ RowsInv)
  <2>1. Init => RowsInv
    BY DEF Init, RowsInv, CursorBehindRows, DeliveredStored, Notes
  <2>2. TypeOK /\ WindowOK /\ RowsInv /\ [Next]_vars => RowsInv'
    BY StepRows
  <2> QED
    BY <2>1, <2>2, CollectionTypes, PTL DEF Spec
<1>4. Holder = [d \in Docs |-> IF item[d] = None THEN None ELSE item[d].company]
  BY DEF Holder, HolderOf
<1> QED
  BY <1>1, <1>2, <1>3, PTL DEF Spec, ReadsLikeOneReader, Reader!Spec, Holder, HolderOf

-----------------------------------------------------------------------------
\* What a run has delivered is a row or was counted as a failure, also when
\* the run is over; "succeeded" is decided with all delivered and no failure.
AccountInv ==
    \A r \in Runs :
        /\ pc[r] # "idle" => result[r] # "none"
        /\ pc[r] \in {"page", "items"} => result[r] = "running"
        /\ result[r] # "none" =>
            /\ company[r] \in Companies
            /\ nsuDone[r] <= nsuTo[r]
            /\ nsuTo[r] <= published[company[r]]
            /\ dry[r] \/ \A n \in Notes(company[r], nsuFrom[r], nsuDone[r]) :
                            item[Feed[company[r]][n]] # None \/ n \in itemsFail[r]
        /\ result[r] = "succeeded" => itemsFail[r] = {} /\ nsuDone[r] = nsuTo[r]

\* The failures a run has counted stay counted until its next execution.
LEMMA FailuresStay ==
    ASSUME TypeOK, NEW r \in Runs,
           SkipDocument(r) \/ DryItem(r) \/ StoreItem(r) \/ StoreKeyless(r) \/ ItemError(r)
    PROVE  \A q \in Runs : /\ itemsFail[q] \subseteq itemsFail'[q]
                           /\ q # r => itemsFail'[q] = itemsFail[q]
<1> USE DEF TypeOK
<1>1. CASE SkipDocument(r)
  BY <1>1 DEF SkipDocument, counters
<1>2. CASE DryItem(r)
  BY <1>2 DEF DryItem, Count
<1>3. CASE StoreItem(r)
  <2>1. \/ UNCHANGED itemsFail
        \/ \E parsed \in Works("parse") : Count(r, parsed)
    BY <1>3, Zenon DEF StoreItem
  <2>2. QED
    BY <2>1 DEF Count
<1>4. CASE StoreKeyless(r)
  BY <1>4 DEF StoreKeyless, Count
<1>5. CASE ItemError(r)
  BY <1>5 DEF ItemError
<1>6. QED
  BY <1>1, <1>2, <1>3, <1>4, <1>5

\* A note delivered to a run that stores has its row or is counted.
LEMMA NoteAccounted ==
    ASSUME TypeOK, WindowOK, NEW r \in Runs, ~dry[r], Kind[NextDoc(r)] = "nfse",
           SkipDocument(r) \/ DryItem(r) \/ StoreItem(r) \/ StoreKeyless(r) \/ ItemError(r)
    PROVE  item'[NextDoc(r)] # None \/ NextNsu(r) \in itemsFail'[r]
<1> USE CollectionAssumption DEF TypeOK, WindowOK
<1>1. CASE StoreItem(r)
  <2>1. company[r] \in Companies /\ NextDoc(r) \in Docs
    BY <1>1, FeedTypes DEF StoreItem, Delivering, NextDoc, NextNsu
  <2>2. \A c \in Companies, p, x \in BOOLEAN :
            [company |-> c, parsed |-> p, xml |-> x] # None
    BY DEF ItemRow
  <2>3. PICK p \in Works("parse"), x \in Works("storage") :
            \/ item[NextDoc(r)] # None /\ item' = item
            \/ item' = [item EXCEPT ![NextDoc(r)] =
                            [company |-> company[r], parsed |-> p, xml |-> x]]
    BY <1>1, Zenon DEF StoreItem
  <2>4. QED
    BY <2>1, <2>2, <2>3, WorksBoolean
<1>2. CASE ItemError(r)
  BY <1>2 DEF ItemError
<1>3. QED
  BY <1>1, <1>2 DEF SkipDocument, DryItem, StoreKeyless

LEMMA StepAccount ==
    ASSUME TypeOK, WindowOK, AccountInv, [Next]_vars
    PROVE  AccountInv'
<1> USE CollectionAssumption DEF TypeOK, WindowOK, shared, counters, window
<1>1. ASSUME UNCHANGED <<item, pc, company, dry, nsuFrom, nsuDone, nsuTo, itemsFail, result>>,
             \A c \in Companies : published[c] <= published'[c] /\ published'[c] \in Nat
      PROVE  AccountInv'
  BY <1>1 DEF AccountInv, Notes
<1>2. ASSUME NEW c \in Companies, Publish(c) PROVE AccountInv'
  BY <1>1, <1>2 DEF Publish
<1>3. ASSUME NEW r \in Runs, NEW c \in Companies, Start(r, c) PROVE AccountInv'
  <2>1. \A n : n \notin Notes(c, cursor[c], cursor[c])
    BY DEF Notes
  <2>2. QED
    BY <1>3, <2>1, WorksBoolean DEF Start, AccountInv, Notes
<1>4. ASSUME NEW r \in Runs, FetchPage(r) PROVE AccountInv'
  <2>1. /\ company[r] \in Companies /\ nsuDone[r] <= nsuTo[r] /\ result[r] = "running"
        /\ published[company[r]] \in Nat
    BY <1>4 DEF FetchPage, AccountInv
  <2>2. /\ nsuDone[r] <= nsuTo'[r] /\ nsuTo'[r] <= published[company[r]]
        /\ \A q \in Runs \ {r} : nsuTo'[q] = nsuTo[q]
    BY <1>4, <2>1 DEF FetchPage
  <2>3. UNCHANGED <<item, published, pc, company, dry, nsuFrom, nsuDone, itemsFail, result>>
    BY <1>4 DEF FetchPage
  <2>4. QED
    BY <2>1, <2>2, <2>3 DEF AccountInv, Notes
<1>5. ASSUME NEW r \in Runs, LastPage(r) PROVE AccountInv'
  BY <1>5 DEF LastPage, AccountInv, Notes
<1>6. ASSUME NEW r \in Runs, FetchFails(r) PROVE AccountInv'
  BY <1>6 DEF FetchFails, AccountInv, Notes
<1>7. ASSUME NEW r \in Runs, Finish(r) PROVE AccountInv'
  BY <1>7 DEF Finish, FinalStatus, AccountInv, Notes
<1>8. ASSUME NEW r \in Runs, Advance(r) \/ Die(r) PROVE AccountInv'
  <2>1. /\ \A q \in Runs : pc'[q] \in {pc[q], "idle"}
        /\ pc'[r] = "idle" /\ result[r] # "none"
        /\ \A q \in Runs \ {r} : pc'[q] = pc[q]
    BY <1>8 DEF Advance, Die, AccountInv
  <2>2. UNCHANGED <<item, published, company, dry, nsuFrom, nsuDone, nsuTo, itemsFail, result>>
    BY <1>8 DEF Advance, Die
  <2>3. QED
    BY <2>1, <2>2 DEF AccountInv, Notes
<1>9. ASSUME NEW r \in Runs,
             SkipDocument(r) \/ DryItem(r) \/ StoreItem(r) \/ StoreKeyless(r) \/ ItemError(r)
      PROVE  AccountInv'
  <2>1. /\ pc[r] = "items" /\ nsuDone[r] < nsuTo[r]
        /\ nsuDone' = [nsuDone EXCEPT ![r] = @ + 1]
        /\ UNCHANGED <<published, pc, company, dry, nsuFrom, nsuTo, result>>
    BY <1>9 DEF SkipDocument, DryItem, StoreItem, StoreKeyless, ItemError, Delivering, Delivered
  <2>2. ASSUME NEW q \in Runs, result[q] # "none", ~dry[q],
               NEW n \in Notes(company[q], nsuFrom[q], nsuDone'[q])
        PROVE  item'[Feed[company[q]][n]] # None \/ n \in itemsFail'[q]
    <3>1. CASE n \in Notes(company[q], nsuFrom[q], nsuDone[q])
      <4>1. company[q] \in Companies /\ nsuDone[q] <= published[company[q]]
        BY <2>2 DEF AccountInv
      <4>2. Feed[company[q]][n] \in Docs
        BY <3>1, <4>1, FeedTypes DEF Notes
      <4>3. item[Feed[company[q]][n]] # None \/ n \in itemsFail[q]
        BY <2>2, <3>1 DEF AccountInv
      <4>4. QED
        BY <1>9, <4>2, <4>3, RowsStay, FailuresStay
    <3>2. CASE q = r /\ n = nsuDone[r] + 1
      BY <1>9, <2>2, <3>2, NoteAccounted DEF Notes, NextDoc, NextNsu
    <3>3. QED
      BY <2>1, <3>1, <3>2 DEF Notes
  <2>3. ASSUME NEW q \in Runs
        PROVE  /\ pc'[q] # "idle" => result'[q] # "none"
               /\ pc'[q] \in {"page", "items"} => result'[q] = "running"
               /\ result'[q] # "none" =>
                   /\ company'[q] \in Companies
                   /\ nsuDone'[q] <= nsuTo'[q]
                   /\ nsuTo'[q] <= published'[company'[q]]
               /\ result'[q] = "succeeded" => itemsFail'[q] = {} /\ nsuDone'[q] = nsuTo'[q]
    <3>1. /\ result[q] # "none" => nsuDone'[q] <= nsuTo[q]
          /\ q # r => nsuDone'[q] = nsuDone[q]
      BY <2>1 DEF AccountInv
    <3>2. /\ pc[q] # "idle" => result[q] # "none"
          /\ pc[q] \in {"page", "items"} => result[q] = "running"
          /\ result[q] # "none" => company[q] \in Companies /\ nsuTo[q] <= published[company[q]]
      BY DEF AccountInv
    <3>3. result[q] = "succeeded" => itemsFail'[q] = {} /\ nsuDone'[q] = nsuTo[q]
      <4>1. result[q] = "succeeded" => q # r
        BY <2>1, <3>2
      <4>2. q # r => itemsFail'[q] = itemsFail[q]
        BY <1>9, FailuresStay
      <4>3. result[q] = "succeeded" => itemsFail[q] = {} /\ nsuDone[q] = nsuTo[q]
        BY DEF AccountInv
      <4>4. QED
        BY <3>1, <4>1, <4>2, <4>3
    <3>4. QED
      BY <2>1, <3>1, <3>2, <3>3
  <2>4. QED
    BY <2>1, <2>2, <2>3 DEF AccountInv, Notes
<1>10. CASE UNCHANGED vars
  BY <1>1, <1>10 DEF vars
<1>11. QED
  BY <1>2, <1>3, <1>4, <1>5, <1>6, <1>7, <1>8, <1>9, <1>10 DEF Next, Collect, Fail

\* No succeeded execution left out a note of its window, under every set of
\* faults: what was not stored was counted as a failure.
THEOREM SucceededLeavesNothingOut == Spec => []SucceededMeansCollected
<1>1. Init => AccountInv
  BY DEF Init, AccountInv
<1>2. TypeOK /\ WindowOK /\ AccountInv /\ [Next]_vars => AccountInv'
  BY StepAccount
<1>3. AccountInv => SucceededMeansCollected
  BY DEF AccountInv, SucceededMeansCollected, Notes
<1>4. QED
  BY <1>1, <1>2, <1>3, CollectionTypes, PTL DEF Spec

-----------------------------------------------------------------------------
\* No two executions that store count one note, whatever overlaps: only an
\* INSERT that made the row counts it.
THEOREM NotesCountOnce == Spec => NoteCountedOnce
<1>1. TypeOK /\ [Next]_vars =>
        [\A r \in Runs : \A n \in itemsOk'[r] \ itemsOk[r] :
            dry[r] \/ item[Feed[company[r]][n]] = None]_itemsOk
  <2> SUFFICES ASSUME TypeOK, [Next]_vars, itemsOk' # itemsOk,
                      NEW q \in Runs, NEW n \in itemsOk'[q] \ itemsOk[q]
               PROVE  dry[q] \/ item[Feed[company[q]][n]] = None
    OBVIOUS
  <2> USE DEF TypeOK
  <2>1. ASSUME NEW r \in Runs, NEW c \in Companies, Start(r, c)
        PROVE  dry[q] \/ item[Feed[company[q]][n]] = None
    BY <2>1 DEF Start
  <2>2. ASSUME NEW r \in Runs, DryItem(r)
        PROVE  dry[q] \/ item[Feed[company[q]][n]] = None
    BY <2>2 DEF DryItem, Count
  <2>3. ASSUME NEW r \in Runs, StoreItem(r)
        PROVE  dry[q] \/ item[Feed[company[q]][n]] = None
    <3>1. item[NextDoc(r)] = None /\ \E parsed \in Works("parse") : Count(r, parsed)
      BY <2>3, Zenon DEF StoreItem
    <3>2. q = r /\ n = NextNsu(r)
      BY <3>1 DEF Count
    <3>3. QED
      BY <3>1, <3>2 DEF NextDoc
  <2>4. ASSUME NEW r \in Runs, StoreKeyless(r)
        PROVE  dry[q] \/ item[Feed[company[q]][n]] = None
    BY <2>4 DEF StoreKeyless, Count
  <2>5. QED
    BY <2>1, <2>2, <2>3, <2>4
       DEF Next, vars, shared, counters, Publish, Collect, Fail, FetchPage, LastPage,
           FetchFails, SkipDocument, ItemError, Finish, Advance, Die
<1>2. QED
  BY <1>1, CollectionTypes, PTL DEF Spec, NoteCountedOnce

-----------------------------------------------------------------------------
\* While a run has lost no XML, each note it counts is a complete row of its
\* company; "succeeded" is decided with no XML lost.
CompleteInv ==
    \A r \in Runs :
        /\ itemsOk[r] # {} => company[r] \in Companies
        /\ \A n \in itemsOk[r] : n \in 1 .. Len(Feed[company[r]])
        /\ ~dry[r] /\ ~lostXml[r] =>
            \A n \in itemsOk[r] :
                item[Feed[company[r]][n]] = [company |-> company[r], parsed |-> TRUE, xml |-> TRUE]
        /\ result[r] = "succeeded" => ~lostXml[r] /\ pc[r] \in {"advance", "idle"}

\* A row is never written again.
LEMMA RowsFixed ==
    ASSUME TypeOK, [Next]_vars
    PROVE  \A d \in Docs : item[d] # None => item'[d] = item[d]
<1> USE CollectionAssumption DEF TypeOK
<1>1. ASSUME NEW r \in Runs, StoreItem(r) \/ ItemError(r)
      PROVE  \A d \in Docs : item[d] # None => item'[d] = item[d]
  BY <1>1 DEF StoreItem, ItemError
<1>2. CASE UNCHANGED item
  BY <1>2
<1>3. QED
  BY <1>1, <1>2
     DEF Next, vars, shared, Publish, Start, Collect, Fail, FetchPage, LastPage,
         FetchFails, SkipDocument, DryItem, StoreKeyless, Finish, Advance, Die

\* A delivery adds its note to items_ok only, and only with its row complete
\* unless the XML is lost; an XML that is lost stays lost.
LEMMA CountedIsComplete ==
    ASSUME TypeOK, NEW r \in Runs,
           SkipDocument(r) \/ DryItem(r) \/ StoreItem(r) \/ StoreKeyless(r) \/ ItemError(r)
    PROVE  /\ \A q \in Runs : q # r => itemsOk'[q] = itemsOk[q] /\ lostXml'[q] = lostXml[q]
           /\ lostXml[r] => lostXml'[r]
           /\ itemsOk'[r] \subseteq itemsOk[r] \cup {NextNsu(r)}
           /\ NextNsu(r) \in itemsOk'[r] \ itemsOk[r] /\ ~dry[r] /\ ~lostXml'[r]
                 /\ NextDoc(r) \in Docs =>
                item'[NextDoc(r)] = [company |-> company[r], parsed |-> TRUE, xml |-> TRUE]
<1> USE DEF TypeOK
<1>1. CASE SkipDocument(r)
  BY <1>1 DEF SkipDocument, counters
<1>2. CASE DryItem(r)
  BY <1>2 DEF DryItem, Count
<1>3. CASE StoreItem(r)
  <2>1. PICK p \in Works("parse"), x \in Works("storage") :
            /\ lostXml' = [lostXml EXCEPT ![r] = @ \/ ~x]
            /\ \/ UNCHANGED <<item, itemsOk>>
               \/ /\ Count(r, p)
                  /\ item' = [item EXCEPT ![NextDoc(r)] =
                                 [company |-> company[r], parsed |-> p, xml |-> x]]
    BY <1>3, Zenon DEF StoreItem
  <2>2. p \in BOOLEAN /\ x \in BOOLEAN
    BY WorksBoolean
  <2>3. lostXml'[r] = (lostXml[r] \/ ~x) /\ \A q \in Runs : q # r => lostXml'[q] = lostXml[q]
    BY <2>1, <2>2
  <2>4. CASE UNCHANGED <<item, itemsOk>>
    BY <2>3, <2>4
  <2>5. CASE /\ Count(r, p)
             /\ item' = [item EXCEPT ![NextDoc(r)] =
                            [company |-> company[r], parsed |-> p, xml |-> x]]
    <3>1. /\ itemsOk'[r] \subseteq itemsOk[r] \cup {NextNsu(r)}
          /\ \A q \in Runs : q # r => itemsOk'[q] = itemsOk[q]
          /\ itemsOk'[r] # itemsOk[r] => p = TRUE
      BY <2>2, <2>5 DEF Count
    <3>2. ~lostXml'[r] => x = TRUE
      BY <2>2, <2>3
    <3>3. NextDoc(r) \in Docs =>
              item'[NextDoc(r)] = [company |-> company[r], parsed |-> p, xml |-> x]
      BY <2>5
    <3>4. QED
      BY <2>3, <3>1, <3>2, <3>3
  <2>6. QED
    BY <2>1, <2>4, <2>5
<1>4. CASE StoreKeyless(r)
  <2>1. PICK x \in Works("storage") : lostXml' = [lostXml EXCEPT ![r] = @ \/ ~x]
    BY <1>4 DEF StoreKeyless
  <2>2. x \in BOOLEAN
    BY WorksBoolean
  <2>3. itemsOk' = itemsOk
    BY <1>4 DEF StoreKeyless, Count
  <2>4. QED
    BY <2>1, <2>2, <2>3
<1>5. CASE ItemError(r)
  <2>1. PICK x \in Works("storage") : lostXml' = [lostXml EXCEPT ![r] = @ \/ ~x]
    BY <1>5, Zenon DEF ItemError
  <2>2. x \in BOOLEAN
    BY WorksBoolean
  <2>3. itemsOk' = itemsOk
    BY <1>5 DEF ItemError
  <2>4. QED
    BY <2>1, <2>2, <2>3
<1>6. QED
  BY <1>1, <1>2, <1>3, <1>4, <1>5

LEMMA StepComplete ==
    ASSUME TypeOK, WindowOK, CompleteInv, [Next]_vars
    PROVE  CompleteInv'
<1> USE CollectionAssumption DEF TypeOK, WindowOK, shared, counters, window
<1>1. ASSUME UNCHANGED <<item, company, dry, itemsOk, lostXml>>,
             \A r \in Runs : /\ result'[r] = "succeeded" => ~lostXml[r]
                             /\ result'[r] = "succeeded" => pc'[r] \in {"advance", "idle"}
      PROVE  CompleteInv'
  BY <1>1 DEF CompleteInv
<1>2. ASSUME NEW c \in Companies, Publish(c) PROVE CompleteInv'
  BY <1>1, <1>2 DEF Publish, CompleteInv
<1>3. ASSUME NEW r \in Runs, NEW c \in Companies, Start(r, c) PROVE CompleteInv'
  BY <1>3, WorksBoolean DEF Start, CompleteInv
<1>4. ASSUME NEW r \in Runs,
             FetchPage(r) \/ LastPage(r) \/ FetchFails(r) \/ Advance(r) \/ Die(r)
      PROVE  CompleteInv'
  <2>1. UNCHANGED <<item, company, dry, itemsOk, lostXml>>
    BY <1>4 DEF FetchPage, LastPage, FetchFails, Advance, Die
  <2>2. \A q \in Runs : result'[q] = "succeeded" => result[q] = "succeeded"
    BY <1>4 DEF FetchPage, LastPage, FetchFails, Advance, Die
  <2>3. \A q \in Runs : pc'[q] # pc[q] => pc'[q] = "idle" \/ pc[q] \in {"page", "items"}
    BY <1>4 DEF FetchPage, LastPage, FetchFails, Advance, Die
  <2>4. QED
    BY <1>1, <2>1, <2>2, <2>3 DEF CompleteInv
<1>5. ASSUME NEW r \in Runs, Finish(r) PROVE CompleteInv'
  BY <1>1, <1>5 DEF Finish, FinalStatus, CompleteInv
<1>6. ASSUME NEW r \in Runs,
             SkipDocument(r) \/ DryItem(r) \/ StoreItem(r) \/ StoreKeyless(r) \/ ItemError(r)
      PROVE  CompleteInv'
  <2>1. /\ pc[r] = "items" /\ nsuDone[r] < nsuTo[r]
        /\ UNCHANGED <<pc, company, dry, result>>
    BY <1>6 DEF SkipDocument, DryItem, StoreItem, StoreKeyless, ItemError, Delivering
  <2>2. /\ company[r] \in Companies /\ NextNsu(r) \in 1 .. Len(Feed[company[r]])
        /\ NextDoc(r) \in Docs
    BY <2>1, FeedTypes DEF NextDoc, NextNsu
  <2>3. /\ \A q \in Runs : q # r => itemsOk'[q] = itemsOk[q] /\ lostXml'[q] = lostXml[q]
        /\ itemsOk'[r] \subseteq itemsOk[r] \cup {NextNsu(r)}
        /\ result[r] # "succeeded"
    <3>1. result[r] # "succeeded"
      BY <2>1 DEF CompleteInv
    <3>2. QED
      BY <1>6, <3>1, CountedIsComplete
  <2>4. ASSUME NEW q \in Runs
        PROVE  /\ itemsOk'[q] # {} => company[q] \in Companies
               /\ \A n \in itemsOk'[q] : n \in 1 .. Len(Feed[company[q]])
               /\ result[q] = "succeeded" => ~lostXml'[q] /\ pc[q] \in {"advance", "idle"}
    <3>1. CASE q = r
      BY <2>2, <2>3, <3>1 DEF CompleteInv
    <3>2. CASE q # r
      BY <2>3, <3>2 DEF CompleteInv
    <3>3. QED
      BY <3>1, <3>2
  <2>5. ASSUME NEW q \in Runs, ~dry[q], ~lostXml'[q], NEW n \in itemsOk'[q]
        PROVE  item'[Feed[company[q]][n]] =
                   [company |-> company[q], parsed |-> TRUE, xml |-> TRUE]
    <3> DEFINE full == [company |-> company[q], parsed |-> TRUE, xml |-> TRUE]
    <3>1. CASE n \in itemsOk[q]
      <4>1. ~lostXml[q]
        BY <1>6, <2>5, CountedIsComplete
      <4>2. item[Feed[company[q]][n]] = full
        BY <2>5, <3>1, <4>1 DEF CompleteInv
      <4>3. company[q] \in Companies /\ Feed[company[q]][n] \in Docs
        BY <3>1, FeedTypes DEF CompleteInv
      <4>4. full # None
        <5>1. \A c \in Companies, p, x \in BOOLEAN :
                  [company |-> c, parsed |-> p, xml |-> x] # None
          BY DEF ItemRow
        <5>2. QED
          BY <4>3, <5>1
      <4>5. QED
        BY <4>2, <4>3, <4>4, RowsFixed
    <3>2. CASE n \notin itemsOk[q]
      <4>1. q = r /\ n = NextNsu(r)
        BY <1>6, <2>5, <3>2, CountedIsComplete
      <4>2. QED
        BY <1>6, <2>2, <2>5, <3>2, <4>1, CountedIsComplete DEF NextDoc
    <3>3. QED
      BY <3>1, <3>2
  <2>6. QED
    BY <2>1, <2>4, <2>5 DEF CompleteInv
<1>7. CASE UNCHANGED vars
  BY <1>1, <1>7 DEF vars, CompleteInv
<1>8. QED
  BY <1>2, <1>3, <1>4, <1>5, <1>6, <1>7 DEF Next, Collect, Fail

\* Every note a succeeded execution counts is a row of its own company that
\* parsed and has its XML, under every set of faults: a failed upload anywhere
\* in the run denies it "succeeded", and no later run writes the row.
THEOREM CountedItemsAreComplete == Spec => []SucceededItemsComplete
<1>1. Init => CompleteInv
  BY DEF Init, CompleteInv
<1>2. TypeOK /\ WindowOK /\ CompleteInv /\ [Next]_vars => CompleteInv'
  BY StepComplete
<1>3. CompleteInv => SucceededItemsComplete
  BY DEF CompleteInv, SucceededItemsComplete
<1>4. QED
  BY <1>1, <1>2, <1>3, CollectionTypes, PTL DEF Spec

-----------------------------------------------------------------------------
(* The inductive invariant of the command line.                             *)

Saving == {"escrever", "trocar"}
Holding == {"excel", "abrir_xml", "xml"}

Processes ==
    [pc : Batch!Pcs, op : {"coleta", "reset"}, mes : Nat, todas : BOOLEAN, dry : BOOLEAN,
     fila : Seq(Batch!Cnpjs), estado : Batch!Estados, notas : SUBSET Nat, maior : Nat,
     fd : Batch!Fds]

Client(p) == Head(proc[p].fila)

BatchTypes ==
    /\ publicados \in Batch!Estados
    /\ \A c \in Batch!Cnpjs : publicados[c] <= Len(BatchFeed[c])
    /\ ultimo_nsu \in Batch!Estados \cup {Ausente, Vazio, Rasgado}
    /\ tmp \in Batch!Estados \cup {Ausente, Vazio, Rasgado}
    /\ DOMAIN xmls = Batch!Cnpjs
    /\ \A c \in Batch!Cnpjs :
        xmls[c] \in [1..Len(BatchFeed[c]) -> {"ausente", "aberto", "inteiro"}]
    /\ excel \in [Batch!Cnpjs -> [Meses -> SUBSET Nat]]
    /\ proc \in [Processos -> Processes]
    /\ overlapped \in BOOLEAN
    /\ estreitos \subseteq Meses

\* What a process holds at each of its steps: an open file while it writes
\* one, and the notes of its client, all behind what is published, from the
\* answer of the portal to the last file.
ProcessOK(q) ==
    /\ q.pc = "parado" => q = Batch!Parado
    /\ q.fd # "nenhum" <=> q.pc = "escrever"
    /\ q.op = "reset" => q.fila # << >> /\ q.pc \in {"carregar", "abrir"} \cup Saving
    /\ q.pc \notin Holding => q.notas = {}
    /\ q.pc \in Holding =>
        /\ ~q.dry /\ q.fila # << >>
        /\ q.maior <= publicados[Head(q.fila)]
        /\ q.notas \subseteq (q.estado[Head(q.fila)] + 1) .. q.maior
    /\ q.pc = "xml" => q.notas # {}

\* A note that every run filters for, and its file.
Wanted(c, n) ==
    BatchFeed[c][n].mes # Batch!OutroTipo /\ BatchFeed[c][n].xml
    /\ estreitos \subseteq {BatchFeed[c][n].mes}

HasFile(c, n) == xmls[c][n] = "inteiro" \/ (overlapped /\ xmls[c][n] = "aberto")

\* No NSU of the dict is beyond what is published, nor beyond a note that has
\* no file.
Behind(estado) ==
    \A c \in Batch!Cnpjs :
        /\ estado[c] <= publicados[c]
        /\ \A n \in 1 .. estado[c] : Wanted(c, n) => HasFile(c, n)

\* So are the file, the dict of every process, and the ".tmp" while somebody
\* is about to move it: one that a dead process left may be ahead.
SavedOK ==
    /\ Behind(Batch!Carregado)
    /\ \A p \in Processos : Behind(proc[p].estado)
    /\ (\E p \in Processos : proc[p].pc \in Saving) =>
            (tmp \in Batch!Estados => Behind(tmp))

\* A process that will move the NSU of its client to maior has yet to write,
\* or has written, the file of every note up to there.
PendingOK ==
    \A p \in Processos :
        proc[p].pc \in Holding =>
            \A n \in (proc[p].estado[Client(p)] + 1) .. proc[p].maior :
                Wanted(Client(p), n) => n \in proc[p].notas \/ HasFile(Client(p), n)

\* The month of a run that keeps only its month has been asked for.
NarrowOK ==
    \A p \in Processos :
        proc[p].pc # "parado" /\ proc[p].op = "coleta" /\ ~proc[p].dry /\ ~proc[p].todas
            => proc[p].mes \in estreitos

\* As long as no two processes have overlapped there is at most one; what it
\* loaded is what is saved, but for the client it resets, and the ".tmp" is
\* its own.
SerialOK ==
    ~overlapped =>
        /\ \A p, q \in Processos : proc[p].pc # "parado" /\ proc[q].pc # "parado" => p = q
        /\ \A p \in Processos :
            /\ proc[p].pc \notin {"parado", "carregar"} =>
                \A c \in Batch!Cnpjs :
                    \/ Batch!Carregado[c] <= proc[p].estado[c]
                    \/ (proc[p].op = "reset" /\ c = Client(p))
            /\ proc[p].pc = "escrever" => proc[p].fd = "tmp" /\ tmp = Vazio
            /\ proc[p].pc = "trocar" => tmp = proc[p].estado

BatchInv ==
    /\ BatchTypes
    /\ \A p \in Processos : ProcessOK(proc[p])
    /\ SavedOK
    /\ PendingOK
    /\ NarrowOK
    /\ SerialOK

-----------------------------------------------------------------------------
(* The operators the actions are built from.                                *)

LEMMA BatchFeeds ==
    \A c \in Batch!Cnpjs :
        /\ Len(BatchFeed[c]) \in Nat
        /\ \A n \in 1 .. Len(BatchFeed[c]) : BatchFeed[c][n] \in Batch!Documentos
  BY BatchAssumption

\* A lot of a list of clients is a list of clients, whichever lot it is.
LEMMA LotOfClients ==
    ASSUME NEW S, NEW lista \in Seq(S), NEW total \in Nat \ {0}, NEW lote \in 1 .. total
    PROVE  Batch!Fatia(lista, lote, total) \in Seq(S)
<1> DEFINE tamanho == (Len(lista) + total - 1) \div total
           primeiro == (lote - 1) * tamanho + 1
           ultimo == Batch!Menor(lote * tamanho, Len(lista))
<1>1. tamanho \in Nat
  OBVIOUS
<1>2. primeiro \in Nat \ {0} /\ ultimo \in Nat /\ ultimo <= Len(lista)
  <2>1. (lote - 1) * tamanho \in Nat /\ lote * tamanho \in Nat
    BY <1>1
  <2>2. QED
    BY <2>1 DEF Batch!Menor
<1> HIDE DEF primeiro, ultimo
<1>3. SubSeq(lista, primeiro, ultimo) \in Seq(S)
  BY <1>2
<1>4. QED
  BY <1>3 DEF Batch!Fatia, primeiro, ultimo

LEMMA LoadedTypes == BatchTypes => Batch!Carregado \in Batch!Estados
  BY DEF BatchTypes, Batch!Carregado, Batch!Zero, Batch!Estados

LEMMA ParkedOK ==
    BatchTypes => Batch!Parado \in Processes /\ ProcessOK(Batch!Parado) /\ Behind(Batch!Zero)
  BY DEF BatchTypes, Batch!Parado, Batch!Zero, Batch!Estados, Batch!Pcs, Batch!Fds, Batch!OutroTipo,
         Processes, ProcessOK, Holding, Saving, Behind

-----------------------------------------------------------------------------
(* A step of one process that leaves the files as they are.                 *)

\* What p must be after it.
MayBecome(p, q) ==
    /\ q \in Processes
    /\ ProcessOK(q)
    /\ q.pc \notin Saving
    /\ Behind(q.estado)
    /\ q.pc \in Holding =>
        \A n \in (q.estado[Head(q.fila)] + 1) .. q.maior :
            Wanted(Head(q.fila), n) => n \in q.notas \/ HasFile(Head(q.fila), n)
    /\ ~overlapped /\ q.pc \notin {"parado", "carregar"} =>
        \A c \in Batch!Cnpjs :
            \/ Batch!Carregado[c] <= q.estado[c]
            \/ (q.op = "reset" /\ c = Head(q.fila))

Becomes(p, q) ==
    /\ proc' = [proc EXCEPT ![p] = q]
    /\ UNCHANGED <<publicados, ultimo_nsu, tmp, xmls, excel>>

LEMMA ProcessStep ==
    ASSUME BatchInv, NEW p \in Processos, NEW q,
           MayBecome(p, q), Becomes(p, q),
           estreitos \subseteq estreitos', estreitos' \subseteq Meses,
           overlapped' \in BOOLEAN, overlapped => overlapped',
           ~overlapped' /\ proc[p].pc = "parado" =>
                \A r \in Processos \ {p} : proc[r].pc = "parado",
           q.pc # "parado" /\ q.op = "coleta" /\ ~q.dry /\ ~q.todas => q.mes \in estreitos'
    PROVE  BatchInv'
<1> USE DEF BatchInv, BatchTypes, MayBecome, Becomes
<1>1. /\ proc'[p] = q
      /\ \A r \in Processos \ {p} : proc'[r] = proc[r]
  OBVIOUS
<1>2. BatchTypes'
  OBVIOUS
<1>3. \A r \in Processos : ProcessOK(proc[r])'
  BY <1>1 DEF ProcessOK
<1>4. ASSUME NEW e, Behind(e)
      PROVE  Behind(e)'
  BY <1>4 DEF Behind, Wanted, HasFile
<1>5. SavedOK'
  <2>1. Behind(Batch!Carregado)'
    BY <1>4 DEF SavedOK, Batch!Carregado
  <2>2. \A r \in Processos : Behind(proc[r].estado)'
    BY <1>1, <1>4 DEF SavedOK
  <2>3. (\E r \in Processos : proc'[r].pc \in Saving) =>
            (\E r \in Processos : proc[r].pc \in Saving)
    BY <1>1
  <2>4. QED
    BY <2>1, <2>2, <2>3, <1>4 DEF SavedOK
<1>6. PendingOK'
  <2>1. ASSUME NEW c, NEW n
        PROVE  (Wanted(c, n)' => Wanted(c, n)) /\ (HasFile(c, n) => HasFile(c, n)')
    BY DEF Wanted, HasFile
  <2>2. ASSUME NEW r \in Processos, proc'[r].pc \in Holding,
               NEW n \in (proc'[r].estado[Client(r)'] + 1) .. proc'[r].maior,
               Wanted(Client(r), n)'
        PROVE  n \in proc'[r].notas \/ HasFile(Client(r), n)'
    <3>1. CASE r = p
      BY <1>1, <2>1, <2>2, <3>1 DEF Client
    <3>2. CASE r # p
      <4>1. proc'[r] = proc[r] /\ Client(r)' = Client(r)
        BY <1>1, <3>2 DEF Client
      <4> QED
        BY <2>1, <2>2, <4>1 DEF PendingOK
    <3> QED
      BY <3>1, <3>2
  <2> QED
    BY <2>2 DEF PendingOK
<1>7. NarrowOK'
  BY <1>1 DEF NarrowOK
<1>8. SerialOK'
  BY <1>1 DEF SerialOK, Client, Batch!Carregado, Saving
<1>9. QED
  BY <1>2, <1>3, <1>5, <1>6, <1>7, <1>8

\* A collection appears, of any list of clients.
LEMMA ColetarKeeps ==
    ASSUME BatchInv, NEW p \in Processos, NEW fila \in Seq(Batch!Cnpjs), NEW mes \in Meses,
           NEW todas \in BOOLEAN, NEW seco \in BOOLEAN,
           Batch!Coletar(p, fila, mes, todas, seco)
    PROVE  BatchInv'
<1> DEFINE q == [proc[p] EXCEPT !.pc = "carregar", !.mes = mes, !.todas = todas, !.dry = seco,
                                !.fila = fila]
<1>1. proc[p] = Batch!Parado /\ proc[p] \in Processes /\ Behind(Batch!Zero)
  BY ParkedOK DEF Batch!Coletar, ProcessOK, BatchInv, BatchTypes
<1>p. /\ proc[p].op = "coleta" /\ proc[p].estado = Batch!Zero /\ proc[p].notas = {}
      /\ proc[p].fd = "nenhum"
  BY <1>1 DEF Batch!Parado
<1>2. /\ q \in Processes
      /\ q.pc = "carregar" /\ q.op = "coleta" /\ q.mes = mes /\ q.todas = todas /\ q.dry = seco
      /\ q.estado = Batch!Zero /\ q.notas = {} /\ q.fd = "nenhum"
  BY <1>1, <1>p, BatchAssumption DEF Processes, Batch!Pcs
<1>3. Becomes(p, q)
  BY DEF Becomes, Batch!Coletar, Batch!Segue, Batch!disco
<1> HIDE DEF q
<1>4. MayBecome(p, q)
  BY <1>1, <1>2 DEF MayBecome, ProcessOK, Holding, Saving
<1>5. /\ estreitos \subseteq estreitos' /\ estreitos' \subseteq Meses
      /\ ~q.dry /\ ~q.todas => q.mes \in estreitos'
  BY <1>2 DEF Batch!Coletar, BatchInv, BatchTypes
<1>6. /\ overlapped' \in BOOLEAN
      /\ overlapped => overlapped'
      /\ ~overlapped' => \A r \in Processos \ {p} : proc[r].pc = "parado"
  BY DEF Batch!Coletar, Batch!Aparece, BatchInv, BatchTypes
<1>7. QED
  BY <1>2, <1>3, <1>4, <1>5, <1>6, ProcessStep

LEMMA ResetarKeeps ==
    ASSUME BatchInv, NEW p \in Processos, NEW c \in Batch!Cnpjs, Batch!Resetar(p, c)
    PROVE  BatchInv'
<1> DEFINE q == [proc[p] EXCEPT !.pc = "carregar", !.op = "reset", !.fila = <<c>>]
<1>1. proc[p] = Batch!Parado /\ proc[p] \in Processes /\ Behind(Batch!Zero)
  BY ParkedOK DEF Batch!Resetar, ProcessOK, BatchInv, BatchTypes
<1>p. proc[p].estado = Batch!Zero /\ proc[p].notas = {} /\ proc[p].fd = "nenhum"
  BY <1>1 DEF Batch!Parado
<1>s. <<c>> \in Seq(Batch!Cnpjs) /\ <<c>> # << >>
  OBVIOUS
<1>2. /\ q \in Processes
      /\ q.pc = "carregar" /\ q.op = "reset" /\ q.fila # << >>
      /\ q.estado = Batch!Zero /\ q.notas = {} /\ q.fd = "nenhum"
  BY <1>1, <1>p, <1>s DEF Processes, Batch!Pcs
<1>3. Becomes(p, q)
  BY DEF Becomes, Batch!Resetar, Batch!Segue, Batch!disco
<1> HIDE DEF q
<1>4. MayBecome(p, q)
  BY <1>1, <1>2 DEF MayBecome, ProcessOK, Holding, Saving
<1>5. estreitos \subseteq estreitos' /\ estreitos' \subseteq Meses
  BY DEF Batch!Resetar, BatchInv, BatchTypes
<1>6. /\ overlapped' \in BOOLEAN
      /\ overlapped => overlapped'
      /\ ~overlapped' => \A r \in Processos \ {p} : proc[r].pc = "parado"
  BY DEF Batch!Resetar, Batch!Aparece, BatchInv, BatchTypes
<1>7. QED
  BY <1>2, <1>3, <1>4, <1>5, <1>6, ProcessStep

LEMMA IniciaKeeps ==
    ASSUME BatchInv, NEW p \in Processos, Batch!Inicia(p)
    PROVE  BatchInv'
<1>1. PICK lista \in Batch!Listas, mes \in Meses, total \in 1 .. MaxLotes, todas \in BOOLEAN,
           seco \in BOOLEAN :
            \E lote \in 1 .. total :
                Batch!Coletar(p, Batch!Fatia(lista, lote, total), mes, todas, seco)
  BY DEF Batch!Inicia
<1>2. PICK lote \in 1 .. total :
            Batch!Coletar(p, Batch!Fatia(lista, lote, total), mes, todas, seco)
  BY <1>1
<1>3. lista \in Seq(Batch!Cnpjs)
  <2>1. CASE lista = Clientes
    BY <2>1, BatchAssumption
  <2>2. ASSUME NEW c \in Batch!Cnpjs, lista = <<c>> PROVE lista \in Seq(Batch!Cnpjs)
    BY <2>2
  <2>3. QED
    BY <2>1, <2>2 DEF Batch!Listas
<1>4. total \in Nat \ {0}
  BY BatchAssumption
<1> DEFINE fila == Batch!Fatia(lista, lote, total)
<1>5. fila \in Seq(Batch!Cnpjs)
  BY <1>3, <1>4, LotOfClients
<1>6. Batch!Coletar(p, fila, mes, todas, seco)
  BY <1>2
<1> HIDE DEF fila
<1>7. QED
  BY <1>5, <1>6, ColetarKeeps

\* A process that ends or is killed leaves nothing but the files.
LEMMA EndKeeps ==
    ASSUME BatchInv, NEW p \in Processos, proc[p].pc # "parado",
           Becomes(p, Batch!Parado), UNCHANGED <<overlapped, estreitos>>
    PROVE  BatchInv'
<1>1. MayBecome(p, Batch!Parado)
  BY ParkedOK DEF MayBecome, Batch!Parado, Holding, Saving, BatchInv
<1>2. QED
  BY <1>1, ProcessStep DEF Batch!Parado, BatchInv, BatchTypes

\* A process that goes on.
LEMMA GoOn ==
    ASSUME BatchInv, NEW p \in Processos, NEW q, proc[p].pc # "parado",
           MayBecome(p, q), Becomes(p, q), UNCHANGED <<overlapped, estreitos>>,
           q.op = proc[p].op, q.mes = proc[p].mes, q.todas = proc[p].todas, q.dry = proc[p].dry
    PROVE  BatchInv'
  BY ProcessStep DEF BatchInv, BatchTypes, NarrowOK

\* carregar_estado: the dict is that of the file, but for the client reset.
LEMMA CarregarKeeps ==
    ASSUME BatchInv, NEW p \in Processos, Batch!Carregar(p)
    PROVE  BatchInv'
<1> DEFINE c == Client(p)
           loaded == [proc[p] EXCEPT !.estado = Batch!Carregado]
           open == [loaded EXCEPT !.pc = "abrir"]
           reset == [loaded EXCEPT !.pc = "abrir", !.estado[c] = 0]
           next == [loaded EXCEPT !.pc = "clientes", !.fd = "nenhum"]
<1>1. /\ proc[p] \in Processes /\ proc[p].pc = "carregar" /\ ProcessOK(proc[p])
      /\ UNCHANGED <<overlapped, estreitos>>
  BY DEF Batch!Carregar, BatchInv, BatchTypes
<1>2. Batch!Carregado \in Batch!Estados /\ Behind(Batch!Carregado)
  BY LoadedTypes DEF SavedOK, BatchInv
<1>3. proc[p].notas = {} /\ proc[p].fd = "nenhum"
  BY <1>1 DEF ProcessOK, Holding
<1>4. \/ Becomes(p, open)
      \/ proc[p].op = "reset" /\ Becomes(p, reset)
      \/ proc[p].op = "coleta" /\ Becomes(p, next)
      \/ Becomes(p, Batch!Parado)
  BY <1>1 DEF Processes, Batch!Carregar, Batch!Depois, Client, Becomes, Batch!disco
<1>5. ASSUME NEW q, Becomes(p, q), q \in Processes, q.pc \in {"abrir", "clientes"},
             q.op = proc[p].op, q.mes = proc[p].mes, q.todas = proc[p].todas,
             q.dry = proc[p].dry, q.fila = proc[p].fila, q.notas = {}, q.fd = "nenhum",
             q.pc = "clientes" => q.op = "coleta",
             Behind(q.estado),
             \A d \in Batch!Cnpjs : q.estado[d] = Batch!Carregado[d]
                                    \/ (q.op = "reset" /\ d = c)
      PROVE  BatchInv'
  <2>1. ProcessOK(q)
    BY <1>1, <1>5 DEF ProcessOK, Holding
  <2>2. MayBecome(p, q)
    BY <1>2, <1>5, <2>1 DEF MayBecome, Saving, Holding, Client, Batch!Estados
  <2>3. QED
    BY <1>1, <1>5, <2>2, GoOn
<1>6. ASSUME Becomes(p, open) PROVE BatchInv'
  <2>1. /\ open \in Processes /\ open.pc = "abrir" /\ open.estado = Batch!Carregado
        /\ open.op = proc[p].op /\ open.mes = proc[p].mes /\ open.todas = proc[p].todas
        /\ open.dry = proc[p].dry /\ open.fila = proc[p].fila
        /\ open.notas = proc[p].notas /\ open.fd = proc[p].fd
    BY <1>1, <1>2 DEF Processes, Batch!Pcs
  <2> HIDE DEF open
  <2>2. QED
    BY <1>2, <1>3, <1>5, <1>6, <2>1
<1>7. ASSUME proc[p].op = "coleta", Becomes(p, next) PROVE BatchInv'
  <2>1. /\ next \in Processes /\ next.pc = "clientes" /\ next.estado = Batch!Carregado
        /\ next.op = proc[p].op /\ next.mes = proc[p].mes /\ next.todas = proc[p].todas
        /\ next.dry = proc[p].dry /\ next.fila = proc[p].fila
        /\ next.notas = proc[p].notas /\ next.fd = "nenhum"
    BY <1>1, <1>2 DEF Processes, Batch!Pcs, Batch!Fds
  <2> HIDE DEF next
  <2>2. QED
    BY <1>2, <1>3, <1>5, <1>7, <2>1
<1>8. ASSUME proc[p].op = "reset", Becomes(p, reset) PROVE BatchInv'
  <2> DEFINE e == [Batch!Carregado EXCEPT ![c] = 0]
  <2>1. /\ e \in Batch!Estados
        /\ \A d \in Batch!Cnpjs : e[d] = (IF d = c THEN 0 ELSE Batch!Carregado[d])
    BY <1>2 DEF Batch!Estados
  <2>2. publicados \in Batch!Estados
    BY DEF BatchInv, BatchTypes
  <2>3. /\ reset.pc = "abrir" /\ reset.estado = e
        /\ reset.op = proc[p].op /\ reset.mes = proc[p].mes /\ reset.todas = proc[p].todas
        /\ reset.dry = proc[p].dry /\ reset.fila = proc[p].fila
        /\ reset.notas = proc[p].notas /\ reset.fd = proc[p].fd
    BY <1>1 DEF Processes
  <2>4. reset \in Processes
    BY <1>1, <2>1 DEF Processes, Batch!Pcs
  <2> HIDE DEF e, reset
  <2>5. Behind(e)
    BY <1>2, <2>1, <2>2 DEF Behind, Batch!Estados
  <2>6. QED
    BY <1>3, <1>5, <1>8, <2>1, <2>3, <2>4, <2>5
<1>9. QED
  BY <1>1, <1>4, <1>6, <1>7, <1>8, EndKeeps

-----------------------------------------------------------------------------
(* The steps of a collection that leave the files as they are.              *)

\* atualizar_nsu keeps a dict behind the files when every note up to the new
\* NSU has its file.
LEMMA Updated ==
    ASSUME BatchTypes, NEW e \in Batch!Estados, NEW c \in Batch!Cnpjs, NEW v \in Nat,
           Behind(e), v <= publicados[c],
           \A n \in (e[c] + 1) .. v : Wanted(c, n) => HasFile(c, n)
    PROVE  /\ Batch!Atualizado(e, c, v) \in Batch!Estados
           /\ Behind(Batch!Atualizado(e, c, v))
           /\ \A d \in Batch!Cnpjs : e[d] <= Batch!Atualizado(e, c, v)[d]
<1> DEFINE new == [e EXCEPT ![c] = v]
<1>1. /\ new \in Batch!Estados
      /\ \A d \in Batch!Cnpjs : new[d] = (IF d = c THEN v ELSE e[d])
  BY DEF Batch!Estados
<1> HIDE DEF new
<1>2. ASSUME v > e[c] PROVE Behind(new)
  BY <1>1, <1>2 DEF Behind, Batch!Estados
<1>3. QED
  BY <1>1, <1>2 DEF Batch!Atualizado, Batch!Estados, new

LEMMA Reach ==
    ASSUME BatchTypes, NEW c \in Batch!Cnpjs, NEW de \in Nat, NEW ate \in Batch!Alcance(c, de)
    PROVE  ate \in Nat /\ ate <= publicados[c]
  BY BatchAssumption DEF Batch!Alcance, Batch!Menor, BatchTypes, Batch!Estados

\* A note that every run filters for is in the period of every run.
LEMMA WantedInPeriod ==
    ASSUME BatchInv, NEW p \in Processos, proc[p].pc = "clientes", ~proc[p].dry,
           NEW c \in Batch!Cnpjs, NEW ate \in Nat,
           NEW n \in (proc[p].estado[c] + 1) .. ate, Wanted(c, n)
    PROVE  n \in Batch!DoPeriodo(p, c, ate) /\ BatchFeed[c][n].xml
<1>1. proc[p].op = "coleta"
  BY DEF BatchInv, BatchTypes, ProcessOK, Processes, Saving
<1>2. ~proc[p].todas => proc[p].mes \in estreitos
  BY <1>1 DEF BatchInv, NarrowOK
<1>3. QED
  BY <1>2 DEF Batch!DoPeriodo, Wanted

\* The step of a collection to a state whose dict is the old one or ahead.
LEMMA CollectorGoesOn ==
    ASSUME BatchInv, NEW p \in Processos, proc[p].op = "coleta",
           proc[p].pc \in {"clientes"} \cup Holding,
           NEW q \in Processes, Becomes(p, q), UNCHANGED <<overlapped, estreitos>>,
           q.op = proc[p].op, q.mes = proc[p].mes, q.todas = proc[p].todas,
           q.dry = proc[p].dry, q.fd = proc[p].fd,
           q.pc \in {"clientes", "abrir"}, q.notas = {},
           Behind(q.estado), \A d \in Batch!Cnpjs : proc[p].estado[d] <= q.estado[d]
    PROVE  BatchInv'
<1>1. proc[p] \in Processes /\ ProcessOK(proc[p]) /\ Batch!Carregado \in Batch!Estados
  BY LoadedTypes DEF BatchInv, BatchTypes
<1>2. q.fd = "nenhum"
  BY <1>1 DEF ProcessOK, Holding
<1>3. ProcessOK(q)
  BY <1>1, <1>2 DEF ProcessOK, Holding
<1>4. ~overlapped => \A d \in Batch!Cnpjs : Batch!Carregado[d] <= proc[p].estado[d]
  BY <1>1 DEF BatchInv, SerialOK, Holding
<1>5. ~overlapped => \A d \in Batch!Cnpjs : Batch!Carregado[d] <= q.estado[d]
  BY <1>1, <1>4 DEF Processes, Batch!Estados
<1>6. MayBecome(p, q)
  BY <1>3, <1>5 DEF MayBecome, Saving, Holding
<1>7. QED
  BY <1>6, GoOn DEF Holding

LEMMA ZeroNotasKeeps ==
    ASSUME BatchInv, NEW p \in Processos, Batch!ZeroNotas(p)
    PROVE  BatchInv'
<1> DEFINE c == Client(p)
           e == proc[p].estado
<1>1. /\ proc[p] \in Processes /\ proc[p].pc = "clientes" /\ ProcessOK(proc[p])
      /\ proc[p].fila # << >> /\ BatchTypes /\ Behind(e)
      /\ UNCHANGED <<overlapped, estreitos>>
  BY DEF Batch!ZeroNotas, BatchInv, BatchTypes, SavedOK
<1>2. /\ proc[p].fila \in Seq(Batch!Cnpjs) /\ e \in Batch!Estados
      /\ proc[p].op = "coleta" /\ proc[p].notas = {}
  BY <1>1 DEF Processes, ProcessOK, Saving, Holding
<1>3. c \in Batch!Cnpjs /\ Tail(proc[p].fila) \in Seq(Batch!Cnpjs) /\ e[c] \in Nat
  BY <1>1, <1>2 DEF Client, Batch!Estados
<1>4. PICK ate \in Batch!Alcance(c, e[c]) :
        /\ Batch!DoPeriodo(p, c, ate) = {}
        /\ IF ~proc[p].dry /\ ate > e[c]
           THEN Becomes(p, [proc[p] EXCEPT !.pc = "abrir", !.fila = Tail(proc[p].fila),
                                           !.estado = Batch!Atualizado(e, c, ate)])
           ELSE Becomes(p, [proc[p] EXCEPT !.fila = Tail(proc[p].fila)])
  BY DEF Batch!ZeroNotas, Batch!Segue, Batch!disco, Becomes, Client
<1>5. ate \in Nat /\ ate <= publicados[c]
  BY <1>1, <1>3, Reach
<1>6. CASE ~proc[p].dry /\ ate > e[c]
  <2> DEFINE new == Batch!Atualizado(e, c, ate)
             q == [proc[p] EXCEPT !.pc = "abrir", !.fila = Tail(proc[p].fila), !.estado = new]
  <2>1. \A n \in (e[c] + 1) .. ate : ~Wanted(c, n)
    BY <1>1, <1>3, <1>4, <1>5, <1>6, WantedInPeriod
  <2>2. /\ new \in Batch!Estados /\ Behind(new)
        /\ \A d \in Batch!Cnpjs : e[d] <= new[d]
    BY <1>1, <1>2, <1>3, <1>5, <2>1, Updated
  <2>3. Becomes(p, q)
    BY <1>4, <1>6
  <2> HIDE DEF new
  <2>4. /\ q \in Processes /\ q.pc = "abrir" /\ q.estado = new /\ q.notas = proc[p].notas
        /\ q.op = proc[p].op /\ q.mes = proc[p].mes /\ q.todas = proc[p].todas
        /\ q.dry = proc[p].dry /\ q.fd = proc[p].fd
    BY <1>1, <1>3, <2>2 DEF Processes, Batch!Pcs
  <2> HIDE DEF q
  <2>5. QED
    BY <1>1, <1>2, <2>2, <2>3, <2>4, CollectorGoesOn
<1>7. CASE ~(~proc[p].dry /\ ate > e[c])
  <2> DEFINE q == [proc[p] EXCEPT !.fila = Tail(proc[p].fila)]
  <2>1. /\ q \in Processes /\ q.pc = "clientes" /\ q.estado = e /\ q.notas = proc[p].notas
        /\ q.op = proc[p].op /\ q.mes = proc[p].mes /\ q.todas = proc[p].todas
        /\ q.dry = proc[p].dry /\ q.fd = proc[p].fd
    BY <1>1, <1>3 DEF Processes, Batch!Pcs
  <2>2. Becomes(p, q)
    BY <1>4, <1>7
  <2>3. \A d \in Batch!Cnpjs : e[d] <= e[d]
    BY <1>2 DEF Batch!Estados
  <2> HIDE DEF q
  <2>4. QED
    BY <1>1, <1>2, <2>1, <2>2, <2>3, CollectorGoesOn
<1>8. QED
  BY <1>6, <1>7

\* The same when the dict does not change.
LEMMA CollectorSkips ==
    ASSUME BatchInv, NEW p \in Processos, proc[p].op = "coleta",
           proc[p].pc \in {"clientes"} \cup Holding,
           NEW q \in Processes, Becomes(p, q), UNCHANGED <<overlapped, estreitos>>,
           q.op = proc[p].op, q.mes = proc[p].mes, q.todas = proc[p].todas,
           q.dry = proc[p].dry, q.fd = proc[p].fd,
           q.pc = "clientes", q.notas = {}, q.estado = proc[p].estado
    PROVE  BatchInv'
<1>1. Behind(proc[p].estado) /\ proc[p] \in Processes
  BY DEF BatchInv, BatchTypes, SavedOK
<1>2. \A d \in Batch!Cnpjs : proc[p].estado[d] <= q.estado[d]
  BY <1>1 DEF Processes, Batch!Estados
<1>3. QED
  BY <1>1, <1>2, CollectorGoesOn

\* Documents arrive: those to write are behind what is published, and every
\* note wanted up to the new NSU is among them.
LEMMA BuscarNotasKeeps ==
    ASSUME BatchInv, NEW p \in Processos, Batch!BuscarNotas(p)
    PROVE  BatchInv'
<1> DEFINE c == Client(p)
           e == proc[p].estado
<1>1. /\ proc[p] \in Processes /\ proc[p].pc = "clientes" /\ ProcessOK(proc[p])
      /\ proc[p].fila # << >> /\ BatchTypes /\ Behind(e)
      /\ UNCHANGED <<overlapped, estreitos>>
  BY DEF Batch!BuscarNotas, BatchInv, BatchTypes, SavedOK
<1>2. /\ proc[p].fila \in Seq(Batch!Cnpjs) /\ e \in Batch!Estados
      /\ proc[p].op = "coleta" /\ proc[p].notas = {} /\ proc[p].fd = "nenhum"
  BY <1>1 DEF Processes, ProcessOK, Saving, Holding
<1>3. c \in Batch!Cnpjs /\ Tail(proc[p].fila) \in Seq(Batch!Cnpjs) /\ e[c] \in Nat
  BY <1>1, <1>2 DEF Client, Batch!Estados
<1>4. PICK ate \in Batch!Alcance(c, e[c]) :
        IF proc[p].dry
        THEN Becomes(p, [proc[p] EXCEPT !.fila = Tail(proc[p].fila)])
        ELSE Becomes(p, [proc[p] EXCEPT !.pc = "excel", !.maior = ate,
                             !.notas = {n \in Batch!DoPeriodo(p, c, ate) : BatchFeed[c][n].xml}])
  BY DEF Batch!BuscarNotas, Batch!Segue, Batch!disco, Becomes, Client
<1>5. ate \in Nat /\ ate <= publicados[c]
  BY <1>1, <1>3, Reach
<1>6. CASE ~proc[p].dry
  <2> DEFINE notas == {n \in Batch!DoPeriodo(p, c, ate) : BatchFeed[c][n].xml}
             q == [proc[p] EXCEPT !.pc = "excel", !.maior = ate, !.notas = notas]
  <2>1. notas \subseteq (e[c] + 1) .. ate
    BY DEF Batch!DoPeriodo
  <2>2. \A n \in (e[c] + 1) .. ate : Wanted(c, n) => n \in notas
    BY <1>1, <1>3, <1>5, <1>6, WantedInPeriod
  <2>3. Becomes(p, q)
    BY <1>4, <1>6
  <2>4. notas \in SUBSET Nat
    BY <1>3, <1>5, <2>1
  <2> HIDE DEF notas
  <2>5. /\ q \in Processes /\ q.pc = "excel" /\ q.maior = ate /\ q.notas = notas
        /\ q.estado = e /\ q.fila = proc[p].fila
        /\ q.op = proc[p].op /\ q.mes = proc[p].mes /\ q.todas = proc[p].todas
        /\ q.dry = proc[p].dry /\ q.fd = proc[p].fd
    BY <1>1, <1>5, <2>4 DEF Processes, Batch!Pcs
  <2> HIDE DEF q
  <2>6. ProcessOK(q)
    BY <1>1, <1>2, <1>5, <1>6, <2>1, <2>5 DEF ProcessOK, Holding, Client
  <2>7. ~overlapped => \A d \in Batch!Cnpjs : Batch!Carregado[d] <= e[d]
    BY <1>1, <1>2 DEF BatchInv, SerialOK
  <2>8. MayBecome(p, q)
    BY <1>1, <2>2, <2>5, <2>6, <2>7 DEF MayBecome, Saving, Client
  <2>9. QED
    BY <1>1, <2>3, <2>5, <2>8, GoOn
<1>7. CASE proc[p].dry
  <2> DEFINE q == [proc[p] EXCEPT !.fila = Tail(proc[p].fila)]
  <2>1. /\ q \in Processes /\ q.pc = "clientes" /\ q.estado = e /\ q.notas = {}
        /\ q.op = proc[p].op /\ q.mes = proc[p].mes /\ q.todas = proc[p].todas
        /\ q.dry = proc[p].dry /\ q.fd = proc[p].fd
    BY <1>1, <1>2, <1>3 DEF Processes, Batch!Pcs
  <2>2. Becomes(p, q)
    BY <1>4, <1>7
  <2> HIDE DEF q
  <2>3. QED
    BY <1>1, <1>2, <2>1, <2>2, CollectorSkips
<1>8. QED
  BY <1>6, <1>7

\* atualizar_nsu after the last file: what was pending has its file now.
LEMMA GuardarNsuKeeps ==
    ASSUME BatchInv, NEW p \in Processos, Batch!GuardarNsu(p)
    PROVE  BatchInv'
<1> DEFINE c == Client(p)
           e == proc[p].estado
           v == proc[p].maior
           new == Batch!Atualizado(e, c, v)
           q == [proc[p] EXCEPT !.pc = "abrir", !.fila = Tail(proc[p].fila), !.maior = 0,
                                !.estado = new]
<1>1. /\ proc[p] \in Processes /\ proc[p].pc = "abrir_xml" /\ ProcessOK(proc[p])
      /\ proc[p].notas = {} /\ BatchTypes /\ Behind(e) /\ Becomes(p, q)
      /\ UNCHANGED <<overlapped, estreitos>>
  BY DEF Batch!GuardarNsu, Batch!Segue, Batch!disco, Becomes, BatchInv, BatchTypes, SavedOK, Client
<1>2. /\ proc[p].fila \in Seq(Batch!Cnpjs) /\ proc[p].fila # << >> /\ e \in Batch!Estados
      /\ proc[p].op = "coleta" /\ v \in Nat /\ v <= publicados[c]
  BY <1>1 DEF Processes, ProcessOK, Saving, Holding, Client
<1>3. c \in Batch!Cnpjs /\ Tail(proc[p].fila) \in Seq(Batch!Cnpjs)
  BY <1>2 DEF Client
<1>4. \A n \in (e[c] + 1) .. v : Wanted(c, n) => HasFile(c, n)
  BY <1>1 DEF BatchInv, PendingOK, Holding
<1>5. /\ new \in Batch!Estados /\ Behind(new)
      /\ \A d \in Batch!Cnpjs : e[d] <= new[d]
  BY <1>1, <1>2, <1>3, <1>4, Updated
<1> HIDE DEF new
<1>6. /\ q \in Processes /\ q.pc = "abrir" /\ q.estado = new /\ q.notas = {}
      /\ q.op = proc[p].op /\ q.mes = proc[p].mes /\ q.todas = proc[p].todas
      /\ q.dry = proc[p].dry /\ q.fd = proc[p].fd
  BY <1>1, <1>3, <1>5 DEF Processes, Batch!Pcs
<1> HIDE DEF q
<1>7. QED
  BY <1>1, <1>2, <1>5, <1>6, CollectorGoesOn DEF Holding

\* A client that fails leaves its NSU where it was.
LEMMA ClienteFalhaKeeps ==
    ASSUME BatchInv, NEW p \in Processos, Batch!ClienteFalha(p)
    PROVE  BatchInv'
<1> DEFINE q == [proc[p] EXCEPT !.pc = "clientes", !.fila = Tail(proc[p].fila), !.notas = {},
                                !.maior = 0]
<1>1. /\ proc[p] \in Processes /\ ProcessOK(proc[p]) /\ Becomes(p, q)
      /\ UNCHANGED <<overlapped, estreitos>>
      /\ \/ proc[p].pc = "clientes" /\ proc[p].fila # << >>
         \/ proc[p].pc = "excel" \/ proc[p].notas # {}
  BY DEF Batch!ClienteFalha, Batch!Segue, Batch!disco, Becomes, BatchInv, BatchTypes
<1>2. proc[p].pc \in {"clientes"} \cup Holding /\ proc[p].fila # << >> /\ proc[p].op = "coleta"
  BY <1>1 DEF ProcessOK, Processes, Saving, Holding
<1>3. Tail(proc[p].fila) \in Seq(Batch!Cnpjs)
  BY <1>1, <1>2 DEF Processes
<1>4. /\ q \in Processes /\ q.pc = "clientes" /\ q.estado = proc[p].estado /\ q.notas = {}
      /\ q.op = proc[p].op /\ q.mes = proc[p].mes /\ q.todas = proc[p].todas
      /\ q.dry = proc[p].dry /\ q.fd = proc[p].fd
  BY <1>1, <1>3 DEF Processes, Batch!Pcs
<1> HIDE DEF q
<1>5. QED
  BY <1>1, <1>2, <1>4, CollectorSkips

LEMMA TerminaMorreKeep ==
    ASSUME BatchInv, NEW p \in Processos, Batch!Termina(p) \/ Batch!Morre(p)
    PROVE  BatchInv'
  BY EndKeeps DEF Batch!Termina, Batch!Morre, Batch!disco, Becomes

LEMMA PublishKeeps ==
    ASSUME BatchInv, NEW c \in Batch!Cnpjs, Batch!Publish(c)
    PROVE  BatchInv'
<1> USE DEF BatchInv, BatchTypes, Batch!Publish, Batch!disco
<1>1. /\ publicados' \in Batch!Estados
      /\ \A d \in Batch!Cnpjs : /\ publicados[d] \in Nat /\ publicados[d] <= publicados'[d]
                                /\ publicados'[d] <= Len(BatchFeed[d])
  BY BatchFeeds DEF Batch!Estados
<1>2. BatchTypes'
  BY <1>1
<1>3. \A p \in Processos : ProcessOK(proc[p])'
  <2>1. ASSUME NEW p \in Processos PROVE ProcessOK(proc[p])'
    <3>1. proc[p] \in Processes /\ ProcessOK(proc[p])
      OBVIOUS
    <3>2. proc[p].fila # << >> => Head(proc[p].fila) \in Batch!Cnpjs
      BY <3>1 DEF Processes
    <3>3. QED
      BY <1>1, <3>1, <3>2 DEF ProcessOK, Processes
  <2>2. QED
    BY <2>1
<1>4. ASSUME NEW e \in Batch!Estados, Behind(e)
      PROVE  Behind(e)'
  BY <1>1, <1>4 DEF Behind, Wanted, HasFile, Batch!Estados
<1>5. SavedOK'
  BY <1>4, LoadedTypes DEF SavedOK, Batch!Carregado, Processes
<1>6. PendingOK' /\ NarrowOK' /\ SerialOK'
  <2>1. PendingOK'
    BY Zenon DEF PendingOK, Client, Wanted, HasFile
  <2>2. NarrowOK'
    BY Zenon DEF NarrowOK
  <2>3. SerialOK'
    BY Zenon DEF SerialOK, Client, Batch!Carregado
  <2>4. QED
    BY <2>1, <2>2, <2>3
<1>7. QED
  BY <1>2, <1>3, <1>5, <1>6

-----------------------------------------------------------------------------
(* The steps that save the state.                                           *)

\* Another process may see the file it has open move, nothing else.
Untouched(r) ==
    \/ proc'[r] = proc[r]
    \/ /\ proc[r].fd # "nenhum"
       /\ \E f \in Batch!Fds \ {"nenhum"} : proc'[r] = [proc[r] EXCEPT !.fd = f]

LEMMA OthersUntouched ==
    ASSUME BatchInv, NEW p \in Processos, NEW para \in {"tmp", "arquivo", "perdido"},
           Batch!Larga(p, para)
    PROVE  /\ DOMAIN proc' = Processos
           /\ proc'[p] = Batch!Depois(proc[p])
           /\ \A r \in Processos \ {p} : Untouched(r)
<1>1. ASSUME NEW r \in Processos \ {p} PROVE Untouched(r)
  <2>1. proc[r] \in Processes
    BY DEF BatchInv, BatchTypes
  <2>2. proc'[r] = [proc[r] EXCEPT !.fd = Batch!Mudou(proc[r].fd, para)]
    BY DEF Batch!Larga
  <2>3. CASE proc[r].fd = "nenhum"
    <3>1. Batch!Mudou(proc[r].fd, para) = proc[r].fd
      BY <2>3 DEF Batch!Mudou
    <3>2. proc'[r] = proc[r]
      BY <2>1, <2>2, <3>1 DEF Processes
    <3>3. QED
      BY <3>2 DEF Untouched
  <2>4. CASE proc[r].fd # "nenhum"
    <3>1. Batch!Mudou(proc[r].fd, para) \in Batch!Fds \ {"nenhum"}
      BY <2>1, <2>4 DEF Batch!Mudou, Batch!Fds, Processes
    <3>2. QED
      BY <2>2, <2>4, <3>1 DEF Untouched
  <2>5. QED
    BY <2>3, <2>4
<1>2. QED
  BY <1>1 DEF Batch!Larga

\* What the saving process p must be, and what it may leave in the files.
LEMMA SaveStep ==
    ASSUME BatchInv, NEW p \in Processos, proc[p].pc \in {"abrir"} \cup Saving,
           UNCHANGED <<publicados, xmls, excel, overlapped, estreitos>>,
           ultimo_nsu' \in Batch!Estados \cup {Ausente, Vazio, Rasgado},
           tmp' \in Batch!Estados \cup {Ausente, Vazio, Rasgado},
           Behind(Batch!Carregado'),
           (\E r \in Processos : proc'[r].pc \in Saving) =>
                (tmp' \in Batch!Estados => Behind(tmp')),
           proc' = [r \in Processos |-> proc'[r]],
           \A r \in Processos \ {p} : Untouched(r),
           proc'[p] \in Processes, ProcessOK(proc'[p]), Behind(proc'[p].estado),
           proc'[p].pc \notin Holding,
           proc'[p].pc # "parado" =>
                /\ proc'[p].op = proc[p].op /\ proc'[p].mes = proc[p].mes
                /\ proc'[p].todas = proc[p].todas /\ proc'[p].dry = proc[p].dry,
           ~overlapped =>
                /\ proc'[p].pc \notin {"parado", "carregar"} =>
                    \A c \in Batch!Cnpjs :
                        \/ Batch!Carregado'[c] <= proc'[p].estado[c]
                        \/ (proc'[p].op = "reset" /\ c = Head(proc'[p].fila))
                /\ proc'[p].pc = "escrever" => proc'[p].fd = "tmp" /\ tmp' = Vazio
                /\ proc'[p].pc = "trocar" => tmp' = proc'[p].estado
    PROVE  BatchInv'
<1>1. BatchTypes /\ \A r \in Processos : proc[r] \in Processes /\ ProcessOK(proc[r])
  BY DEF BatchInv, BatchTypes
<1> DEFINE Same(r) ==
        /\ proc'[r] \in Processes
        /\ proc'[r].pc = proc[r].pc /\ proc'[r].op = proc[r].op /\ proc'[r].mes = proc[r].mes
        /\ proc'[r].todas = proc[r].todas /\ proc'[r].dry = proc[r].dry
        /\ proc'[r].fila = proc[r].fila /\ proc'[r].estado = proc[r].estado
        /\ proc'[r].notas = proc[r].notas /\ proc'[r].maior = proc[r].maior
        /\ proc'[r].fd # "nenhum" <=> proc[r].fd # "nenhum"
        /\ proc[r].fd = "nenhum" => proc'[r] = proc[r]
<1>2. ASSUME NEW r \in Processos \ {p}
      PROVE  Same(r)
  <2>1. proc[r] \in Processes
    BY <1>1
  <2>2. CASE proc'[r] = proc[r]
    BY <2>1, <2>2
  <2>3. ASSUME proc[r].fd # "nenhum", NEW f \in Batch!Fds \ {"nenhum"},
               proc'[r] = [proc[r] EXCEPT !.fd = f]
        PROVE  Same(r)
    BY <2>1, <2>3 DEF Processes
  <2>4. QED
    BY <2>2, <2>3 DEF Untouched
<1>3. BatchTypes'
  BY <1>1, <1>2 DEF BatchTypes
<1>4. \A r \in Processos : ProcessOK(proc[r])'
  <2>1. ASSUME NEW r \in Processos \ {p} PROVE ProcessOK(proc[r])'
    BY <1>1, <1>2 DEF ProcessOK
  <2>2. ProcessOK(proc[p])'
    BY DEF ProcessOK
  <2>3. QED
    BY <2>1, <2>2
<1>5. ASSUME NEW e PROVE Behind(e)' <=> Behind(e)
  BY DEF Behind, Wanted, HasFile
<1>6. SavedOK'
  <2>1. \A r \in Processos : Behind(proc[r].estado)'
    BY <1>2, <1>5 DEF BatchInv, SavedOK
  <2>2. QED
    BY <1>5, <2>1 DEF SavedOK
<1>7. PendingOK' /\ NarrowOK'
  <2>1. ASSUME NEW r \in Processos, proc'[r].pc \in Holding
        PROVE  /\ proc[r].pc \in Holding /\ proc'[r].estado = proc[r].estado
               /\ proc'[r].fila = proc[r].fila /\ proc'[r].notas = proc[r].notas
               /\ proc'[r].maior = proc[r].maior
    BY <1>2, <2>1
  <2>2. \A d, n : (Wanted(d, n)' <=> Wanted(d, n)) /\ (HasFile(d, n)' <=> HasFile(d, n))
    BY DEF Wanted, HasFile
  <2>3. PendingOK'
    BY <2>1, <2>2 DEF BatchInv, PendingOK, Client
  <2>4. ASSUME NEW r \in Processos \ {p}
        PROVE  /\ proc'[r].pc = proc[r].pc /\ proc'[r].op = proc[r].op
               /\ proc'[r].mes = proc[r].mes /\ proc'[r].todas = proc[r].todas
               /\ proc'[r].dry = proc[r].dry
    BY <1>2, <2>4
  <2>5. NarrowOK'
    <3>1. proc[p].pc # "parado"
      BY DEF Saving
    <3>2. QED
      BY <2>4, <3>1 DEF BatchInv, NarrowOK
  <2>6. QED
    BY <2>3, <2>5
<1>8. SerialOK'
  <2> SUFFICES ASSUME ~overlapped PROVE SerialOK'
    BY DEF SerialOK
  <2>1. \A r \in Processos \ {p} : proc'[r].pc = "parado"
    BY <1>2 DEF BatchInv, SerialOK, Saving
  <2>2. QED
    BY <2>1 DEF SerialOK, Client
<1>9. QED
  BY <1>3, <1>4, <1>6, <1>7, <1>8 DEF BatchInv


\* What a save must know of the process that saves.
LEMMA Saver ==
    ASSUME BatchInv, NEW p \in Processos, proc[p].pc \in {"abrir"} \cup Saving
    PROVE  /\ proc[p] \in Processes /\ ProcessOK(proc[p]) /\ proc[p].notas = {}
           /\ proc[p].estado \in Batch!Estados /\ Behind(proc[p].estado)
           /\ Behind(Batch!Carregado) /\ Behind(Batch!Zero)
           /\ proc[p].pc \in Saving /\ tmp \in Batch!Estados => Behind(tmp)
           /\ ultimo_nsu \in Batch!Estados \cup {Ausente, Vazio, Rasgado}
           /\ tmp \in Batch!Estados \cup {Ausente, Vazio, Rasgado}
           /\ ~overlapped => \A c \in Batch!Cnpjs :
                \/ Batch!Carregado[c] <= proc[p].estado[c]
                \/ (proc[p].op = "reset" /\ c = Client(p))
           /\ ~overlapped /\ proc[p].pc = "escrever" => proc[p].fd = "tmp" /\ tmp = Vazio
           /\ ~overlapped /\ proc[p].pc = "trocar" => tmp = proc[p].estado
<1>1. proc[p] \in Processes /\ ProcessOK(proc[p]) /\ BatchTypes
  BY DEF BatchInv, BatchTypes
<1>2. proc[p].notas = {} /\ proc[p].estado \in Batch!Estados
  BY <1>1 DEF ProcessOK, Processes, Saving, Holding
<1>3. QED
  BY <1>1, <1>2, ParkedOK DEF BatchInv, BatchTypes, SavedOK, SerialOK, Saving

LEMMA AbrirTmpKeeps ==
    ASSUME BatchInv, NEW p \in Processos, Batch!AbrirTmp(p)
    PROVE  BatchInv'
<1> DEFINE q == [proc[p] EXCEPT !.pc = "escrever", !.fd = "tmp"]
<1>1. /\ proc[p].pc = "abrir" /\ tmp' = Vazio /\ proc' = [proc EXCEPT ![p] = q]
      /\ UNCHANGED <<publicados, ultimo_nsu, xmls, excel, overlapped, estreitos>>
  BY DEF Batch!AbrirTmp, Batch!Segue
<1>2. /\ proc[p] \in Processes /\ ProcessOK(proc[p]) /\ proc[p].notas = {}
      /\ Behind(proc[p].estado) /\ Behind(Batch!Carregado)
      /\ ultimo_nsu \in Batch!Estados \cup {Ausente, Vazio, Rasgado}
      /\ ~overlapped => \A c \in Batch!Cnpjs :
            \/ Batch!Carregado[c] <= proc[p].estado[c]
            \/ (proc[p].op = "reset" /\ c = Client(p))
  BY <1>1, Saver
<1>3. /\ q \in Processes /\ q.pc = "escrever" /\ q.fd = "tmp" /\ q.estado = proc[p].estado
      /\ q.op = proc[p].op /\ q.mes = proc[p].mes /\ q.todas = proc[p].todas
      /\ q.dry = proc[p].dry /\ q.fila = proc[p].fila /\ q.notas = {}
  BY <1>2 DEF Processes, Batch!Pcs, Batch!Fds
<1> HIDE DEF q
<1>4. ProcessOK(q)
  BY <1>1, <1>2, <1>3 DEF ProcessOK, Saving, Holding
<1>5. /\ proc'[p] = q /\ proc' = [r \in Processos |-> proc'[r]]
      /\ \A r \in Processos \ {p} : Untouched(r)
  BY <1>1 DEF Untouched, BatchInv, BatchTypes
<1>6. Batch!Carregado' = Batch!Carregado
  BY <1>1 DEF Batch!Carregado
<1>7. Vazio \notin Batch!Estados
  BY BatchAssumption
<1>8. QED
  BY <1>1, <1>2, <1>3, <1>4, <1>5, <1>6, <1>7, SaveStep DEF Saving, Holding, Client

\* json.dump writes the dict of p, or leaves no JSON, wherever the file is.
LEMMA EscreverTmpKeeps ==
    ASSUME BatchInv, NEW p \in Processos, Batch!EscreverTmp(p)
    PROVE  BatchInv'
<1> DEFINE e == proc[p].estado
           q == [proc[p] EXCEPT !.pc = "trocar", !.fd = "nenhum"]
<1>1. /\ proc[p].pc = "escrever" /\ proc' = [proc EXCEPT ![p] = q]
      /\ UNCHANGED <<publicados, xmls, excel, overlapped, estreitos>>
      /\ \/ proc[p].fd = "tmp" /\ tmp' \in {e, Rasgado} /\ ultimo_nsu' = ultimo_nsu
            /\ (tmp = Vazio => tmp' = e)
         \/ proc[p].fd # "tmp" /\ ultimo_nsu' \in {e, Rasgado} /\ tmp' = tmp
         \/ proc[p].fd # "tmp" /\ ultimo_nsu' = ultimo_nsu /\ tmp' = tmp
  BY DEF Batch!EscreverTmp, Batch!Segue, Batch!Escrito
<1>2. /\ proc[p] \in Processes /\ ProcessOK(proc[p]) /\ proc[p].notas = {}
      /\ e \in Batch!Estados /\ Behind(e) /\ Behind(Batch!Carregado) /\ Behind(Batch!Zero)
      /\ tmp \in Batch!Estados => Behind(tmp)
      /\ ultimo_nsu \in Batch!Estados \cup {Ausente, Vazio, Rasgado}
      /\ tmp \in Batch!Estados \cup {Ausente, Vazio, Rasgado}
      /\ ~overlapped => \A c \in Batch!Cnpjs :
            \/ Batch!Carregado[c] <= e[c]
            \/ (proc[p].op = "reset" /\ c = Client(p))
      /\ ~overlapped => proc[p].fd = "tmp" /\ tmp = Vazio
  BY <1>1, Saver DEF Saving
<1>3. /\ q \in Processes /\ q.pc = "trocar" /\ q.fd = "nenhum" /\ q.estado = e
      /\ q.op = proc[p].op /\ q.mes = proc[p].mes /\ q.todas = proc[p].todas
      /\ q.dry = proc[p].dry /\ q.fila = proc[p].fila /\ q.notas = {}
  BY <1>2 DEF Processes, Batch!Pcs, Batch!Fds
<1> HIDE DEF q
<1>4. ProcessOK(q)
  BY <1>1, <1>2, <1>3 DEF ProcessOK, Saving, Holding
<1>5. /\ proc'[p] = q /\ proc' = [r \in Processos |-> proc'[r]]
      /\ \A r \in Processos \ {p} : Untouched(r)
  BY <1>1 DEF Untouched, BatchInv, BatchTypes
<1>6. Rasgado \notin Batch!Estados
  BY BatchAssumption
<1>7. /\ ultimo_nsu' \in Batch!Estados \cup {Ausente, Vazio, Rasgado}
      /\ tmp' \in Batch!Estados \cup {Ausente, Vazio, Rasgado}
      /\ tmp' \in Batch!Estados => Behind(tmp')
  BY <1>1, <1>2, <1>6
<1>8. /\ Batch!Carregado' \in {Batch!Carregado, e, Batch!Zero}
      /\ ~overlapped => Batch!Carregado' = Batch!Carregado /\ tmp' = e
  BY <1>1, <1>2 DEF Batch!Carregado
<1>9. Behind(Batch!Carregado')
  BY <1>2, <1>8
<1>10. QED
  BY <1>1, <1>2, <1>3, <1>4, <1>5, <1>7, <1>8, <1>9, SaveStep DEF Saving, Holding, Client

\* Once the state is saved, or not: the next client, or the end of a reset.
LEMMA AfterSave ==
    ASSUME BatchInv, NEW p \in Processos, proc[p].pc \in {"abrir"} \cup Saving
    PROVE  LET q == Batch!Depois(proc[p])
           IN  /\ q \in Processes /\ ProcessOK(q) /\ Behind(q.estado)
               /\ q.pc \in {"parado", "clientes"}
               /\ q.pc # "parado" =>
                    /\ q.op = "coleta" /\ q.op = proc[p].op /\ q.mes = proc[p].mes
                    /\ q.todas = proc[p].todas /\ q.dry = proc[p].dry
                    /\ q.estado = proc[p].estado
<1>1. /\ proc[p] \in Processes /\ ProcessOK(proc[p]) /\ proc[p].notas = {}
      /\ Behind(proc[p].estado) /\ Behind(Batch!Zero) /\ BatchTypes
  BY Saver DEF BatchInv
<1>2. CASE proc[p].op = "coleta"
  <2> DEFINE q == [proc[p] EXCEPT !.pc = "clientes", !.fd = "nenhum"]
  <2>1. /\ q \in Processes /\ q.pc = "clientes" /\ q.fd = "nenhum" /\ q.estado = proc[p].estado
        /\ q.op = proc[p].op /\ q.mes = proc[p].mes /\ q.todas = proc[p].todas
        /\ q.dry = proc[p].dry /\ q.notas = {}
    BY <1>1 DEF Processes, Batch!Pcs, Batch!Fds
  <2>2. Batch!Depois(proc[p]) = q
    BY <1>2 DEF Batch!Depois
  <2> HIDE DEF q
  <2>3. ProcessOK(q)
    BY <1>2, <2>1 DEF ProcessOK, Holding
  <2>4. QED
    BY <1>1, <1>2, <2>1, <2>2, <2>3
<1>3. CASE proc[p].op # "coleta"
  <2>1. Batch!Depois(proc[p]) = Batch!Parado
    BY <1>3 DEF Batch!Depois
  <2>2. Batch!Parado.pc = "parado" /\ Batch!Parado.estado = Batch!Zero
    BY DEF Batch!Parado
  <2>3. QED
    BY <1>1, <2>1, <2>2, ParkedOK
<1>4. QED
  BY <1>2, <1>3

\* os.replace: p has a dict behind the files and so has the ".tmp", whoever
\* wrote it.
LEMMA TrocarKeeps ==
    ASSUME BatchInv, NEW p \in Processos, Batch!Trocar(p)
    PROVE  BatchInv'
<1> DEFINE e == proc[p].estado
           q == Batch!Depois(proc[p])
<1>1. /\ proc[p].pc = "trocar"
      /\ UNCHANGED <<publicados, xmls, excel, overlapped, estreitos>>
      /\ \/ Batch!Larga(p, "tmp") /\ tmp = Ausente /\ ultimo_nsu' = ultimo_nsu /\ tmp' = tmp
         \/ Batch!Larga(p, "arquivo") /\ tmp # Ausente /\ ultimo_nsu' = tmp /\ tmp' = Ausente
  BY DEF Batch!Trocar
<1>2. /\ Behind(Batch!Carregado) /\ Behind(Batch!Zero)
      /\ e \in Batch!Estados
      /\ tmp \in Batch!Estados => Behind(tmp)
      /\ ultimo_nsu \in Batch!Estados \cup {Ausente, Vazio, Rasgado}
      /\ tmp \in Batch!Estados \cup {Ausente, Vazio, Rasgado}
      /\ ~overlapped => tmp = e
  BY <1>1, Saver DEF Saving
<1>3. DOMAIN proc' = Processos /\ proc'[p] = q /\ \A r \in Processos \ {p} : Untouched(r)
  BY <1>1, OthersUntouched
<1>4. proc' = [r \in Processos |-> proc'[r]]
  BY <1>1 DEF Batch!Larga
<1>5. Ausente \notin Batch!Estados /\ Vazio \notin Batch!Estados /\ Rasgado \notin Batch!Estados
  BY BatchAssumption
<1>6. /\ ultimo_nsu' \in Batch!Estados \cup {Ausente, Vazio, Rasgado}
      /\ tmp' \in Batch!Estados \cup {Ausente, Vazio, Rasgado}
      /\ tmp' \in Batch!Estados => Behind(tmp')
  BY <1>1, <1>2, <1>5
<1>7. /\ Behind(Batch!Carregado')
      /\ ~overlapped => Batch!Carregado' = e
  BY <1>1, <1>2, <1>5 DEF Batch!Carregado
<1>8. /\ q \in Processes /\ ProcessOK(q) /\ Behind(q.estado) /\ q.pc \in {"parado", "clientes"}
      /\ q.pc # "parado" =>
            /\ q.op = proc[p].op /\ q.mes = proc[p].mes /\ q.todas = proc[p].todas
            /\ q.dry = proc[p].dry /\ q.estado = e
  BY <1>1, AfterSave DEF Saving
<1> HIDE DEF q
<1>9. ~overlapped /\ q.pc # "parado" =>
        \A c \in Batch!Cnpjs : Batch!Carregado'[c] <= q.estado[c]
  BY <1>2, <1>7, <1>8 DEF Batch!Estados
<1>10. QED
  BY <1>1, <1>3, <1>4, <1>6, <1>7, <1>8, <1>9, SaveStep DEF Saving, Holding

\* except OSError: the ".tmp" is gone, the state file is not touched.
LEMMA SalvarFalhaKeeps ==
    ASSUME BatchInv, NEW p \in Processos, Batch!SalvarFalha(p)
    PROVE  BatchInv'
<1> DEFINE e == proc[p].estado
           q == Batch!Depois(proc[p])
<1>1. /\ proc[p].pc \in {"abrir"} \cup Saving /\ Batch!Larga(p, "perdido") /\ tmp' = Ausente
      /\ UNCHANGED <<publicados, ultimo_nsu, xmls, excel, overlapped, estreitos>>
  BY DEF Batch!SalvarFalha, Saving
<1>2. /\ Behind(Batch!Carregado)
      /\ ultimo_nsu \in Batch!Estados \cup {Ausente, Vazio, Rasgado}
      /\ ~overlapped => \A c \in Batch!Cnpjs :
            \/ Batch!Carregado[c] <= e[c]
            \/ (proc[p].op = "reset" /\ c = Client(p))
  BY <1>1, Saver
<1>3. DOMAIN proc' = Processos /\ proc'[p] = q /\ \A r \in Processos \ {p} : Untouched(r)
  BY <1>1, OthersUntouched
<1>4. proc' = [r \in Processos |-> proc'[r]]
  BY <1>1 DEF Batch!Larga
<1>5. Ausente \notin Batch!Estados
  BY BatchAssumption
<1>6. Batch!Carregado' = Batch!Carregado
  BY <1>1 DEF Batch!Carregado
<1>7. /\ q \in Processes /\ ProcessOK(q) /\ Behind(q.estado) /\ q.pc \in {"parado", "clientes"}
      /\ q.pc # "parado" =>
            /\ q.op = "coleta" /\ q.op = proc[p].op /\ q.mes = proc[p].mes
            /\ q.todas = proc[p].todas /\ q.dry = proc[p].dry /\ q.estado = e
  BY <1>1, AfterSave
<1> HIDE DEF q
<1>8. QED
  BY <1>1, <1>2, <1>3, <1>4, <1>5, <1>6, <1>7, SaveStep DEF Saving, Holding

-----------------------------------------------------------------------------
(* The steps that write a client's files.                                   *)

\* A file is lost, if at all, by a process that is alone and has its note
\* still to write; a note leaves the list once it has its file.
LEMMA WriteStep ==
    ASSUME BatchInv, NEW p \in Processos, NEW q \in Processes,
           proc[p].pc \in Holding, q.pc \in Holding,
           proc' = [proc EXCEPT ![p] = q],
           UNCHANGED <<publicados, ultimo_nsu, tmp, overlapped, estreitos>>,
           excel' \in [Batch!Cnpjs -> [Meses -> SUBSET Nat]],
           DOMAIN xmls' = Batch!Cnpjs,
           \A c \in Batch!Cnpjs :
               xmls'[c] \in [1..Len(BatchFeed[c]) -> {"ausente", "aberto", "inteiro"}],
           ProcessOK(q), q.op = proc[p].op, q.mes = proc[p].mes, q.todas = proc[p].todas,
           q.dry = proc[p].dry, q.fila = proc[p].fila, q.estado = proc[p].estado,
           q.maior = proc[p].maior,
           \A c \in Batch!Cnpjs : \A n \in 1 .. publicados[c] :
               HasFile(c, n) => HasFile(c, n)' \/ (~overlapped /\ c = Client(p) /\ n \in q.notas),
           \A n \in proc[p].notas : n \in q.notas \/ HasFile(Client(p), n)'
    PROVE  BatchInv'
<1> DEFINE Alone == ~overlapped
           c == Client(p)
           e == proc[p].estado
<1>1. BatchTypes /\ \A r \in Processos : proc[r] \in Processes /\ ProcessOK(proc[r])
  BY DEF BatchInv, BatchTypes
<1>2. /\ proc'[p] = q
      /\ \A r \in Processos \ {p} : proc'[r] = proc[r]
  BY <1>1 DEF BatchTypes
<1>3. BatchTypes'
  BY <1>1, <1>2 DEF BatchTypes
<1>4. \A r \in Processos : ProcessOK(proc[r])'
  BY <1>1, <1>2 DEF ProcessOK
<1>5. /\ c \in Batch!Cnpjs /\ e \in Batch!Estados /\ publicados \in Batch!Estados
      /\ proc[p].fila # << >> /\ proc[p].maior <= publicados[c]
      /\ q.notas \subseteq (e[c] + 1) .. q.maior
      /\ proc[p].op = "coleta" /\ proc[p].maior \in Nat
  <2>1. proc[p] \in Processes /\ ProcessOK(proc[p])
    BY <1>1
  <2>2. proc[p].fila \in Seq(Batch!Cnpjs) /\ proc[p].fila # << >>
    BY <2>1 DEF ProcessOK, Processes
  <2>3. c \in Batch!Cnpjs
    BY <2>2 DEF Client
  <2>4. QED
    BY <1>1, <2>1, <2>2, <2>3 DEF ProcessOK, Processes, Client, Holding, Saving, BatchTypes
<1>6. Alone => \A r \in Processos \ {p} : proc[r].pc = "parado" /\ proc[r].estado = Batch!Zero
  <2>1. Alone => \A r \in Processos \ {p} : proc[r].pc = "parado"
    BY DEF BatchInv, SerialOK, Holding
  <2>2. \A r \in Processos : proc[r].pc = "parado" => proc[r] = Batch!Parado
    BY <1>1 DEF ProcessOK
  <2>3. Batch!Parado.estado = Batch!Zero
    BY DEF Batch!Parado
  <2>4. QED
    BY <2>1, <2>2, <2>3
<1>7. Alone => \A d \in Batch!Cnpjs : Batch!Carregado[d] <= e[d]
  BY <1>5 DEF BatchInv, SerialOK, Holding
<1>8. ASSUME NEW s \in Batch!Estados, Behind(s), Alone => s[c] <= e[c]
      PROVE  Behind(s)'
  <2>1. ASSUME NEW d \in Batch!Cnpjs, NEW n \in 1 .. s[d], Wanted(d, n)
        PROVE  HasFile(d, n)'
    <3>1. HasFile(d, n) /\ n \in 1 .. publicados[d]
      BY <1>5, <1>8, <2>1 DEF Behind, Batch!Estados
    <3>2. ~(Alone /\ d = c /\ n \in q.notas)
      BY <1>5, <1>8 DEF Batch!Estados
    <3>3. QED
      BY <3>1, <3>2
  <2>2. QED
    BY <1>8, <2>1 DEF Behind, Wanted
<1>9. SavedOK'
  <2>1. Behind(Batch!Carregado)'
    <3>1. Batch!Carregado' = Batch!Carregado
      BY DEF Batch!Carregado
    <3>2. Behind(Batch!Carregado) /\ Batch!Carregado \in Batch!Estados
      BY <1>1, LoadedTypes DEF BatchInv, SavedOK
    <3>3. QED
      BY <1>5, <1>7, <1>8, <3>1, <3>2
  <2>2. \A r \in Processos : Behind(proc[r].estado)'
    <3>1. ASSUME NEW r \in Processos PROVE Behind(proc[r].estado)'
      <4>1. proc'[r].estado = proc[r].estado /\ proc[r].estado \in Batch!Estados
        BY <1>1, <1>2 DEF Processes
      <4>2. Behind(proc[r].estado)
        BY DEF BatchInv, SavedOK
      <4>3. Alone => proc[r].estado[c] <= e[c]
        <5>1. CASE r = p
          BY <1>5, <5>1 DEF Batch!Estados
        <5>2. CASE r # p
          BY <1>5, <1>6, <5>2 DEF Batch!Zero, Batch!Estados
        <5>3. QED
          BY <5>1, <5>2
      <4>4. QED
        BY <1>8, <4>1, <4>2, <4>3
    <3>2. QED
      BY <3>1
  <2>3. (\E r \in Processos : proc'[r].pc \in Saving) =>
            (tmp' \in Batch!Estados => Behind(tmp)')
    <3>1. ASSUME NEW r \in Processos, proc'[r].pc \in Saving, tmp \in Batch!Estados
          PROVE  Behind(tmp)'
      <4>1. r # p /\ proc[r].pc \in Saving
        BY <1>2, <3>1 DEF Holding, Saving
      <4>2. ~Alone
        BY <1>6, <4>1 DEF Saving
      <4>3. Behind(tmp)
        BY <3>1, <4>1 DEF BatchInv, SavedOK
      <4>4. QED
        BY <1>8, <3>1, <4>2, <4>3
    <3>2. QED
      BY <3>1
  <2>4. QED
    BY <2>1, <2>2, <2>3 DEF SavedOK
<1>10. PendingOK'
  <2>1. ASSUME NEW r \in Processos, proc'[r].pc \in Holding,
               NEW n \in (proc'[r].estado[Client(r)'] + 1) .. proc'[r].maior,
               Wanted(Client(r), n)'
        PROVE  n \in proc'[r].notas \/ HasFile(Client(r), n)'
    <3>1. /\ Client(r)' = Client(r) /\ proc'[r].estado = proc[r].estado
          /\ proc'[r].maior = proc[r].maior /\ proc[r].pc \in Holding
      BY <1>2, <2>1 DEF Client
    <3>2. Wanted(Client(r), n)
      BY <2>1, <3>1 DEF Wanted
    <3>3. n \in proc[r].notas \/ HasFile(Client(r), n)
      BY <2>1, <3>1, <3>2 DEF BatchInv, PendingOK
    <3>4. n \in 1 .. publicados[Client(r)] /\ Client(r) \in Batch!Cnpjs
      <4>1. proc[r] \in Processes /\ ProcessOK(proc[r])
        BY <1>1
      <4>2. proc[r].fila \in Seq(Batch!Cnpjs) /\ proc[r].fila # << >>
        BY <3>1, <4>1 DEF ProcessOK, Processes
      <4>3. Client(r) \in Batch!Cnpjs
        BY <4>2 DEF Client
      <4>4. /\ proc[r].maior <= publicados[Client(r)] /\ proc[r].maior \in Nat
            /\ proc[r].estado \in Batch!Estados
        BY <3>1, <4>1 DEF ProcessOK, Processes, Client
      <4>5. QED
        BY <1>5, <2>1, <3>1, <4>3, <4>4 DEF Batch!Estados
    <3>5. CASE r = p
      BY <1>2, <3>1, <3>3, <3>4, <3>5
    <3>6. CASE r # p
      <4>1. ~Alone /\ proc'[r] = proc[r]
        BY <1>2, <1>6, <3>1, <3>6 DEF Holding
      <4>2. QED
        BY <3>1, <3>3, <3>4, <4>1
    <3>7. QED
      BY <3>5, <3>6
  <2>2. QED
    BY <2>1 DEF PendingOK
<1>11. NarrowOK'
  BY <1>2 DEF BatchInv, NarrowOK, Holding
<1>12. SerialOK'
  BY <1>2, <1>5, <1>6, <1>7 DEF SerialOK, Holding, Batch!Carregado
<1>13. QED
  BY <1>3, <1>4, <1>9, <1>10, <1>11, <1>12 DEF BatchInv

\* What a process that writes files knows.
LEMMA Writer ==
    ASSUME BatchInv, NEW p \in Processos, proc[p].pc \in Holding
    PROVE  /\ proc[p] \in Processes /\ ProcessOK(proc[p]) /\ proc[p].fd = "nenhum"
           /\ Client(p) \in Batch!Cnpjs
           /\ proc[p].notas \subseteq 1 .. Len(BatchFeed[Client(p)])
<1>1. proc[p] \in Processes /\ ProcessOK(proc[p]) /\ BatchTypes
  BY DEF BatchInv, BatchTypes
<1>2. proc[p].fila \in Seq(Batch!Cnpjs) /\ proc[p].fila # << >> /\ proc[p].fd = "nenhum"
  BY <1>1 DEF ProcessOK, Processes, Holding
<1>3. Client(p) \in Batch!Cnpjs
  BY <1>2 DEF Client
<1>4. /\ proc[p].notas \subseteq (proc[p].estado[Client(p)] + 1) .. proc[p].maior
      /\ proc[p].maior <= publicados[Client(p)]
  BY <1>1 DEF ProcessOK, Client
<1>5. /\ publicados[Client(p)] \in Nat /\ publicados[Client(p)] <= Len(BatchFeed[Client(p)])
      /\ Len(BatchFeed[Client(p)]) \in Nat
      /\ proc[p].estado[Client(p)] \in Nat /\ proc[p].maior \in Nat
  BY <1>1, <1>3, BatchFeeds DEF BatchTypes, Processes, Batch!Estados
<1>6. proc[p].notas \subseteq 1 .. Len(BatchFeed[Client(p)])
  BY <1>4, <1>5
<1> QED
  BY <1>1, <1>2, <1>3, <1>6

LEMMA GravarExcelKeeps ==
    ASSUME BatchInv, NEW p \in Processos, Batch!GravarExcel(p)
    PROVE  BatchInv'
<1> DEFINE q == [proc[p] EXCEPT !.pc = "abrir_xml"]
<1>1. /\ proc[p].pc = "excel" /\ proc' = [proc EXCEPT ![p] = q]
      /\ excel' = [excel EXCEPT ![Client(p)][proc[p].mes] = proc[p].notas]
      /\ UNCHANGED <<publicados, ultimo_nsu, tmp, xmls, overlapped, estreitos>>
  BY DEF Batch!GravarExcel, Batch!Segue, Client
<1>2. /\ proc[p] \in Processes /\ ProcessOK(proc[p]) /\ proc[p].fd = "nenhum" /\ BatchTypes
      /\ Client(p) \in Batch!Cnpjs
  BY <1>1, Writer DEF Holding, BatchInv
<1>3. /\ q \in Processes /\ q.pc = "abrir_xml" /\ q.op = proc[p].op /\ q.mes = proc[p].mes
      /\ q.todas = proc[p].todas /\ q.dry = proc[p].dry /\ q.fila = proc[p].fila
      /\ q.estado = proc[p].estado /\ q.notas = proc[p].notas /\ q.maior = proc[p].maior
      /\ q.fd = "nenhum"
  BY <1>2 DEF Processes, Batch!Pcs
<1> HIDE DEF q
<1>4. ProcessOK(q)
  <2>1. ProcessOK(proc[p]) /\ proc[p].pc = "excel"
    BY <1>1, <1>2
  <2>2. /\ ~q.dry /\ q.fila # << >> /\ q.op = "coleta"
        /\ q.maior <= publicados[Head(q.fila)]
        /\ q.notas \subseteq (q.estado[Head(q.fila)] + 1) .. q.maior
    BY <1>2, <1>3, <2>1 DEF ProcessOK, Holding, Saving, Processes
  <2>3. QED
    BY <1>3, <2>2 DEF ProcessOK, Holding
<1>5. excel' \in [Batch!Cnpjs -> [Meses -> SUBSET Nat]]
  BY <1>1, <1>2 DEF BatchTypes, Processes
<1>6. \A c \in Batch!Cnpjs : \A n \in 1 .. publicados[c] : HasFile(c, n) => HasFile(c, n)'
  BY <1>1 DEF HasFile
<1>7. QED
  BY <1>1, <1>2, <1>3, <1>4, <1>5, <1>6, WriteStep DEF Holding, BatchTypes

\* What opening or writing the file of a note does to the files.
Wrote(c, n, v) ==
    /\ DOMAIN xmls' = Batch!Cnpjs
    /\ \A d \in Batch!Cnpjs :
          /\ xmls'[d] \in [1..Len(BatchFeed[d]) -> {"ausente", "aberto", "inteiro"}]
          /\ \A k \in 1 .. Len(BatchFeed[d]) :
                xmls'[d][k] = IF d = c /\ k = n THEN v ELSE xmls[d][k]

LEMMA OneFile ==
    ASSUME BatchTypes, NEW c \in Batch!Cnpjs, NEW n \in 1 .. Len(BatchFeed[c]),
           NEW v \in {"aberto", "inteiro"}, xmls' = [xmls EXCEPT ![c][n] = v]
    PROVE  Wrote(c, n, v)
<1> USE DEF Wrote
<1>1. DOMAIN xmls = Batch!Cnpjs /\ \A d \in Batch!Cnpjs :
          xmls[d] \in [1..Len(BatchFeed[d]) -> {"ausente", "aberto", "inteiro"}]
  BY DEF BatchTypes
<1>2. xmls'[c] = [xmls[c] EXCEPT ![n] = v]
  BY <1>1
<1>3. \A d \in Batch!Cnpjs \ {c} : xmls'[d] = xmls[d]
  BY <1>1
<1>4. QED
  BY <1>1, <1>2, <1>3

LEMMA LeastOf ==
    ASSUME NEW S \in SUBSET Nat, S # {}
    PROVE  \E n \in S : \A k \in S : n <= k
<1> DEFINE R == OpToRel(<, Nat)
<1>1. IsWellFoundedOn(R, Nat)
  BY NatLessThanWellFounded
<1>2. R = {ss \in Nat \X Nat : ss[1] < ss[2]}
  BY Zenon DEF OpToRel
<1> HIDE DEF R
<1>3. PICK n \in S : \A k \in S : ~ (<<k, n>> \in R)
  BY <1>1, WFMin
<1>4. ASSUME NEW k \in S PROVE n <= k
  <2>1. k < n => <<k, n>> \in R
    BY <1>2
  <2>2. n \in Nat /\ k \in Nat
    OBVIOUS
  <2>3. QED
    BY <1>3, <2>1, <2>2
<1>5. QED
  BY <1>4

\* Opening the first file may lose it, its note is still to write; the other
\* step writes it and takes the note off the list.
LEMMA AbrirXmlKeeps ==
    ASSUME BatchInv, NEW p \in Processos, Batch!AbrirXml(p)
    PROVE  BatchInv'
<1> DEFINE c == Client(p)
           n == Batch!Primeira(proc[p].notas)
           q == [proc[p] EXCEPT !.pc = "xml"]
<1>1. /\ proc[p].pc = "abrir_xml" /\ proc[p].notas # {} /\ proc' = [proc EXCEPT ![p] = q]
      /\ xmls' = [xmls EXCEPT ![c][n] = "aberto"]
      /\ UNCHANGED <<publicados, ultimo_nsu, tmp, excel, overlapped, estreitos>>
  BY DEF Batch!AbrirXml, Batch!Segue, Client
<1>2. /\ proc[p] \in Processes /\ ProcessOK(proc[p]) /\ proc[p].fd = "nenhum" /\ BatchTypes
      /\ c \in Batch!Cnpjs /\ proc[p].notas \subseteq 1 .. Len(BatchFeed[c])
  BY <1>1, Writer DEF Holding, BatchInv
<1>3. n \in proc[p].notas
  BY <1>1, <1>2, LeastOf DEF Batch!Primeira, Processes
<1> HIDE DEF n
<1>4. /\ q \in Processes /\ q.pc = "xml" /\ q.op = proc[p].op /\ q.mes = proc[p].mes
      /\ q.todas = proc[p].todas /\ q.dry = proc[p].dry /\ q.fila = proc[p].fila
      /\ q.estado = proc[p].estado /\ q.notas = proc[p].notas /\ q.maior = proc[p].maior
      /\ q.fd = "nenhum"
  BY <1>2 DEF Processes, Batch!Pcs
<1> HIDE DEF q
<1>5. ProcessOK(q)
  BY <1>1, <1>2, <1>4 DEF ProcessOK, Holding, Saving
<1>6. Wrote(c, n, "aberto")
  <2>1. /\ BatchTypes /\ c \in Batch!Cnpjs /\ n \in 1 .. Len(BatchFeed[c])
        /\ xmls' = [xmls EXCEPT ![c][n] = "aberto"] /\ "aberto" \in {"aberto", "inteiro"}
    BY <1>1, <1>2, <1>3
  <2> HIDE DEF c
  <2> QED
    BY ONLY <2>1, OneFile, Zenon
<1> USE DEF Wrote
<1>7. \A d \in Batch!Cnpjs : \A k \in 1 .. publicados[d] : k \in 1 .. Len(BatchFeed[d])
  BY <1>2, BatchFeeds DEF BatchTypes, Batch!Estados
<1>8. \A d \in Batch!Cnpjs : \A k \in 1 .. publicados[d] :
        HasFile(d, k) => HasFile(d, k)' \/ (~overlapped /\ d = c /\ k \in q.notas)
  BY <1>1, <1>2, <1>3, <1>4, <1>6, <1>7 DEF HasFile, BatchTypes
<1>9. excel' \in [Batch!Cnpjs -> [Meses -> SUBSET Nat]]
  BY <1>1, <1>2 DEF BatchTypes
<1>10. proc[p].pc \in Holding /\ q.pc \in Holding
  BY <1>1, <1>4 DEF Holding
<1>11. QED
  BY <1>1, <1>4, <1>5, <1>6, <1>8, <1>9, <1>10, WriteStep

LEMMA GravarXmlKeeps ==
    ASSUME BatchInv, NEW p \in Processos, Batch!GravarXml(p)
    PROVE  BatchInv'
<1> DEFINE c == Client(p)
           n == Batch!Primeira(proc[p].notas)
           q == [proc[p] EXCEPT !.pc = "abrir_xml", !.notas = proc[p].notas \ {n}]
<1>1. /\ proc[p].pc = "xml" /\ proc' = [proc EXCEPT ![p] = q]
      /\ xmls' = [xmls EXCEPT ![c][n] = "inteiro"]
      /\ UNCHANGED <<publicados, ultimo_nsu, tmp, excel, overlapped, estreitos>>
  BY DEF Batch!GravarXml, Batch!Segue, Client
<1>2. /\ proc[p] \in Processes /\ ProcessOK(proc[p]) /\ proc[p].fd = "nenhum" /\ BatchTypes
      /\ c \in Batch!Cnpjs /\ proc[p].notas \subseteq 1 .. Len(BatchFeed[c])
      /\ proc[p].notas # {}
  BY <1>1, Writer DEF Holding, BatchInv, ProcessOK
<1>3. n \in proc[p].notas
  BY <1>1, <1>2, LeastOf DEF Batch!Primeira, Processes
<1> HIDE DEF n
<1>4. /\ q \in Processes /\ q.pc = "abrir_xml" /\ q.op = proc[p].op /\ q.mes = proc[p].mes
      /\ q.todas = proc[p].todas /\ q.dry = proc[p].dry /\ q.fila = proc[p].fila
      /\ q.estado = proc[p].estado /\ q.notas = proc[p].notas \ {n}
      /\ q.maior = proc[p].maior /\ q.fd = "nenhum"
  BY <1>2 DEF Processes, Batch!Pcs
<1> HIDE DEF q
<1>5. ProcessOK(q)
  BY <1>1, <1>2, <1>4 DEF ProcessOK, Holding, Saving
<1>6. Wrote(c, n, "inteiro")
  <2>1. /\ BatchTypes /\ c \in Batch!Cnpjs /\ n \in 1 .. Len(BatchFeed[c])
        /\ xmls' = [xmls EXCEPT ![c][n] = "inteiro"] /\ "inteiro" \in {"aberto", "inteiro"}
    BY <1>1, <1>2, <1>3
  <2> HIDE DEF c
  <2> QED
    BY ONLY <2>1, OneFile, Zenon
<1> USE DEF Wrote
<1>7. \A d \in Batch!Cnpjs : \A k \in 1 .. publicados[d] : k \in 1 .. Len(BatchFeed[d])
  BY <1>2, BatchFeeds DEF BatchTypes, Batch!Estados
<1>8. \A d \in Batch!Cnpjs : \A k \in 1 .. publicados[d] : HasFile(d, k) => HasFile(d, k)'
  BY <1>1, <1>6, <1>7 DEF HasFile
<1>9. Client(p)' = c
  BY <1>1, <1>2, <1>4 DEF Client, BatchTypes
<1>10. excel' \in [Batch!Cnpjs -> [Meses -> SUBSET Nat]]
  BY <1>1, <1>2 DEF BatchTypes
<1>11. proc[p].pc \in Holding /\ q.pc \in Holding
  BY <1>1, <1>4 DEF Holding
<1>12. ASSUME NEW k \in proc[p].notas, k \notin q.notas
       PROVE  HasFile(Client(p), k)'
  <2>1. k = n
    BY <1>4, <1>12
  <2>2. xmls'[c][k] = "inteiro"
    BY <1>2, <1>6, <2>1
  <2>3. QED
    BY <1>9, <2>2 DEF HasFile
<1>13. QED
  BY <1>1, <1>4, <1>5, <1>6, <1>8, <1>10, <1>11, <1>12, WriteStep

-----------------------------------------------------------------------------
(* The theorems.                                                            *)

LEMMA BatchInvInit == Batch!Init => BatchInv
<1> SUFFICES ASSUME Batch!Init PROVE BatchInv
  OBVIOUS
<1> USE DEF Batch!Init
<1>1. BatchTypes
  <2>1. Batch!Zero \in Batch!Estados
    BY DEF Batch!Zero, Batch!Estados
  <2>2. Batch!Parado \in Processes
    BY <2>1 DEF Batch!Parado, Processes, Batch!Pcs, Batch!Fds, Batch!OutroTipo
  <2>3. \A c \in Batch!Cnpjs : publicados[c] <= Len(BatchFeed[c])
    BY BatchFeeds DEF Batch!Zero
  <2>4. QED
    BY <2>1, <2>2, <2>3 DEF BatchTypes
<1>2. /\ ProcessOK(Batch!Parado) /\ Behind(Batch!Zero)
      /\ \A p \in Processos : proc[p] = Batch!Parado
      /\ Batch!Carregado = Batch!Zero
      /\ Batch!Parado.pc = "parado" /\ Batch!Parado.estado = Batch!Zero
  BY <1>1, ParkedOK DEF Batch!Carregado, Batch!Parado
<1>3. SavedOK /\ PendingOK /\ NarrowOK /\ SerialOK
  BY <1>2 DEF SavedOK, PendingOK, NarrowOK, SerialOK, Saving, Holding
<1>4. QED
  BY <1>1, <1>2, <1>3 DEF BatchInv

LEMMA BatchInvStutters == BatchInv /\ UNCHANGED batchVars => BatchInv'
<1> SUFFICES ASSUME BatchInv, UNCHANGED batchVars PROVE BatchInv'
  OBVIOUS
<1> USE DEF batchVars
<1>1. BatchTypes' /\ \A p \in Processos : ProcessOK(proc[p])'
  BY DEF BatchInv, BatchTypes, ProcessOK
<1>2. SavedOK' /\ PendingOK'
  <2>1. SavedOK'
    BY Zenon DEF BatchInv, SavedOK, Behind, Wanted, HasFile, Batch!Carregado
  <2>2. PendingOK'
    BY DEF BatchInv, PendingOK, Client, Wanted, HasFile
  <2>3. QED
    BY <2>1, <2>2
<1>3. NarrowOK' /\ SerialOK'
  <2>1. NarrowOK'
    BY Zenon DEF BatchInv, NarrowOK
  <2>2. SerialOK'
    BY Zenon DEF BatchInv, SerialOK, Client, Batch!Carregado
  <2>3. QED
    BY <2>1, <2>2
<1>4. QED
  BY <1>1, <1>2, <1>3 DEF BatchInv

LEMMA BatchInvStep == BatchInv /\ [CollectorsNext]_allVars => BatchInv'
<1> SUFFICES ASSUME BatchInv, [CollectorsNext]_allVars PROVE BatchInv'
  OBVIOUS
<1>1. CASE UNCHANGED batchVars
  BY <1>1, BatchInvStutters
<1>2. CASE Batch!Next
  BY <1>2, PublishKeeps, IniciaKeeps, ResetarKeeps, CarregarKeeps, AbrirTmpKeeps,
     EscreverTmpKeeps, TrocarKeeps, SalvarFalhaKeeps, BuscarNotasKeeps, ZeroNotasKeeps,
     GravarExcelKeeps, AbrirXmlKeeps, GravarXmlKeeps, GuardarNsuKeeps, ClienteFalhaKeeps,
     TerminaMorreKeep
     DEF Batch!Next, Batch!Avanca, Batch!Salvar
<1>3. QED
  BY <1>1, <1>2 DEF CollectorsNext, ServiceOnly, allVars

\* The invariant above holds in every state.
THEOREM BatchInvariant == CollectorsSpec => []BatchInv
<1>1. CollectorsInit => BatchInv
  BY BatchInvInit DEF CollectorsInit
<1>2. QED
  BY <1>1, BatchInvStep, PTL DEF CollectorsSpec

\* A behaviour of an installation is, for the service, one of Collection, so
\* that what is proved of Collection holds of it (the command line moves
\* nothing of the service).
LEMMA CollectorsRefineCollection == CollectorsSpec => Spec
<1>1. [CollectorsNext]_allVars => [Next]_vars
  BY DEF CollectorsNext, BatchOnly, allVars
<1>2. CollectorsInit => Init
  BY DEF CollectorsInit
<1>3. QED
  BY <1>1, <1>2, PTL DEF CollectorsSpec, Spec

\* The types of both collectors (batch_processor.py, nsu_tracker.py, jobs.py).
THEOREM CollectorsTypes == CollectorsSpec => []CollectorsTypeOK
<1>1. BatchInv => Batch!TypeOK
  <2> SUFFICES ASSUME BatchInv PROVE Batch!TypeOK
    OBVIOUS
  <2>1. \A p \in Processos :
            /\ proc[p].pc \in Batch!Pcs /\ proc[p].fd \in Batch!Fds
            /\ proc[p].estado \in Batch!Estados
            /\ proc[p].fd # "nenhum" <=> proc[p].pc = "escrever"
            /\ proc[p].pc \in {"excel", "abrir_xml", "xml"} =>
                  ~proc[p].dry /\ proc[p].maior <= publicados[Head(proc[p].fila)]
    BY DEF BatchInv, BatchTypes, Processes, ProcessOK, Holding
  <2>2. \A c \in Batch!Cnpjs : BatchFeed[c] \in Seq(Batch!Documentos)
    BY BatchAssumption
  <2>3. QED
    BY <2>1, <2>2 DEF Batch!TypeOK, BatchInv, BatchTypes
<1>2. QED
  BY <1>1, BatchInvariant, CollectorsRefineCollection, CollectionTypes, PTL DEF CollectorsTypeOK

\* A note behind a saved NSU, or one about to be saved, has its file: whatever
\* dies, fails, is reset or overlaps (batch_processor.py:385-398).
THEOREM SavedNsuStaysBehindFiles == CollectorsSpec => []BatchSavedNsuBehindFiles
<1>1. BatchInv => BatchSavedNsuBehindFiles
  <2> SUFFICES ASSUME BatchInv,
                      NEW c \in Batch!Cnpjs, NEW v \in Batch!Dados(c), NEW n \in 1 .. v,
                      Wanted(c, n)
               PROVE  HasFile(c, n)
    BY DEF BatchSavedNsuBehindFiles, Batch!SavedNsuBehindFiles, Wanted, HasFile
  <2>1. CASE v = Batch!Carregado[c]
    BY <2>1 DEF BatchInv, SavedOK, Behind
  <2>2. ASSUME NEW p \in Processos, v = proc[p].estado[c] PROVE HasFile(c, n)
    BY <2>2 DEF BatchInv, SavedOK, Behind
  <2>3. QED
    BY <2>1, <2>2 DEF Batch!Dados
<1>2. QED
  BY <1>1, BatchInvariant, PTL

\* Without overlaps the state file goes back by a reset only: os.replace, the
\* one step that changes it then, puts the dict of the process there, which
\* is the file's or ahead of it (nsu_tracker.py:107-130).
THEOREM SerialNsuMonotone == CollectorsSpec => BatchSerialNsuNeverRegresses
<1> DEFINE Kept == \A c \in Batch!Cnpjs :
        Batch!Carregado'[c] < Batch!Carregado[c] => overlapped' \/ Batch!Resetando(c)
<1>1. ASSUME BatchInv, NEW p \in Processos, Batch!EscreverTmp(p) PROVE Kept
  <2>1. ~overlapped => Batch!Carregado' = Batch!Carregado
    BY <1>1 DEF Batch!EscreverTmp, Batch!Carregado, BatchInv, SerialOK
  <2>2. Batch!Carregado \in Batch!Estados
    BY <1>1, LoadedTypes DEF BatchInv
  <2>3. QED
    BY <1>1, <2>1, <2>2 DEF Batch!EscreverTmp, Batch!Estados
<1>2. ASSUME BatchInv, NEW p \in Processos, Batch!Trocar(p) PROVE Kept
  <2>1. /\ proc[p] \in Processes /\ proc[p].pc = "trocar" /\ overlapped' = overlapped
        /\ Batch!Carregado \in Batch!Estados
    BY <1>2, LoadedTypes DEF Batch!Trocar, BatchInv, BatchTypes
  <2>2. /\ proc[p].estado \in Batch!Estados
        /\ proc[p].estado \notin {Ausente, Vazio, Rasgado}
    BY <2>1, BatchAssumption DEF Processes
  <2>3. ~overlapped =>
            /\ Batch!Carregado' = proc[p].estado
            /\ \A c \in Batch!Cnpjs : \/ Batch!Carregado[c] <= proc[p].estado[c]
                                      \/ (proc[p].op = "reset" /\ c = Head(proc[p].fila))
    BY <1>2, <2>1, <2>2 DEF Batch!Trocar, Batch!Carregado, BatchInv, SerialOK, Client
  <2>4. QED
    BY <2>1, <2>2, <2>3 DEF Batch!Resetando, Batch!Estados
<1>3. BatchInv /\ [CollectorsNext]_allVars => [Kept]_Batch!vars
  <2> SUFFICES ASSUME BatchInv, [CollectorsNext]_allVars PROVE Kept \/ UNCHANGED Batch!vars
    OBVIOUS
  <2>1. CASE UNCHANGED batchVars
    BY <2>1 DEF batchVars, Batch!vars, Batch!disco
  <2>2. CASE ultimo_nsu' = ultimo_nsu
    <3>1. Batch!Carregado' = Batch!Carregado /\ Batch!Carregado \in Batch!Estados
      BY <2>2, LoadedTypes DEF Batch!Carregado, BatchInv
    <3>2. QED
      BY <3>1 DEF Batch!Estados
  <2>3. CASE Batch!Next
    <3>1. ASSUME NEW c \in Batch!Cnpjs, Batch!Publish(c) PROVE ultimo_nsu' = ultimo_nsu
      BY <3>1 DEF Batch!Publish, Batch!disco
    <3>2. ASSUME NEW p \in Processos,
                 Batch!Inicia(p) \/ \E c \in Batch!Cnpjs : Batch!Resetar(p, c)
          PROVE  ultimo_nsu' = ultimo_nsu
      BY <3>2 DEF Batch!Inicia, Batch!Coletar, Batch!Resetar, Batch!disco
    <3>3. ASSUME NEW p \in Processos,
                 Batch!Carregar(p) \/ Batch!AbrirTmp(p) \/ Batch!SalvarFalha(p)
                 \/ Batch!Termina(p) \/ Batch!ClienteFalha(p) \/ Batch!Morre(p)
          PROVE  ultimo_nsu' = ultimo_nsu
      BY <3>3 DEF Batch!Carregar, Batch!AbrirTmp, Batch!SalvarFalha, Batch!Termina,
                  Batch!ClienteFalha, Batch!Morre, Batch!disco
    <3>4. ASSUME NEW p \in Processos, Batch!BuscarNotas(p) \/ Batch!ZeroNotas(p)
          PROVE  ultimo_nsu' = ultimo_nsu
      BY <3>4 DEF Batch!BuscarNotas, Batch!ZeroNotas, Batch!disco
    <3>5. ASSUME NEW p \in Processos,
                 Batch!GravarExcel(p) \/ Batch!AbrirXml(p) \/ Batch!GravarXml(p)
                 \/ Batch!GuardarNsu(p)
          PROVE  ultimo_nsu' = ultimo_nsu
      BY <3>5 DEF Batch!GravarExcel, Batch!AbrirXml, Batch!GravarXml, Batch!GuardarNsu,
                  Batch!disco
    <3>6. QED
      BY <1>1, <1>2, <2>2, <2>3, <3>1, <3>2, <3>3, <3>4, <3>5
         DEF Batch!Next, Batch!Avanca, Batch!Salvar
  <2>4. QED
    BY <2>1, <2>3 DEF CollectorsNext, ServiceOnly, allVars
<1>4. QED
  BY <1>3, BatchInvariant, PTL
     DEF CollectorsSpec, BatchSerialNsuNeverRegresses, Batch!SerialNsuNeverRegresses
=============================================================================
