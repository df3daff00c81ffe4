----------------------------- MODULE Collection -----------------------------
(***************************************************************************)
(* What run_execution does between "running" and its final status          *)
(* (worker_core/jobs.py, collector.py, fetcher.py, db_nsu.py): it reads    *)
(* the company's NSU cursor, pages through the documents the portal has    *)
(* published after it, stores one row per NFS-e, decides the status from   *)
(* what it counted, and moves the cursor.                                  *)
(*                                                                         *)
(* Runs of one company may overlap (see Executions), runs of two companies *)
(* of one tenant share the rows (unique (tenant_id, chave_nfse)), and every*)
(* step can fail or be the last one.  An NSU is the position of a document *)
(* in the portal's feed of the company.                                    *)
(***************************************************************************)
EXTENDS Naturals, Sequences

CONSTANTS
    Companies,
    Runs,           \* worker processes, each running one execution at a time
    Docs,           \* documents, by access key (chave)
    Feed,           \* the documents each company receives, in NSU order
    Emitter,        \* the company that issued a document, or None
    Kind,           \* what a document is, see Kinds
    PageSize,       \* documents per answer of GET /DFe/{nsu}
    Faults,         \* the faults this instance may suffer
    None

\* "nfse": an NFS-e; "keyless": an NFS-e that neither the envelope nor the
\* XML gives an access key; "event": any other TipoDocumento.
Kinds == {"nfse", "keyless", "event"}

\* "portal":   a request fails after its retries (an exception);
\* "rejected": the portal answers REJEICAO;
\* "parse":    a document arrives damaged;
\* "storage":  the upload of an XML raises StorageError;
\* "database": the INSERT of a row raises;
\* "timeout":  RQ's job timeout is raised inside the progress callback;
\* "death":    the process is killed, or a write of the row's status fails;
\* "dry":      runs may be dry runs.
AllFaults ==
    {"portal", "rejected", "parse", "storage", "database", "timeout", "death", "dry"}

\* The columns of a row that matter: whose execution inserted it, did the
\* document parse (status ok or skipped), does it have an xml_object_key.
ItemRow == [company : Companies, parsed : BOOLEAN, xml : BOOLEAN]

ASSUME CollectionAssumption ==
    /\ Feed \in [Companies -> Seq(Docs)]
    /\ Emitter \in [Docs -> Companies \cup {None}]
    /\ Kind \in [Docs -> Kinds]
    /\ PageSize \in Nat \ {0}
    /\ Faults \subseteq AllFaults
    /\ None \notin Companies \cup ItemRow

VARIABLES
    published,      \* how much of its feed the portal has published
    cursor,         \* companies.last_nsu
    item,           \* the execution_items row of each access key, or None
    pc,             \* where each run is in run_execution
    company,        \* the company of its execution
    dry,            \* is it a dry run?
    nsuFrom,        \* summary.nsu_from
    nsuTo,          \* summary.nsu_to: the pages so far end here
    nsuDone,        \* documents up to here went through the callback
    itemsOk,        \* documents counted in items_ok
    itemsFail,      \* documents counted in items_fail
    lostXml,        \* storage_errors > 0
    result          \* executions.status of the run's last execution

shared == <<published, cursor, item>>
counters == <<itemsOk, itemsFail, lostXml>>
window == <<nsuFrom, nsuTo, nsuDone>>
vars == <<shared, pc, company, dry, window, counters, result>>

Results == {"none", "running", "succeeded", "partial", "failed"}

TypeOK ==
    /\ published \in [Companies -> Nat]
    /\ cursor \in [Companies -> Nat]
    /\ item \in [Docs -> ItemRow \cup {None}]
    /\ pc \in [Runs -> {"idle", "page", "items", "advance"}]
    /\ company \in [Runs -> Companies \cup {None}]
    /\ dry \in [Runs -> BOOLEAN]
    /\ nsuFrom \in [Runs -> Nat] /\ nsuTo \in [Runs -> Nat] /\ nsuDone \in [Runs -> Nat]
    /\ itemsOk \in [Runs -> SUBSET Nat] /\ itemsFail \in [Runs -> SUBSET Nat]
    /\ lostXml \in [Runs -> BOOLEAN]
    /\ result \in [Runs -> Results]
    /\ \A r \in Runs : pc[r] # "idle" => company[r] \in Companies

Init ==
    /\ published = [c \in Companies |-> 0]
    /\ cursor = [c \in Companies |-> 0]
    /\ item = [d \in Docs |-> None]
    /\ pc = [r \in Runs |-> "idle"]
    /\ company = [r \in Runs |-> None]
    /\ dry = [r \in Runs |-> FALSE]
    /\ nsuFrom = [r \in Runs |-> 0]
    /\ nsuTo = [r \in Runs |-> 0]
    /\ nsuDone = [r \in Runs |-> 0]
    /\ itemsOk = [r \in Runs |-> {}]
    /\ itemsFail = [r \in Runs |-> {}]
    /\ lostXml = [r \in Runs |-> FALSE]
    /\ result = [r \in Runs |-> "none"]

\* A choice of the environment that is TRUE unless fault f makes it FALSE.
Works(f) == IF f \in Faults THEN BOOLEAN ELSE {TRUE}

-----------------------------------------------------------------------------
Publish(c) ==
    /\ published[c] < Len(Feed[c])
    /\ published' = [published EXCEPT ![c] = @ + 1]
    /\ UNCHANGED <<cursor, item, pc, company, dry, window, counters, result>>

\* A start that asks for the NSU after the cursor.
StartAfterCursor(r, c) ==
    /\ pc[r] = "idle"
    /\ pc' = [pc EXCEPT ![r] = "page"]
    /\ company' = [company EXCEPT ![r] = c]
    /\ \E isReal \in Works("dry") : dry' = [dry EXCEPT ![r] = ~isReal]
    /\ LET first == IF cursor[c] < published[c] THEN cursor[c] + 1 ELSE cursor[c]
       IN  /\ nsuFrom' = [nsuFrom EXCEPT ![r] = first]
           /\ nsuTo' = [nsuTo EXCEPT ![r] = first]
           /\ nsuDone' = [nsuDone EXCEPT ![r] = first]
    /\ itemsOk' = [itemsOk EXCEPT ![r] = {}]
    /\ itemsFail' = [itemsFail EXCEPT ![r] = {}]
    /\ lostXml' = [lostXml EXCEPT ![r] = FALSE]
    /\ result' = [result EXCEPT ![r] = "running"]
    /\ UNCHANGED shared

\* _mark_running, and nsu_source.get before the first page.
Start(r, c) ==
    /\ pc[r] = "idle"
    /\ pc' = [pc EXCEPT ![r] = "page"]
    /\ company' = [company EXCEPT ![r] = c]
    /\ \E isReal \in Works("dry") : dry' = [dry EXCEPT ![r] = ~isReal]
    /\ nsuFrom' = [nsuFrom EXCEPT ![r] = cursor[c]]
    /\ nsuTo' = [nsuTo EXCEPT ![r] = cursor[c]]
    /\ nsuDone' = [nsuDone EXCEPT ![r] = cursor[c]]
    /\ itemsOk' = [itemsOk EXCEPT ![r] = {}]
    /\ itemsFail' = [itemsFail EXCEPT ![r] = {}]
    /\ lostXml' = [lostXml EXCEPT ![r] = FALSE]
    /\ result' = [result EXCEPT ![r] = "running"]
    /\ UNCHANGED shared

\* A page with documents: the highest NSU of the page is asked for next.
FetchPage(r) ==
    /\ pc[r] = "page"
    /\ nsuTo[r] < published[company[r]]
    /\ nsuTo' = [nsuTo EXCEPT ![r] =
                    IF published[company[r]] < @ + PageSize
                    THEN published[company[r]] ELSE @ + PageSize]
    /\ UNCHANGED <<shared, pc, company, dry, nsuFrom, nsuDone, counters, result>>

\* persist_nsu=True: the fetcher moves the cursor as soon as paging ends.
LastPagePersists(r) ==
    /\ pc[r] = "page"
    /\ nsuTo[r] = published[company[r]] \/ "rejected" \in Faults
    /\ pc' = [pc EXCEPT ![r] = "items"]
    /\ cursor' = [cursor EXCEPT ![company[r]] = IF @ < nsuTo[r] THEN nsuTo[r] ELSE @]
    /\ UNCHANGED <<published, item, company, dry, window, counters, result>>

\* An empty page, or REJEICAO: paging stops with the documents it has.
LastPage(r) ==
    /\ pc[r] = "page"
    /\ nsuTo[r] = published[company[r]] \/ "rejected" \in Faults
    /\ pc' = [pc EXCEPT ![r] = "items"]
    /\ UNCHANGED <<shared, company, dry, window, counters, result>>

\* The portal fails while paging, or the job timeout is raised outside the
\* callback: fetch_nfse raises and the execution is marked failed.
FetchFails(r) ==
    /\ \/ "portal" \in Faults /\ pc[r] = "page"
       \/ "timeout" \in Faults /\ pc[r] \in {"page", "items"}
    /\ pc' = [pc EXCEPT ![r] = "idle"]
    /\ result' = [result EXCEPT ![r] = "failed"]
    /\ UNCHANGED <<shared, company, dry, window, counters>>

-----------------------------------------------------------------------------
\* The document the progress callback of r sees next, and its NSU.
NextNsu(r) == nsuDone[r] + 1
NextDoc(r) == Feed[company[r]][NextNsu(r)]

Delivering(r) == pc[r] = "items" /\ nsuDone[r] < nsuTo[r]

Delivered(r) == nsuDone' = [nsuDone EXCEPT ![r] = @ + 1]

\* items_ok counts notes the company issued, items_fail what did not parse.
Count(r, parsed) ==
    LET issued == Emitter[NextDoc(r)] = company[r]
    IN  /\ itemsOk' = [itemsOk EXCEPT ![r] =
                          IF parsed /\ issued THEN @ \cup {NextNsu(r)} ELSE @]
        /\ itemsFail' = [itemsFail EXCEPT ![r] =
                          IF parsed THEN @ ELSE @ \cup {NextNsu(r)}]

\* A document that is not an NFS-e is filtered out.
SkipDocument(r) ==
    /\ Delivering(r)
    /\ Kind[NextDoc(r)] = "event"
    /\ Delivered(r)
    /\ UNCHANGED <<shared, pc, company, dry, nsuFrom, nsuTo, counters, result>>

\* A dry run counts and stores nothing.
DryItem(r) ==
    /\ Delivering(r)
    /\ dry[r]
    /\ Kind[NextDoc(r)] # "event"
    /\ \E intact \in Works("parse") : Count(r, intact /\ Kind[NextDoc(r)] = "nfse")
    /\ Delivered(r)
    /\ UNCHANGED <<shared, pc, company, dry, nsuFrom, nsuTo, lostXml, result>>

\* A callback that counts a note although its row was there already.
StoreItemCountsDuplicates(r) ==
    /\ Delivering(r)
    /\ ~dry[r]
    /\ Kind[NextDoc(r)] = "nfse"
    /\ \E intact \in Works("parse"), uploaded \in Works("storage") :
        /\ lostXml' = [lostXml EXCEPT ![r] = @ \/ ~uploaded]
        /\ item' = [item EXCEPT ![NextDoc(r)] =
               IF @ # None THEN @
               ELSE [company |-> company[r], parsed |-> intact, xml |-> uploaded]]
        /\ Count(r, intact)
    /\ Delivered(r)
    /\ UNCHANGED <<published, cursor, pc, company, dry, nsuFrom, nsuTo, result>>

\* The XML is uploaded and the row inserted, unless a row has the key
\* already; a failed upload leaves xml_object_key NULL.
StoreItem(r) ==
    /\ Delivering(r)
    /\ ~dry[r]
    /\ Kind[NextDoc(r)] = "nfse"
    /\ \E intact \in Works("parse"), uploaded \in Works("storage") :
        /\ lostXml' = [lostXml EXCEPT ![r] = @ \/ ~uploaded]
        /\ IF item[NextDoc(r)] = None
           THEN /\ item' = [item EXCEPT ![NextDoc(r)] =
                       [company |-> company[r], parsed |-> intact, xml |-> uploaded]]
                /\ Count(r, intact)
           ELSE UNCHANGED <<item, itemsOk, itemsFail>>
    /\ Delivered(r)
    /\ UNCHANGED <<published, cursor, pc, company, dry, nsuFrom, nsuTo, result>>

\* An NFS-e without a key never conflicts: a failed row each time.
StoreKeyless(r) ==
    /\ Delivering(r)
    /\ ~dry[r]
    /\ Kind[NextDoc(r)] = "keyless"
    /\ \E uploaded \in Works("storage") :
        lostXml' = [lostXml EXCEPT ![r] = @ \/ ~uploaded]
    /\ Count(r, FALSE)
    /\ Delivered(r)
    /\ UNCHANGED <<shared, pc, company, dry, nsuFrom, nsuTo, result>>

\* A callback that swallows the exception and counts nothing.
ItemErrorUncounted(r) ==
    /\ Delivering(r)
    /\ ~dry[r]
    /\ Kind[NextDoc(r)] # "event"
    /\ {"timeout", "database"} \cap Faults # {}
    /\ Delivered(r)
    /\ UNCHANGED <<shared, pc, company, dry, nsuFrom, nsuTo, counters, result>>

\* The callback swallows an exception: the INSERT failed, or the job timeout
\* was raised before it or between the INSERT and the count.
ItemError(r) ==
    /\ Delivering(r)
    /\ ~dry[r]
    /\ Kind[NextDoc(r)] # "event"
    /\ \E inserted \in BOOLEAN, intact \in Works("parse"), uploaded \in Works("storage") :
        /\ lostXml' = [lostXml EXCEPT ![r] = @ \/ ~uploaded]
        /\ inserted => "timeout" \in Faults /\ Kind[NextDoc(r)] = "nfse"
        /\ ~inserted => {"timeout", "database"} \cap Faults # {}
        /\ IF inserted /\ item[NextDoc(r)] = None
           THEN item' = [item EXCEPT ![NextDoc(r)] =
                    [company |-> company[r], parsed |-> intact, xml |-> uploaded]]
           ELSE UNCHANGED item
    /\ itemsFail' = [itemsFail EXCEPT ![r] = @ \cup {NextNsu(r)}]
    /\ Delivered(r)
    /\ UNCHANGED <<published, cursor, pc, company, dry, nsuFrom, nsuTo, itemsOk, result>>

-----------------------------------------------------------------------------
\* A status decided from the item counters alone.
FinalStatusIgnoresStorage(r) ==
    IF itemsFail[r] = {} THEN "succeeded"
    ELSE IF itemsOk[r] = {} THEN "failed" ELSE "partial"

\* A run that counted nothing gets a status that only exports know.
FinalStatusEmpty(r) ==
    IF itemsOk[r] \cup itemsFail[r] = {} /\ ~lostXml[r] THEN "empty"
    ELSE IF itemsFail[r] = {} /\ ~lostXml[r] THEN "succeeded"
    ELSE IF itemsOk[r] = {} THEN "failed" ELSE "partial"

\* _decide_final_status.  fatal_rejected is FALSE in every summary that
\* fetch_nfse returns.
FinalStatus(r) ==
    LET failures == itemsFail[r] # {} \/ lostXml[r]
    IN  IF ~failures THEN "succeeded"
        ELSE IF itemsOk[r] = {} THEN "failed" ELSE "partial"

\* _mark_finished.
Finish(r) ==
    /\ pc[r] = "items"
    /\ nsuDone[r] = nsuTo[r]
    /\ result' = [result EXCEPT ![r] = FinalStatus(r)]
    /\ pc' = [pc EXCEPT ![r] = "advance"]
    /\ UNCHANGED <<shared, company, dry, window, counters>>

\* Advancing only when the run counted something.
MayAdvanceIfCounted(r) ==
    /\ result[r] \in {"succeeded", "partial"}
    /\ itemsOk[r] # {}
    /\ ~lostXml[r]
    /\ ~dry[r]
    /\ nsuTo[r] > nsuFrom[r]

MayAdvance(r) ==
    /\ result[r] \in {"succeeded", "partial"}
    /\ ~lostXml[r]
    /\ ~dry[r]
    /\ nsuTo[r] > nsuFrom[r]

\* An UPDATE of last_nsu without its "last_nsu < :nsu".
AdvanceBlindly(r) ==
    /\ pc[r] = "advance"
    /\ cursor' = [cursor EXCEPT ![company[r]] = IF MayAdvance(r) THEN nsuTo[r] ELSE @]
    /\ pc' = [pc EXCEPT ![r] = "idle"]
    /\ UNCHANGED <<published, item, company, dry, window, counters, result>>

\* DbNsuSource.set, a transaction after the status: only if greater.
Advance(r) ==
    /\ pc[r] = "advance"
    /\ cursor' = [cursor EXCEPT ![company[r]] =
                     IF MayAdvance(r) /\ @ < nsuTo[r] THEN nsuTo[r] ELSE @]
    /\ pc' = [pc EXCEPT ![r] = "idle"]
    /\ UNCHANGED <<published, item, company, dry, window, counters, result>>

\* The run ends here and its execution keeps the status it has.
Die(r) ==
    /\ "death" \in Faults
    /\ pc[r] # "idle"
    /\ pc' = [pc EXCEPT ![r] = "idle"]
    /\ UNCHANGED <<shared, company, dry, window, counters, result>>

Collect(r) ==
    \/ FetchPage(r)
    \/ LastPage(r)
    \/ SkipDocument(r)
    \/ DryItem(r)
    \/ StoreItem(r)
    \/ StoreKeyless(r)
    \/ Finish(r)
    \/ Advance(r)

Fail(r) == FetchFails(r) \/ ItemError(r) \/ Die(r)

Next ==
    \/ \E c \in Companies : Publish(c)
    \/ \E r \in Runs, c \in Companies : Start(r, c)
    \/ \E r \in Runs : Collect(r) \/ Fail(r)

Spec == Init /\ [][Next]_vars

(***************************************************************************)
(* Fairness.  A run that has started goes on (its requests have finite     *)
(* retries and timeouts), and every company is collected again and again:  *)
(* a schedule fires and its job is taken (module Executions).  Nothing is  *)
(* assumed of the portal or of the faults.                                 *)
(***************************************************************************)
FairSpec ==
    /\ Spec
    /\ \A r \in Runs : WF_vars(Collect(r))
    /\ \A c \in Companies : SF_vars(\E r \in Runs : Start(r, c))

-----------------------------------------------------------------------------
Notes(c, from, to) == {n \in from + 1 .. to : Kind[Feed[c][n]] = "nfse"}

\* The cursor never moves back, whichever of two overlapping runs of one
\* company writes it last (db_nsu.py, UPDATE only-if-greater).
CursorMonotone == [][\A c \in Companies : cursor'[c] >= cursor[c]]_cursor

\* What FeedReader abstracts from: a note is held by the company whose run
\* made its row.
Reader == INSTANCE FeedReader WITH
    position <- cursor,
    holder <- [d \in Docs |-> IF item[d] = None THEN None ELSE item[d].company],
    Wanted <- {d \in Docs : Kind[d] = "nfse"},
    Nobody <- None

\* Runs that overlap, fail and die together do what one reader of the feeds
\* would: the cursor moves forward only and over notes that have a row, and
\* the row of a note, once made, stays with its company, which had it ahead
\* of its cursor (jobs.py:734-776, db_nsu.py:102-144).  Does not hold when an
\* INSERT fails, nor when the job timeout is raised in the callback.
ReadsLikeOneReader == Reader!Spec

\* Every note behind the cursor has a row: nothing asks the portal for it
\* again.  Holds through crashes, portal failures, damaged documents and
\* failed uploads (the cursor is the last thing a run writes), and does not
\* hold when an INSERT fails.
CursorBehindRows ==
    \A c \in Companies : \A n \in Notes(c, 0, cursor[c]) : item[Feed[c][n]] # None

\* Every note behind the cursor has its XML: a run whose upload failed does
\* not move the cursor, so that the document is asked for again.
CursorBehindXml ==
    \A c \in Companies : \A n \in Notes(c, 0, cursor[c]) :
        item[Feed[c][n]] # None => item[Feed[c][n]].xml

\* An execution that reads "succeeded" left no note of its window without a
\* row, whatever failed on the way: what was not stored was counted.
SucceededMeansCollected ==
    \A r \in Runs :
        result[r] = "succeeded" /\ ~dry[r] =>
            \A n \in Notes(company[r], nsuFrom[r], nsuTo[r]) :
                item[Feed[company[r]][n]] # None

\* The notes a succeeded execution counts are rows of its own company that
\* parsed and have their XML, so the panel's items_ok can be downloaded.
SucceededItemsComplete ==
    \A r \in Runs :
        result[r] = "succeeded" /\ ~dry[r] =>
            \A n \in itemsOk[r] :
                item[Feed[company[r]][n]] = [company |-> company[r], parsed |-> TRUE,
                                             xml |-> TRUE]

\* A note is counted by one execution only, the one whose INSERT made its
\* row, however often the portal delivers it and whoever runs at once.
NoteCountedOnce ==
    [][\A r \in Runs : \A n \in itemsOk'[r] \ itemsOk[r] :
        dry[r] \/ item[Feed[company[r]][n]] = None]_itemsOk

\* Every published note gets a row in the end.
NotesAreCollected ==
    \A c \in Companies : \A n \in Notes(c, 0, Len(Feed[c])) :
        (published[c] >= n) ~> (item[Feed[c][n]] # None)

\* The cursor catches up with the portal: duplicates, documents issued by
\* others and events do not hold it back.
CursorCatchesUp ==
    \A c \in Companies :
        \A n \in 1 .. Len(Feed[c]) : (published[c] >= n) ~> (cursor[c] >= n)
=============================================================================
