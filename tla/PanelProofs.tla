------------------------------ MODULE PanelProofs ------------------------------
(***************************************************************************)
(* Proofs about Panel: what holds of each page of the panel, for any       *)
(* number of tabs, users, companies, rows and writes.                      *)
(***************************************************************************)
EXTENDS Panel, SessionProofs, SequenceTheorems, FiniteSetTheorems, TLAPS

\* The proofs about the schedules and the credentials.
SchedP == INSTANCE SchedulesProofs WITH Users <- ScheduleUsers
CredP == INSTANCE CredentialsProofs WITH Others <- CredOthers, Faults <- CredFaults

-----------------------------------------------------------------------------
(* A step of the panel is, for each page, a step of the page or leaves what *)
(* the page has alone.                                                      *)

LEMMA RouteStays == [PanelNext]_panelVars => UNCHANGED route
BY DEF PanelNext, panelVars, Sched!Next, SForm!Next, Table!Next, Onb!Next, Cred!Next, Comp!Next,
       Page!Next, Occ!Next

LEMMA SessionSteps == [PanelNext]_panelVars => [Next]_vars
BY DEF PanelNext, panelVars, sessionVars, vars

\* A behaviour of the panel is, for the session, one of Session.
LEMMA PanelRefinesSession == PanelSpec => Spec
<1>1. PanelInit => Init
  BY DEF PanelInit
<1> QED
  BY <1>1, SessionSteps, PTL DEF PanelSpec, Spec

\* Calls of a browser that do not overlap and whose answers arrive leave no revoked
\* refresh token in its cookie (rotate_refresh_token and the Route Handlers of
\* app/api/auth), with the pages open beside it.
THEOREM PanelCookieWorks == PanelSpec => []CookieWorks
BY PanelRefinesSession, OrderlyCookieWorks, PTL

\* A tab that shows a session has its renewal timer, or a refresh on its way,
\* with the pages open beside it (auth-provider.tsx).
THEOREM PanelSessionRenews == PanelSpec => []SessionRenews
BY PanelRefinesSession, SessionsRenew, PTL

LEMMA PageSteps ==
    ASSUME [PanelNext]_panelVars
    PROVE  /\ [Sched!Next]_(Sched!vars)
           /\ [SForm!Next]_(SForm!vars)
           /\ [Table!Next]_(Table!vars)
           /\ [Onb!Next]_(Onb!vars)
           /\ [Cred!Next]_(Cred!vars)
           /\ [Comp!Next]_(Comp!vars)
           /\ [Page!Next]_(Page!vars)
           /\ [Occ!Next]_(Occ!vars)
<1>1. UNCHANGED route
  BY RouteStays
<1>2. \/ Sched!Next
      \/ UNCHANGED schedVars
  BY DEF PanelNext, panelVars, pagesVars
<1>3. Table!Next \/ UNCHANGED tableVars
  BY DEF PanelNext, panelVars, pagesVars
<1>4. Onb!Next \/ UNCHANGED onbVars
  BY DEF PanelNext, panelVars, pagesVars
<1>5. Cred!Next \/ UNCHANGED credVars
  BY DEF PanelNext, panelVars, pagesVars
<1>6. Page!Next \/ UNCHANGED pageVars
  BY DEF PanelNext, panelVars, pagesVars
<1>7. Occ!Next \/ UNCHANGED occVars
  BY DEF PanelNext, panelVars, pagesVars
<1>8. SForm!Next \/ UNCHANGED sformVars
  BY DEF PanelNext, panelVars, pagesVars
<1>9. Comp!Next \/ UNCHANGED compVars
  BY DEF PanelNext, panelVars, pagesVars
<1>10. QED
  BY <1>1, <1>2, <1>3, <1>4, <1>5, <1>6, <1>7, <1>8, <1>9
  DEF schedVars, sformVars, tableVars, onbVars, credVars, compVars, pageVars, occVars, Sched!vars,
      SForm!vars, Table!vars, Onb!vars, Onb!backend, Cred!vars, Cred!server, Comp!vars, Page!vars,
      Occ!vars

LEMMA PageStarts ==
    ASSUME PanelInit
    PROVE  /\ Sched!Open => Sched!Init
           /\ SForm!Open => SForm!Init
           /\ Table!Open => Table!Init
           /\ Onb!Open => Onb!Init
           /\ Cred!Open => Cred!Init
           /\ Comp!Open => Comp!Init
           /\ Page!Open => Page!Init
           /\ Occ!Open => Occ!Init
BY DEF PanelInit

-----------------------------------------------------------------------------
(* Schedules and credentials.                                               *)

\* The instance of the proofs is the same page.
LEMMA SameSchedules ==
    /\ Sched!Init <=> SchedP!Init
    /\ [Sched!Next]_(Sched!vars) <=> [SchedP!Next]_(SchedP!vars)
    /\ Sched!SerialWritesAreCoherent <=> SchedP!SerialWritesAreCoherent
BY DEF Sched!vars, SchedP!vars, Sched!Open, SchedP!Open, Sched!None, SchedP!None,
       Sched!Keep, SchedP!Keep, Sched!NoCall, SchedP!NoCall, Sched!Init, SchedP!Init,
       Sched!Busy, SchedP!Busy, Sched!Listed, SchedP!Listed, Sched!ListOf,
       SchedP!ListOf, Sched!ListArrives, SchedP!ListArrives, Sched!Call, SchedP!Call,
       Sched!handleToggle, SchedP!handleToggle, Sched!handleDelete, SchedP!handleDelete,
       Sched!handleEdit, SchedP!handleEdit, Sched!handleSubmit, SchedP!handleSubmit,
       Sched!Answer, SchedP!Answer, Sched!NextRun, SchedP!NextRun, Sched!PatchReads,
       SchedP!PatchReads, Sched!Updated, SchedP!Updated, Sched!PatchWrites,
       SchedP!PatchWrites, Sched!DeleteSchedule, SchedP!DeleteSchedule, Sched!TickReads,
       SchedP!TickReads, Sched!TickWrites, SchedP!TickWrites, Sched!Next, SchedP!Next,
       Sched!Coherent, SchedP!Coherent, Sched!SerialWritesAreCoherent,
       SchedP!SerialWritesAreCoherent

LEMMA SameCredentials ==
    /\ Cred!Init <=> CredP!Init
    /\ [Cred!Next]_(Cred!vars) <=> [CredP!Next]_(CredP!vars)
    /\ Cred!ActiveHasBlob <=> CredP!ActiveHasBlob
BY DEF Cred!server, CredP!server, Cred!vars, CredP!vars, Cred!Open, CredP!Open,
       Cred!Users, CredP!Users, Cred!Uploads, CredP!Uploads, Cred!RowStates,
       CredP!RowStates, Cred!ErrorCodes, CredP!ErrorCodes, Cred!Idle, CredP!Idle,
       Cred!NoRead, CredP!NoRead, Cred!NoDialog, CredP!NoDialog, Cred!Init, CredP!Init,
       Cred!Active, CredP!Active, Cred!Served, CredP!Served, Cred!mapApiError,
       CredP!mapApiError, Cred!Refusals, CredP!Refusals, Cred!LoopFree, CredP!LoopFree, Cred!Told, CredP!Told,
       Cred!Answered, CredP!Answered, Cred!Begin, CredP!Begin, Cred!Reject,
       CredP!Reject, Cred!Look, CredP!Look, Cred!Retire, CredP!Retire, Cred!Put,
       CredP!Put, Cred!DeleteBlobs, CredP!DeleteBlobs, Cred!EndTransaction,
       CredP!EndTransaction, Cred!OtherAsks, CredP!OtherAsks, Cred!StartRead,
       CredP!StartRead, Cred!TokenRenewed, CredP!TokenRenewed, Cred!Retry, CredP!Retry,
       Cred!ReadCredential, CredP!ReadCredential, Cred!ReadArrives, CredP!ReadArrives,
       Cred!CanUpload, CredP!CanUpload, Cred!CanRevoke, CredP!CanRevoke,
       Cred!OpenDialog, CredP!OpenDialog, Cred!DialogShows, CredP!DialogShows,
       Cred!UploadDialog, CredP!UploadDialog, Cred!RevokeDialog, CredP!RevokeDialog,
       Cred!InUse, CredP!InUse, Cred!PickFile, CredP!PickFile, Cred!TypeWord,
       CredP!TypeWord, Cred!CloseDialog, CredP!CloseDialog, Cred!Submit, CredP!Submit,
       Cred!humanizeError, CredP!humanizeError, Cred!SubmissionEnds,
       CredP!SubmissionEnds, Cred!Next, CredP!Next, Cred!ActiveHasBlob,
       CredP!ActiveHasBlob, Cred!Max, CredP!Max

\* Writers of a schedule that come one after the other leave its next_run_at
\* coherent, on the page of the panel (update_schedule, schedules/routes.py).
THEOREM PanelWritesAreCoherent == PanelSpec => []PanelSerialWritesAreCoherent
<1> DEFINE Inv == Sched!Open => SchedP!SerialInv
<1>1. {SchedP!None, SchedP!Keep} \cap Crons = {}
  BY CronsAssumption DEF SchedP!None, SchedP!Keep
<1>2. PanelInit => Inv
  BY <1>1, PageStarts, SameSchedules, SchedP!InitSerial
<1>3. Inv /\ [PanelNext]_panelVars => Inv'
  BY <1>1, RouteStays, PageSteps, SameSchedules, SchedP!StepSerial DEF Sched!Open
<1>4. Inv => PanelSerialWritesAreCoherent
  BY DEF PanelSerialWritesAreCoherent, Sched!SerialWritesAreCoherent, SchedP!SerialInv,
         SchedP!LoneWriter, Sched!Coherent, SchedP!Coherent, Sched!None, SchedP!None
<1>5. QED
  BY <1>2, <1>3, <1>4, PTL DEF PanelSpec

\* The file of every credential in force is in the bucket, on the page of the
\* panel (upload_credential, revoke_credential).
THEOREM PanelCredentialHasFile == PanelSpec => []PanelActiveHasBlob
<1> DEFINE Inv == Cred!Open => CredP!CredentialsInv
<1>1. MaxUploads \in Nat /\ Me \notin CredOthers /\ "commit" \notin CredFaults
  BY CredentialsAssumption
<1>2. PanelInit => Inv
  BY <1>1, PageStarts, SameCredentials, CredP!InitCredentials
<1>3. Inv /\ [PanelNext]_panelVars => Inv'
  BY <1>1, RouteStays, PageSteps, SameCredentials, CredP!StepCredentials DEF Cred!Open
<1>4. Inv => PanelActiveHasBlob
  <2>1. Cred!Open /\ CredP!CredentialsInv => CredP!ActiveHasBlob
    BY <1>1 DEF CredP!CredentialsInv, CredP!StoreInv, CredP!ActiveHasBlob
  <2>2. QED
    BY <2>1, SameCredentials DEF PanelActiveHasBlob, Cred!ActiveHasBlob
<1>5. QED
  BY <1>2, <1>3, <1>4, PTL DEF PanelSpec

-----------------------------------------------------------------------------
(* The table (DataTable).                                                   *)

TableType == [of : {"nothing", "another", "this"}, total : 0..MaxRows, rows : 0..MaxRows,
              asked : BOOLEAN, error : BOOLEAN]

\* The rows shown of this URL are those of its page, of the total shown with them.
RowsInv ==
    /\ url \in Table!Urls
    /\ table \in TableType
    /\ table.of = "this" => table.rows = Table!RowsOn(url, table.total)

LEMMA UrlType ==
    ASSUME NEW u \in Table!Urls
    PROVE  MaxRows \in Nat /\ u.page \in Nat /\ u.size \in Nat /\ u.size > 0
<1>1. MaxRows \in Nat /\ u.page \in 0..MaxRows
  BY TableAssumption DEF Table!Urls
<1>2. u.size \in PageSizes
  BY DEF Table!Urls
<1>3. u.size \in Nat \ {0}
  BY <1>2, TableAssumption
<1>4. QED
  BY <1>1, <1>3

LEMMA RowsOnType ==
    ASSUME NEW u \in Table!Urls, NEW total \in 0..MaxRows
    PROVE  /\ Table!RowsOn(u, total) \in 0..MaxRows
           /\ Table!RowsOn(u, total) = 0 /\ total > 0 => u.page > 0
<1>1. MaxRows \in Nat /\ u.page \in Nat /\ u.size \in Nat /\ u.size > 0
  BY UrlType
<1> DEFINE before == u.page * u.size
<1>2. before \in Nat /\ (u.page = 0 => before = 0)
  BY <1>1
<1> HIDE DEF before
<1>3. Table!RowsOn(u, total) = IF total <= before THEN 0
                               ELSE IF total - before < u.size THEN total - before ELSE u.size
  BY DEF before, Table!RowsOn
<1>4. QED
  BY <1>1, <1>2, <1>3

LEMMA PushKeepsTable ==
    ASSUME RowsInv, NEW u \in Table!Urls, Table!pushUrl(u)
    PROVE  RowsInv'
<1>1. url' = u
  BY DEF Table!pushUrl
<1>2. CASE UNCHANGED table /\ u = url
  BY <1>1, <1>2 DEF RowsInv
<1>3. CASE table' = [table EXCEPT !.of = IF @ = "nothing" THEN @ ELSE "another",
                                  !.asked = TRUE, !.error = FALSE]
  BY <1>1, <1>3 DEF RowsInv, TableType
<1>4. ASSUME NEW total \in 0..MaxRows, NEW old \in BOOLEAN,
             table' = [of |-> "this", total |-> total, rows |-> Table!RowsOn(u, total),
                       asked |-> old, error |-> FALSE]
      PROVE  RowsInv'
  BY <1>1, <1>4, RowsOnType DEF RowsInv, TableType
<1>5. QED
  BY <1>2, <1>3, <1>4 DEF Table!pushUrl

\* There is a page for each row at most.
LEMMA PagesOfRows ==
    ASSUME NEW total \in Nat, NEW size \in Nat, size > 0, total > 0
    PROVE  (total + size - 1) \div size <= total
<1> DEFINE q == (total + size - 1) \div size
<1>1. q \in Nat /\ q * size <= total + size - 1
  BY Z3
<1>2. SUFFICES ASSUME q >= total + 1 PROVE FALSE
  BY <1>1
<1>3. q * size >= (total + 1) * size
  BY <1>1, <1>2, Z3
<1>4. (total + 1) * size = total * size + size /\ total * size >= total
  BY Z3
<1>5. QED
  BY <1>1, <1>3, <1>4, Z3

LEMMA PageStaysInRange ==
    ASSUME RowsInv, Table!nextEnabled
    PROVE  url.page + 1 \in 0..MaxRows
<1>1. MaxRows \in Nat /\ url.page \in Nat /\ url.size \in Nat /\ url.size > 0 /\ table.total \in 0..MaxRows
  BY UrlType DEF RowsInv, TableType
<1>2. url.page + 1 < Table!pageCount
  BY DEF Table!nextEnabled
<1>3. CASE table.total = 0
  <2>1. (0 + url.size - 1) \div url.size = 0
    BY <1>1, Z3
  <2>2. Table!pageCount = 1
    BY <1>3, <2>1 DEF Table!pageCount
  <2>3. QED
    BY <1>1, <1>2, <2>2
<1>4. CASE table.total > 0
  <2> DEFINE full == (table.total + url.size - 1) \div url.size
  <2>1. full <= table.total /\ full \in Nat
    BY <1>1, <1>4, PagesOfRows, Z3
  <2>2. Table!pageCount = IF full = 0 THEN 1 ELSE full
    BY DEF Table!pageCount
  <2> HIDE DEF full
  <2>3. QED
    BY <1>1, <1>2, <1>4, <2>1, <2>2
<1>5. QED
  BY <1>1, <1>3, <1>4

SavedInv ==
    /\ filterDraft \in Filters
    /\ savedFilters \in Seq(Table!Entries) /\ Len(savedFilters) <= MaxSaved

TableInv == RowsInv /\ SavedInv

LEMMA WithoutType ==
    ASSUME SavedInv, NEW i \in DOMAIN savedFilters
    PROVE  /\ Table!Without(i) \in Seq(Table!Entries)
           /\ Len(Table!Without(i)) <= MaxSaved
<1> DEFINE S == Table!Entries
           a == SubSeq(savedFilters, 1, i - 1)
           b == SubSeq(savedFilters, i + 1, Len(savedFilters))
<1>1. savedFilters \in Seq(S) /\ Len(savedFilters) \in Nat /\ Len(savedFilters) <= MaxSaved
      /\ i \in 1..Len(savedFilters) /\ MaxSaved \in Nat
  BY TableAssumption DEF SavedInv
<1>2. a \in Seq(S) /\ Len(a) = i - 1
  BY <1>1, SubSeqProperties
<1>3. b \in Seq(S) /\ Len(b) = Len(savedFilters) - i
  BY <1>1, SubSeqProperties
<1> HIDE DEF S, a, b
<1>4. a \o b \in Seq(S) /\ Len(a \o b) = Len(a) + Len(b)
  BY <1>2, <1>3, ConcatProperties
<1>5. QED
  BY <1>1, <1>2, <1>3, <1>4 DEF Table!Without, S, a, b

LEMMA TableStarts == Table!Init => TableInv
<1> SUFFICES ASSUME Table!Init PROVE TableInv
  OBVIOUS
<1>1. PICK size \in PageSizes :
         url = [page |-> 0, size |-> size, sort |-> "none", filter |-> NoFilter]
  BY DEF Table!Init
<1>2. url \in Table!Urls
  BY <1>1, TableAssumption DEF Table!Urls, Table!Sorts
<1>3. RowsInv
  BY <1>2, TableAssumption DEF Table!Init, RowsInv, TableType
<1>4. filterDraft \in Filters
  BY <1>1, TableAssumption DEF Table!Init
<1>5. savedFilters \in Seq(Table!Entries) /\ Len(savedFilters) <= MaxSaved
  BY TableAssumption DEF Table!Init
<1>6. QED
  BY <1>3, <1>4, <1>5 DEF TableInv, SavedInv

LEMMA TableSteps == TableInv /\ [Table!Next]_(Table!vars) => TableInv'
<1> SUFFICES ASSUME TableInv, [Table!Next]_(Table!vars) PROVE TableInv'
  OBVIOUS
<1>1. RowsInv /\ SavedInv
  BY DEF TableInv
<1>2. url \in Table!Urls /\ table \in TableType /\ url.page \in 0..MaxRows /\ url.sort \in Table!Sorts
  BY <1>1 DEF RowsInv, Table!Urls
<1>3. /\ filterDraft \in Filters /\ url.filter \in Filters /\ NoFilter \in Filters
      /\ MaxSaved \in Nat /\ MaxRows \in Nat /\ 0 \in 0..MaxRows
  BY <1>1, <1>2, TableAssumption DEF SavedInv, Table!Urls
\* A step that asks for a URL, and one of the query.
<1>4. ASSUME NEW u \in Table!Urls, Table!pushUrl(u), filterDraft' \in Filters, UNCHANGED savedFilters
      PROVE  TableInv'
  BY <1>1, <1>4, PushKeepsTable DEF TableInv, SavedInv
<1>5. ASSUME UNCHANGED <<url, filterDraft, savedFilters>>, RowsInv' PROVE TableInv'
  BY <1>1, <1>5 DEF TableInv, SavedInv
<1>6. ASSUME UNCHANGED <<url, table>>, SavedInv' PROVE TableInv'
  BY <1>1, <1>6 DEF TableInv, RowsInv, Table!RowsOn
<1>7. CASE UNCHANGED Table!vars
  BY <1>1, <1>7, <1>6 DEF Table!vars, SavedInv
<1>8. CASE Table!EditDraft
  BY <1>1, <1>8, <1>6 DEF Table!EditDraft, SavedInv
<1>9. CASE Table!applyFilters \/ Table!clearFilters
  <2>1. ASSUME NEW f \in Filters PROVE [url EXCEPT !.page = 0, !.filter = f] \in Table!Urls
    BY <1>2, <1>3 DEF Table!Urls
  <2>2. QED
    BY <1>3, <1>4, <1>9, <2>1 DEF Table!applyFilters, Table!clearFilters
<1>10. CASE Table!onPageChange
  <2>1. Table!previousEnabled => [url EXCEPT !.page = @ - 1] \in Table!Urls
    <3>1. url.page > 0 => url.page - 1 \in 0..MaxRows
      BY <1>2, <1>3
    <3>2. QED
      BY <1>2, <3>1 DEF Table!Urls, Table!previousEnabled
  <2>2. Table!nextEnabled => [url EXCEPT !.page = @ + 1] \in Table!Urls
    BY <1>1, <1>2, PageStaysInRange DEF Table!Urls
  <2>3. QED
    BY <1>3, <1>4, <1>10, <2>1, <2>2 DEF Table!onPageChange
<1>11. CASE Table!onPageSizeChange
  <2>1. ASSUME NEW size \in PageSizes PROVE [url EXCEPT !.page = 0, !.size = size] \in Table!Urls
    BY <1>2, <1>3 DEF Table!Urls
  <2>2. QED
    BY <1>3, <1>4, <1>11, <2>1 DEF Table!onPageSizeChange
<1>12. CASE Table!onToggleSort
  <2>1. ASSUME NEW st \in Table!Sorts PROVE [url EXCEPT !.page = 0, !.sort = st] \in Table!Urls
    BY <1>2, <1>3 DEF Table!Urls
  <2>2. (CASE url.sort = "none" -> "asc" [] url.sort = "asc" -> "desc" [] OTHER -> "none") \in Table!Sorts
    BY DEF Table!Sorts
  <2>3. QED
    BY <1>3, <1>4, <1>12, <2>1, <2>2 DEF Table!onToggleSort
<1>13. CASE Table!Navigate
  <2>1. PICK u \in Table!Urls : Table!pushUrl(u)
    BY <1>13 DEF Table!Navigate
  <2>2. u.filter \in Filters /\ url' = u
    BY <2>1 DEF Table!Urls, Table!pushUrl
  <2>3. filterDraft' \in Filters
    BY <1>3, <1>13, <2>2 DEF Table!Navigate, Table!FollowUrl
  <2>4. QED
    BY <1>4, <1>13, <2>1, <2>3 DEF Table!Navigate
<1>14. CASE Table!QueryArrives
  <2>1. PICK total \in 0..MaxRows :
           table' = [of |-> "this", total |-> total, rows |-> Table!RowsOn(url, total),
                     asked |-> FALSE, error |-> FALSE]
    BY <1>14 DEF Table!QueryArrives
  <2>2. Table!RowsOn(url, total) \in 0..MaxRows
    BY <1>2, RowsOnType
  <2>3. table' \in TableType /\ table'.rows = Table!RowsOn(url, table'.total) /\ url' = url
    BY <1>14, <2>1, <2>2 DEF TableType, Table!QueryArrives
  <2>4. RowsInv'
    BY <1>2, <2>3 DEF RowsInv
  <2>5. QED
    BY <1>5, <1>14, <2>4 DEF Table!QueryArrives
<1>15. CASE Table!QueryFails \/ Table!Refetch
  <2>1. table' \in TableType /\ (table'.of = "this" => /\ table.of = "this"
                                                       /\ table'.rows = table.rows
                                                       /\ table'.total = table.total)
    <3>1. CASE table' = [table EXCEPT !.asked = FALSE, !.error = TRUE]
      BY <1>2, <3>1 DEF TableType
    <3>2. CASE table' = [of |-> "nothing", total |-> 0, rows |-> 0, asked |-> FALSE, error |-> TRUE]
      BY <1>3, <3>2 DEF TableType
    <3>3. CASE table' = [table EXCEPT !.asked = TRUE, !.error = @ /\ table.of = "this"]
      BY <1>2, <3>3 DEF TableType
    <3>4. QED
      BY <1>15, <3>1, <3>2, <3>3 DEF Table!QueryFails, Table!Refetch
  <2>2. RowsInv'
    BY <1>1, <1>15, <2>1 DEF RowsInv, Table!QueryFails, Table!Refetch
  <2>3. QED
    BY <1>5, <1>15, <2>2 DEF Table!QueryFails, Table!Refetch
<1>16. CASE Table!onSaveCurrent
  <2> DEFINE e == [filter |-> url.filter, sort |-> url.sort]
  <2>1. PICK keep \in {savedFilters} \cup {Table!Without(i) : i \in DOMAIN savedFilters} :
           Len(keep) < MaxSaved /\ savedFilters' = <<e>> \o keep
    BY <1>16 DEF Table!onSaveCurrent
  <2>2. keep \in Seq(Table!Entries)
    BY <1>1, <2>1, WithoutType DEF SavedInv
  <2>3. <<e>> \in Seq(Table!Entries) /\ Len(<<e>>) = 1
    <3>1. e \in Table!Entries
      BY <1>2, <1>3 DEF Table!Entries
    <3> HIDE DEF e
    <3>2. QED
      BY <3>1
  <2>4. savedFilters' \in Seq(Table!Entries) /\ Len(savedFilters') = 1 + Len(keep)
    <3> HIDE DEF e
    <3>1. QED
      BY <2>1, <2>2, <2>3, ConcatProperties
  <2>5. SavedInv'
    BY <1>3, <1>16, <2>1, <2>2, <2>4 DEF SavedInv, Table!onSaveCurrent
  <2>6. QED
    BY <1>6, <1>16, <2>5 DEF Table!onSaveCurrent
<1>17. ASSUME NEW i \in 1..MaxSaved, Table!onApplySaved(i) PROVE TableInv'
  <2>1. savedFilters[i] \in Table!Entries
    BY <1>1, <1>17 DEF SavedInv, Table!onApplySaved
  <2> DEFINE u == [url EXCEPT !.page = 0, !.sort = savedFilters[i].sort, !.filter = savedFilters[i].filter]
  <2>2. u \in Table!Urls /\ savedFilters[i].filter \in Filters
    BY <1>2, <1>3, <2>1 DEF Table!Urls, Table!Entries
  <2>3. QED
    BY <1>4, <1>17, <2>2 DEF Table!onApplySaved
<1>18. ASSUME NEW i \in 1..MaxSaved, Table!onDeleteSaved(i) PROVE TableInv'
  <2>1. SavedInv'
    BY <1>1, <1>18, WithoutType DEF SavedInv, Table!onDeleteSaved
  <2>2. QED
    BY <1>6, <1>18, <2>1 DEF Table!onDeleteSaved
<1>19. QED
  BY <1>7, <1>8, <1>9, <1>10, <1>11, <1>12, <1>13, <1>14, <1>15, <1>16, <1>17, <1>18 DEF Table!Next

\* A page of the table with no rows on it, of a total that has some, has the
\* button to the page before: rows that go while a page is shown strand nobody
\* (data-table.tsx).
THEOREM PanelTableHasWayBack == PanelSpec => []PanelNobodyIsStranded
<1> DEFINE Inv == Table!Open => TableInv
<1>1. PanelInit => Inv
  BY PageStarts, TableStarts
<1>2. Inv /\ [PanelNext]_panelVars => Inv'
  BY RouteStays, PageSteps, TableSteps DEF Table!Open
<1>3. Inv => PanelNobodyIsStranded
  <2> SUFFICES ASSUME TableInv, Table!BodyView = "empty", table.of = "this", table.total > 0
               PROVE  Table!previousEnabled
    BY DEF PanelNobodyIsStranded, Table!NobodyIsStranded
  <2>1. table.rows = 0
    BY DEF Table!BodyView
  <2>2. Table!RowsOn(url, table.total) = 0 /\ url \in Table!Urls /\ table.total \in 0..MaxRows
    BY <2>1 DEF TableInv, RowsInv, TableType
  <2>3. QED
    BY <2>2, RowsOnType DEF Table!previousEnabled
<1>4. QED
  BY <1>1, <1>2, <1>3, PTL DEF PanelSpec

-----------------------------------------------------------------------------
(* The wizard (Onboarding).                                                 *)

AnswersType == [company : 0..MaxCompanies, hasCompany : {"loading", "error", "no", "yes"},
                active : {"loading", "error", "no", "yes"}, runs : {"loading", "error", "no", "yes"}]
WizardType == [dismissed : BOOLEAN, celebrating : BOOLEAN,
               call : {"none", "company", "credential", "execution"}]
Step3Type == [status : {"none", "open", "succeeded", "failed"}, notified : BOOLEAN,
              post : {"none", "sent", "ended"}]

\* What the tenant has.
TenantOK ==
    /\ credentials \in Seq(BOOLEAN) /\ Len(credentials) <= MaxCompanies
    /\ run \in {"none", "open", "succeeded", "failed"}
    /\ collected \in BOOLEAN /\ recorded \in BOOLEAN
    /\ losses \in 0..MaxLosses

\* What the wizard has.
WizardOK ==
    /\ answers \in AnswersType
    /\ asked \subseteq {"companies", "credential", "runs"}
    /\ wizard \in WizardType
    /\ step3 \in Step3Type

\* Whatever leads to the record and to the celebration comes from a collection
\* that succeeded: the run, what the step has seen of it, and its post.
CelebrationOK ==
    run = "succeeded" \/ step3.status = "succeeded" \/ step3.post # "none"
        \/ recorded \/ wizard.celebrating
    => collected

OnbInv == TenantOK /\ WizardOK /\ CelebrationOK

LEMMA OnbStarts == Onb!Init => OnbInv
<1> SUFFICES ASSUME Onb!Init PROVE OnbInv
  OBVIOUS
<1>1. TenantOK
  <2>1. credentials = <<>> /\ run = "none" /\ collected = FALSE /\ recorded = FALSE /\ losses = 0
    BY DEF Onb!Init
  <2>2. credentials \in Seq(BOOLEAN) /\ Len(credentials) = 0
    BY <2>1
  <2>3. Len(credentials) <= MaxCompanies /\ losses \in 0..MaxLosses
    BY <2>1, <2>2, OnboardingAssumption
  <2>4. run \in {"none", "open", "succeeded", "failed"} /\ collected \in BOOLEAN /\ recorded \in BOOLEAN
    BY <2>1, Zenon
  <2>5. QED
    BY <2>2, <2>3, <2>4 DEF TenantOK
<1>2. Onb!Unanswered \in AnswersType
  BY OnboardingAssumption DEF Onb!Unanswered, AnswersType
<1>3. Onb!Fresh \in WizardType /\ ~Onb!Fresh.celebrating
  BY DEF Onb!Fresh, WizardType
<1>4. Onb!NotFollowing \in Step3Type /\ Onb!NotFollowing.status = "none" /\ Onb!NotFollowing.post = "none"
  BY DEF Onb!NotFollowing, Step3Type
<1>5. QED
  BY <1>1, <1>2, <1>3, <1>4 DEF Onb!Init, OnbInv, WizardOK, CelebrationOK, Onb!Queries

LEMMA Step3Unmounted ==
    ASSUME step3 \in Step3Type
    PROVE  /\ Onb!Unmounted \in Step3Type
           /\ Onb!Unmounted.status = "none" /\ Onb!Unmounted.post = step3.post
           /\ Onb!NotFollowing \in Step3Type
           /\ Onb!NotFollowing.status = "none" /\ Onb!NotFollowing.post = "none"
           /\ [Onb!Unmounted EXCEPT !.status = "open"] \in Step3Type
           /\ [Onb!Unmounted EXCEPT !.status = "open"].status = "open"
           /\ [Onb!Unmounted EXCEPT !.status = "open"].post = step3.post
BY DEF Onb!Unmounted, Onb!NotFollowing, Step3Type

\* A step of the tenant's own, that tells the wizard nothing.
LEMMA TenantStep ==
    ASSUME OnbInv, UNCHANGED <<answers, asked, wizard, step3>>, TenantOK',
           collected => collected', recorded' => recorded,
           run' = "succeeded" => run = "succeeded" \/ collected'
    PROVE  OnbInv'
BY DEF OnbInv, WizardOK, CelebrationOK

\* A step of the wizard that follows no run and posts nothing new.
LEMMA WizardStep ==
    ASSUME OnbInv, UNCHANGED <<run, collected, recorded>>, TenantOK', WizardOK',
           step3'.status = "succeeded" => step3.status = "succeeded" \/ run = "succeeded",
           step3'.post # "none" => step3.post # "none" \/ step3.status = "succeeded",
           wizard'.celebrating => wizard.celebrating \/ step3.post # "none"
    PROVE  OnbInv'
BY DEF OnbInv, CelebrationOK

LEMMA CredentialsType ==
    ASSUME credentials \in Seq(BOOLEAN), Len(credentials) <= MaxCompanies
    PROVE  /\ \A i \in DOMAIN credentials, b \in BOOLEAN :
                 /\ [credentials EXCEPT ![i] = b] \in Seq(BOOLEAN)
                 /\ Len([credentials EXCEPT ![i] = b]) <= MaxCompanies
           /\ Len(credentials) < MaxCompanies =>
                 /\ Append(credentials, FALSE) \in Seq(BOOLEAN)
                 /\ Len(Append(credentials, FALSE)) <= MaxCompanies
           /\ Len(credentials) \in 0..MaxCompanies
BY OnboardingAssumption

LEMMA OnbSteps == OnbInv /\ [Onb!Next]_(Onb!vars) => OnbInv'
<1> SUFFICES ASSUME OnbInv, [Onb!Next]_(Onb!vars) PROVE OnbInv'
  OBVIOUS
<1>1. TenantOK /\ WizardOK /\ MaxCompanies \in Nat /\ MaxLosses \in Nat
  BY OnboardingAssumption DEF OnbInv
<1>2. CASE UNCHANGED Onb!vars
  BY <1>1, <1>2, TenantStep DEF Onb!vars, Onb!backend, TenantOK
<1>3. CASE Onb!OthersAdd \/ Onb!CredentialExpires
  <2>1. credentials' \in Seq(BOOLEAN) /\ Len(credentials') <= MaxCompanies
    BY <1>1, <1>3, CredentialsType DEF TenantOK, Onb!OthersAdd, Onb!CredentialExpires
  <2>2. TenantOK'
    BY <1>1, <1>3, <2>1 DEF TenantOK, Onb!OthersAdd, Onb!CredentialExpires
  <2>3. UNCHANGED <<run, collected, recorded, answers, asked, wizard, step3>>
    BY <1>3 DEF Onb!OthersAdd, Onb!CredentialExpires
  <2>4. QED
    BY <2>2, <2>3, TenantStep
<1>4. CASE Onb!RunEnds
  <2>1. PICK st \in Onb!FirstStatuses : run' = st /\ collected' = (collected \/ st = "succeeded")
    BY <1>4 DEF Onb!RunEnds
  <2>2. TenantOK'
    BY <1>1, <1>4, <2>1 DEF TenantOK, Onb!RunEnds, Onb!FirstStatuses
  <2>3. QED
    BY <1>4, <2>1, <2>2, TenantStep DEF Onb!RunEnds
\* The answers of the queries, with which a step may be unmounted.
<1>5. ASSUME UNCHANGED <<credentials, run, collected, recorded, wizard, losses>>, Onb!Unmount,
             answers' \in AnswersType, asked' \subseteq {"companies", "credential", "runs"}
      PROVE  OnbInv'
  <2>1. step3' = step3 \/ step3' = Onb!Unmounted
    BY <1>5 DEF Onb!Unmount
  <2>2. step3' \in Step3Type /\ (step3'.status = "succeeded" => step3.status = "succeeded")
        /\ step3'.post = step3.post
    BY <1>1, <2>1, Step3Unmounted DEF WizardOK
  <2>3. TenantOK' /\ WizardOK'
    BY <1>1, <1>5, <2>2 DEF TenantOK, WizardOK
  <2>4. QED
    BY <1>5, <2>2, <2>3, WizardStep
<1>6. CASE Onb!CompaniesArrive
  <2>1. answers' \in AnswersType
    <3>1. Len(credentials) \in 0..MaxCompanies
      BY <1>1, CredentialsType DEF TenantOK
    <3>2. answers \in AnswersType
      BY <1>1 DEF WizardOK
    <3>3. ASSUME NEW n \in 0..MaxCompanies, NEW h \in {"loading", "error", "no", "yes"},
                 NEW a \in {"loading", "error", "no", "yes"}
          PROVE  /\ [answers EXCEPT !.company = n, !.hasCompany = h, !.active = a] \in AnswersType
                 /\ [answers EXCEPT !.hasCompany = h] \in AnswersType
      BY <3>2 DEF AnswersType
    <3>4. answers.active \in {"loading", "error", "no", "yes"}
      BY <3>2 DEF AnswersType
    <3>5. QED
      BY <1>6, <3>1, <3>3, <3>4 DEF Onb!CompaniesArrive, Onb!Newest, Onb!YesNo
  <2>2. asked' \subseteq {"companies", "credential", "runs"}
    BY <1>1, <1>6 DEF WizardOK, Onb!CompaniesArrive
  <2>3. QED
    BY <1>5, <1>6, <2>1, <2>2 DEF Onb!CompaniesArrive, Onb!backend
<1>7. CASE Onb!CredentialArrives
  <2>1. answers' \in AnswersType
    BY <1>1, <1>7 DEF WizardOK, Onb!CredentialArrives, Onb!YesNo, AnswersType
  <2>2. QED
    BY <1>1, <1>5, <1>7, <2>1 DEF WizardOK, Onb!CredentialArrives, Onb!backend
<1>8. CASE Onb!RunsArrive
  <2>1. answers' \in AnswersType
    BY <1>1, <1>8 DEF WizardOK, Onb!RunsArrive, Onb!YesNo, AnswersType
  <2>2. QED
    BY <1>1, <1>5, <1>8, <2>1 DEF WizardOK, Onb!RunsArrive, Onb!backend
\* The steps of the user, and what their calls come to.
<1>9. ASSUME UNCHANGED <<credentials, run, collected, recorded, answers, losses>>,
             asked' \subseteq {"companies", "credential", "runs"},
             wizard' \in WizardType, step3' \in Step3Type,
             step3'.status = "succeeded" => step3.status = "succeeded" \/ run = "succeeded",
             step3'.post # "none" => step3.post # "none" \/ step3.status = "succeeded",
             wizard'.celebrating => wizard.celebrating \/ step3.post # "none"
      PROVE  OnbInv'
  <2>1. TenantOK' /\ WizardOK'
    BY <1>1, <1>9 DEF TenantOK, WizardOK
  <2>2. QED
    BY <1>9, <2>1, WizardStep
<1>10. /\ asked \subseteq {"companies", "credential", "runs"} /\ Onb!Queries = {"companies", "credential", "runs"}
       /\ wizard \in WizardType /\ step3 \in Step3Type
  BY <1>1 DEF WizardOK, Onb!Queries
\* A call of a step, and its end.
<1>11. ASSUME NEW c \in {"none", "company", "credential", "execution"}
       PROVE  /\ [wizard EXCEPT !.call = c] \in WizardType
              /\ [wizard EXCEPT !.call = c].celebrating = wizard.celebrating
  BY <1>10 DEF WizardType
<1>12. CASE Onb!Reconnect
  BY <1>9, <1>10, <1>12 DEF Onb!Reconnect, Onb!refresh, Onb!backend
<1>13. CASE Onb!SubmitCompany \/ Onb!SubmitCredential \/ Onb!SubmitExecution
  BY <1>9, <1>10, <1>11, <1>13
  DEF Onb!SubmitCompany, Onb!SubmitCredential, Onb!SubmitExecution, Onb!Submit, Onb!backend
<1>14. CASE Onb!Retry
  BY <1>9, <1>10, <1>14, Step3Unmounted DEF Onb!Retry, Onb!backend
\* A call that the tenant has served, or not.
<1>15. ASSUME credentials' \in Seq(BOOLEAN), Len(credentials') <= MaxCompanies,
              asked' \in {asked, Onb!Queries}, wizard' = [wizard EXCEPT !.call = "none"],
              UNCHANGED <<run, collected, recorded, answers, step3, losses>>
       PROVE  OnbInv'
  <2>1. TenantOK' /\ WizardOK'
    BY <1>1, <1>10, <1>11, <1>15 DEF TenantOK, WizardOK
  <2>2. QED
    BY <1>11, <1>15, <2>1, WizardStep
<1>16. CASE Onb!CompanyCreated
  <2>1. credentials' \in Seq(BOOLEAN) /\ Len(credentials') <= MaxCompanies
    BY <1>1, <1>16, CredentialsType DEF TenantOK, Onb!CompanyCreated
  <2>2. QED
    BY <1>15, <1>16, <2>1 DEF Onb!CompanyCreated
<1>17. CASE Onb!CredentialUploaded
  <2>1. credentials' \in Seq(BOOLEAN) /\ Len(credentials') <= MaxCompanies
    BY <1>1, <1>17, CredentialsType DEF TenantOK, Onb!CredentialUploaded
  <2>2. QED
    BY <1>15, <1>17, <2>1 DEF Onb!CredentialUploaded
<1>18. CASE Onb!ExecutionCreated
  <2>1. wizard' \in WizardType /\ wizard'.celebrating = wizard.celebrating
    BY <1>11, <1>18 DEF Onb!ExecutionCreated
  <2>2. /\ step3' \in {step3, [Onb!Unmounted EXCEPT !.status = "open"]}
        /\ run' \in {run, "open"}
    BY <1>18 DEF Onb!ExecutionCreated
  <2>3. /\ step3' \in Step3Type /\ step3'.post = step3.post
        /\ step3'.status = "succeeded" => step3.status = "succeeded"
    BY <1>10, <2>2, Step3Unmounted
  <2>4. TenantOK' /\ WizardOK'
    BY <1>1, <1>18, <2>1, <2>2, <2>3 DEF TenantOK, WizardOK, Onb!ExecutionCreated
  <2>5. CelebrationOK'
    BY <1>18, <2>1, <2>2, <2>3 DEF OnbInv, CelebrationOK, Onb!ExecutionCreated
  <2>6. QED
    BY <2>4, <2>5 DEF OnbInv
<1>19. CASE Onb!Poll
  <2>1. step3' = [step3 EXCEPT !.status = run] /\ run \in {"none", "open", "succeeded", "failed"}
    BY <1>1, <1>19 DEF Onb!Poll, TenantOK
  <2>2. step3' \in Step3Type /\ step3'.status = run /\ step3'.post = step3.post
    BY <1>10, <2>1 DEF Step3Type
  <2>3. QED
    BY <1>9, <1>10, <1>19, <2>2 DEF Onb!Poll, Onb!backend
<1>20. CASE Onb!Notify
  <2>1. step3' \in Step3Type /\ step3'.status = step3.status /\ step3.status = "succeeded"
    BY <1>10, <1>20 DEF Onb!Notify, Step3Type
  <2>2. QED
    BY <1>9, <1>10, <1>20, <2>1 DEF Onb!Notify, Onb!backend
<1>21. CASE Onb!RecordFirstCollectionDone
  <2>1. step3' \in Step3Type /\ step3'.status = step3.status /\ step3.post # "none"
    BY <1>10, <1>21 DEF Onb!RecordFirstCollectionDone, Step3Type
  <2>2. recorded' \in {recorded, TRUE} /\ losses' \in 0..MaxLosses
    <3>1. losses \in 0..MaxLosses
      BY <1>1 DEF TenantOK
    <3>2. \/ recorded' = TRUE /\ losses' = losses
          \/ losses < MaxLosses /\ losses' = losses + 1 /\ recorded' = recorded
      BY <1>21 DEF Onb!RecordFirstCollectionDone
    <3>3. recorded' \in {recorded, TRUE}
      BY <3>2, Zenon
    <3>4. losses' = losses \/ (losses < MaxLosses /\ losses' = losses + 1)
      BY <3>2, Zenon
    <3>5. losses' \in 0..MaxLosses
      BY <1>1, <3>1, <3>4
    <3>6. QED
      BY <3>3, <3>5
  <2>3. TenantOK' /\ WizardOK'
    BY <1>1, <1>21, <2>1, <2>2 DEF TenantOK, WizardOK, Onb!RecordFirstCollectionDone
  <2>4. CelebrationOK'
    BY <1>21, <2>1 DEF OnbInv, CelebrationOK, Onb!RecordFirstCollectionDone
  <2>5. QED
    BY <2>3, <2>4 DEF OnbInv
<1>22. CASE Onb!handleExecutionCompleted
  <2>1. /\ step3' \in Step3Type /\ step3'.status = step3.status
        /\ step3'.post = "none" /\ step3.post # "none"
    BY <1>10, <1>22 DEF Onb!handleExecutionCompleted, Step3Type
  <2>2. wizard' \in WizardType
    BY <1>10, <1>22 DEF Onb!handleExecutionCompleted, WizardType
  <2>3. QED
    BY <1>9, <1>10, <1>22, <2>1, <2>2 DEF Onb!handleExecutionCompleted, Onb!refresh, Onb!backend
<1>23. CASE Onb!handleSkip
  <2>1. wizard' \in WizardType /\ wizard'.celebrating = wizard.celebrating
    BY <1>10, <1>23 DEF Onb!handleSkip, WizardType
  <2>2. QED
    BY <1>9, <1>10, <1>23, <2>1, Step3Unmounted DEF Onb!handleSkip, Onb!backend
<1>24. CASE Onb!CloseCelebration
  <2>1. wizard' \in WizardType /\ ~wizard'.celebrating
    BY <1>10, <1>24 DEF Onb!CloseCelebration, WizardType
  <2>2. QED
    BY <1>9, <1>10, <1>24, <2>1 DEF Onb!CloseCelebration, Onb!backend
<1>25. CASE Onb!Reload
  <2>1. wizard' \in WizardType /\ ~wizard'.celebrating
    BY <1>10, <1>25 DEF Onb!Reload, Onb!Fresh, WizardType
  <2>2. /\ step3' = Onb!NotFollowing /\ UNCHANGED <<credentials, run, collected, losses>>
        /\ recorded' \in {recorded, recorded \/ step3.post = "sent"}
        /\ answers' = Onb!Unanswered /\ asked' = Onb!Queries
    BY <1>25 DEF Onb!Reload, Onb!refresh
  <2>3. Onb!Unanswered \in AnswersType
    BY <1>1 DEF Onb!Unanswered, AnswersType
  <2>4. TenantOK' /\ WizardOK'
    BY <1>1, <1>10, <2>1, <2>2, <2>3, Step3Unmounted DEF TenantOK, WizardOK
  <2>5. CelebrationOK'
    BY <1>10, <2>1, <2>2, Step3Unmounted DEF OnbInv, CelebrationOK
  <2>6. QED
    BY <2>4, <2>5 DEF OnbInv
<1>26. QED
  BY <1>2, <1>3, <1>4, <1>6, <1>7, <1>8, <1>12, <1>13, <1>14, <1>16, <1>17, <1>18, <1>19, <1>20,
     <1>21, <1>22, <1>23, <1>24, <1>25
  DEF Onb!Next

\* What the wizard celebrates, and has recorded as the first collection, has
\* succeeded: neither a failed run, nor an answer that comes late, nor a reload
\* in between makes it of anything else (step-execucao.tsx, onboarding/routes.py).
THEOREM PanelCelebratesCollections == PanelSpec => []PanelCelebratedMeansCollected
<1> DEFINE Inv == Onb!Open => OnbInv
<1>1. PanelInit => Inv
  BY PageStarts, OnbStarts
<1>2. Inv /\ [PanelNext]_panelVars => Inv'
  BY RouteStays, PageSteps, OnbSteps DEF Onb!Open
<1>3. Inv => PanelCelebratedMeansCollected
  BY DEF OnbInv, CelebrationOK, PanelCelebratedMeansCollected, Onb!CelebratedMeansCollected
<1>4. QED
  BY <1>1, <1>2, <1>3, PTL DEF PanelSpec

-----------------------------------------------------------------------------
(* The page of a company (CompanyPage).                                     *)

QueryType == [status : {"pending", "success", "not_found", "failed"}, data : Page!Content,
              req : {"none", "asked", "answered", "gone"}, got : Page!Content]
TabsType == [here : BOOLEAN, active : Page!TabIds, mounted : SUBSET Page!TabIds]
ActionType == [op : {"none", "edit", "delete"}, form : Page!Content,
               at : {"open", "sent", "done", "refreshing", "missing", "refused"},
               error : {"none", "forbidden", "missing", "failed"}]

PageTypes ==
    /\ company \in [row : Page!Content, live : BOOLEAN]
    /\ query \in QueryType
    /\ tabs \in TabsType
    /\ action \in ActionType
    /\ confirmed \in 0..PageWrites

\* The row is never older than an edit that was confirmed or is about to be; an
\* answer that is on its way is none of before the edit, and neither is what is
\* shown, but while the dialog of the edit waits for the new answer.
FreshOK ==
    /\ action.op = "none" => action.at = "open"
    /\ confirmed <= company.row.stamp
    /\ action.op = "edit" /\ action.at = "done" => action.form.stamp <= company.row.stamp
    /\ query.req = "answered" => query.got.stamp >= confirmed
    /\ query.status = "success" /\ action.at # "refreshing" => query.data.stamp >= confirmed

PageInv == PageTypes /\ FreshOK

LEMMA ContentType ==
    ASSUME NEW c \in Page!Content
    PROVE  c.stamp \in Nat /\ c.stamp \in 0..PageWrites /\ PageWrites \in Nat
BY PageAssumption DEF Page!Content

LEMMA UnwrittenType ==
    /\ Page!Unwritten \in Page!Content /\ Page!Unwritten.stamp = 0
    /\ Page!NoAction \in ActionType /\ Page!NoAction.at = "open" /\ Page!NoAction.op = "none"
<1>1. 0 \in 0..PageWrites
  BY PageAssumption
<1>2. Page!Unwritten \in Page!Content /\ Page!Unwritten.stamp = 0
  BY <1>1 DEF Page!Unwritten, Page!Content
<1>3. QED
  BY <1>2 DEF Page!NoAction, ActionType

LEMMA CompanyPageStarts == Page!Init => PageInv
<1> SUFFICES ASSUME Page!Init PROVE PageInv
  OBVIOUS
<1>1. company \in [row : Page!Content, live : BOOLEAN] /\ company.row.stamp = 0
  BY UnwrittenType DEF Page!Init
<1>2. query \in QueryType /\ query.req = "asked" /\ query.status = "pending"
  BY UnwrittenType DEF Page!Init, QueryType
<1>3. tabs \in TabsType
  BY DEF Page!Init, TabsType
<1>4. action \in ActionType /\ action.at = "open"
  BY UnwrittenType DEF Page!Init
<1>5. confirmed = 0 /\ PageWrites \in Nat
  BY PageAssumption DEF Page!Init
<1>6. QED
  BY <1>1, <1>2, <1>3, <1>4, <1>5 DEF PageInv, PageTypes, FreshOK

\* A write makes the row newer.
LEMMA WriteType ==
    ASSUME PageTypes, NEW name \in 0..PageWrites \cup {company.row.stamp + 1},
           NEW st \in {"active", "paused"}, Page!Write(name, st)
    PROVE  /\ company' \in [row : Page!Content, live : BOOLEAN]
           /\ company'.row.stamp = company.row.stamp + 1
           /\ company'.row \in Page!Content
<1>1. company.row \in Page!Content /\ company.row.stamp \in Nat /\ PageWrites \in Nat
  BY ContentType DEF PageTypes
<1> DEFINE s == company.row.stamp + 1
           new == [name |-> name, status |-> st, stamp |-> s]
<1>2. s \in 0..PageWrites /\ company' = [company EXCEPT !.row = new]
  BY <1>1 DEF Page!Write
<1>3. new \in Page!Content /\ new.stamp = s
  BY <1>2 DEF Page!Content
<1> HIDE DEF new, s
<1>4. company'.row = new /\ company' \in [row : Page!Content, live : BOOLEAN]
  BY <1>2, <1>3 DEF PageTypes
<1>5. QED
  BY <1>3, <1>4 DEF s

LEMMA TabOfKeyType ==
    ASSUME NEW key \in {"ArrowRight", "ArrowLeft", "Home", "End"}, NEW i \in DOMAIN PageTabs
    PROVE  Page!TabOfKey(key, i) \in Page!TabIds
<1>1. Len(PageTabs) \in Nat /\ Len(PageTabs) > 0 /\ DOMAIN PageTabs = 1..Len(PageTabs)
  BY PageAssumption
<1>2. /\ (i % Len(PageTabs)) + 1 \in 1..Len(PageTabs)
      /\ ((i + Len(PageTabs) - 2) % Len(PageTabs)) + 1 \in 1..Len(PageTabs)
      /\ 1 \in 1..Len(PageTabs) /\ Len(PageTabs) \in 1..Len(PageTabs)
  <2> DEFINE n == Len(PageTabs)
  <2>1. n \in Nat /\ n > 0 /\ i \in 1..n
    BY <1>1
  <2> HIDE DEF n
  <2>2. i % n \in 0..(n - 1) /\ (i + n - 2) % n \in 0..(n - 1)
    BY <2>1, Z3
  <2>3. (i % n) + 1 \in 1..n /\ ((i + n - 2) % n) + 1 \in 1..n /\ 1 \in 1..n /\ n \in 1..n
    <3> DEFINE a == i % n
               b == (i + n - 2) % n
    <3>1. a \in 0..(n - 1) /\ b \in 0..(n - 1)
      BY <2>2
    <3> HIDE DEF a, b
    <3>2. a + 1 \in 1..n /\ b + 1 \in 1..n
      BY <2>1, <3>1
    <3>3. QED
      BY <2>1, <3>2 DEF a, b
  <2>4. QED
    BY <2>3, Zenon DEF n
<1>3. \A j \in 1..Len(PageTabs) : PageTabs[j] \in Page!TabIds
  BY <1>1 DEF Page!TabIds
<1>4. QED
  BY <1>2, <1>3 DEF Page!TabOfKey

LEMMA DialogInUse ==
    /\ {Page!EditDialog, Page!DeleteDialog} \cap Page!InUse # {} => action.at = "open"
    /\ Page!EditDialog \in Page!InUse => action.at = "open"
BY DEF Page!EditDialog, Page!DeleteDialog, Page!DialogShows, Page!InUse

\* A step of the dialog alone.
LEMMA ActionStep ==
    ASSUME PageInv, UNCHANGED <<company, query, tabs, confirmed>>, action' \in ActionType,
           action'.at # "done", action.at # "refreshing",
           action'.op = "none" => action'.at = "open"
    PROVE  PageInv'
BY DEF PageInv, PageTypes, FreshOK

\* A step of the query, with which the dialogs may be unmounted.
LEMMA QueryStep ==
    ASSUME PageInv, UNCHANGED <<company, confirmed>>, query' \in QueryType, tabs' \in TabsType,
           action' \in {action, Page!NoAction},
           query'.req = "answered" => query'.got.stamp >= confirmed,
           query'.status = "success" =>
               \/ query'.data.stamp >= confirmed
               \/ UNCHANGED action /\ query.status = "success" /\ query'.data = query.data
    PROVE  PageInv'
<1>1. action' \in ActionType /\ (action' = Page!NoAction => action'.op = "none" /\ action'.at = "open")
  BY UnwrittenType DEF PageInv, PageTypes
<1>2. PageTypes'
  BY <1>1 DEF PageInv, PageTypes
<1>3. FreshOK'
  BY <1>1 DEF PageInv, FreshOK
<1>4. QED
  BY <1>2, <1>3 DEF PageInv

LEMMA CompanyPageSteps == PageInv /\ [Page!Next]_(Page!vars) => PageInv'
<1> SUFFICES ASSUME PageInv, [Page!Next]_(Page!vars) PROVE PageInv'
  OBVIOUS
<1>1. PageTypes /\ FreshOK
  BY DEF PageInv
<1>2. /\ company \in [row : Page!Content, live : BOOLEAN]
      /\ query \in QueryType /\ tabs \in TabsType /\ action \in ActionType
      /\ company.row.stamp \in Nat /\ query.data.stamp \in Nat /\ query.got.stamp \in Nat
      /\ action.form.stamp \in Nat /\ action.form \in Page!Content /\ company.row \in Page!Content
      /\ confirmed \in 0..PageWrites /\ confirmed \in Nat
  <2>1. /\ company.row \in Page!Content /\ query.data \in Page!Content
        /\ query.got \in Page!Content /\ action.form \in Page!Content
    BY <1>1 DEF PageTypes, QueryType, ActionType
  <2>2. confirmed \in Nat
    BY <1>1, PageAssumption DEF PageTypes
  <2>3. QED
    BY <1>1, <2>1, <2>2, ContentType DEF PageTypes
<1>3. CASE UNCHANGED Page!vars
  BY <1>1, <1>3 DEF Page!vars, PageInv, PageTypes, FreshOK
<1>4. CASE Page!OtherWrites
  <2>1. /\ company' \in [row : Page!Content, live : BOOLEAN]
        /\ company'.row.stamp \in {company.row.stamp, company.row.stamp + 1}
    <3>1. CASE \E st \in {"active", "paused"} : Page!Write(company.row.name, st)
      <4>1. company.row.name \in 0..PageWrites
        BY <1>2 DEF Page!Content
      <4>2. QED
        BY <1>1, <3>1, <4>1, WriteType
    <3>2. CASE company' = [company EXCEPT !.live = FALSE]
      BY <1>2, <3>2
    <3>3. QED
      BY <1>4, <3>1, <3>2 DEF Page!OtherWrites
  <2>2. UNCHANGED <<query, tabs, action, confirmed>>
    BY <1>4 DEF Page!OtherWrites
  <2>3. PageTypes'
    BY <1>1, <2>1, <2>2 DEF PageTypes
  <2>4. FreshOK'
    BY <1>1, <1>2, <2>1, <2>2 DEF FreshOK
  <2>5. QED
    BY <2>3, <2>4 DEF PageInv
<1>5. CASE Page!AnswerQuery
  <2> DEFINE req == IF company.live THEN "answered" ELSE "gone"
             got == IF company.live THEN company.row ELSE Page!Unwritten
  <2>1. query' = [query EXCEPT !.req = req, !.got = got] /\ UNCHANGED <<company, tabs, action, confirmed>>
    BY <1>5 DEF Page!AnswerQuery
  <2>2. got \in Page!Content /\ req \in {"answered", "gone"} /\ (req = "answered" => got = company.row)
    BY <1>2, UnwrittenType
  <2> HIDE DEF req, got
  <2>3. /\ query' \in QueryType /\ query'.req = req /\ query'.got = got
        /\ query'.data = query.data /\ query'.status = query.status
    BY <1>2, <2>1, <2>2 DEF QueryType
  <2>4. query'.req = "answered" => query'.got.stamp >= confirmed
    BY <1>1, <1>2, <2>2, <2>3 DEF FreshOK
  <2>5. QED
    BY <1>2, <2>1, <2>3, <2>4, QueryStep
<1>6. CASE Page!QueryArrives
  <2>1. /\ query' = [status |-> "success", data |-> query.got, req |-> "none", got |-> Page!Unwritten]
        /\ query.req = "answered" /\ action' \in {action, Page!NoAction}
        /\ UNCHANGED <<company, tabs, confirmed>>
    BY <1>6 DEF Page!QueryArrives
  <2>2. query' \in QueryType /\ query'.req = "none" /\ query'.data = query.got
    BY <1>2, <2>1, UnwrittenType DEF QueryType
  <2>3. query'.data.stamp >= confirmed
    BY <1>1, <2>1, <2>2 DEF FreshOK
  <2>4. QED
    BY <1>2, <2>1, <2>2, <2>3, QueryStep
<1>7. CASE Page!QueryFails
  <2>1. \/ query' = [query EXCEPT !.status = "not_found", !.req = "none"]
        \/ query' = [query EXCEPT !.status = "failed", !.req = "none", !.got = Page!Unwritten]
    BY <1>7 DEF Page!QueryFails
  <2>2. query' \in QueryType /\ query'.req = "none" /\ query'.status # "success"
    BY <1>2, <2>1, UnwrittenType DEF QueryType
  <2>3. tabs' = [tabs EXCEPT !.mounted = {tabs.active}] /\ action' = Page!NoAction
        /\ UNCHANGED <<company, confirmed>>
    BY <1>7 DEF Page!QueryFails, Page!Unmounted
  <2>4. tabs' \in TabsType
    BY <1>2, <2>3 DEF TabsType
  <2>5. QED
    BY <2>2, <2>3, <2>4, QueryStep
<1>8. query'= Page!Asked =>
        /\ query' \in QueryType /\ query'.req = "asked"
        /\ query'.status = query.status /\ query'.data = query.data
  BY <1>2, UnwrittenType DEF Page!Asked, QueryType
<1>9. CASE Page!Refetch
  BY <1>2, <1>8, <1>9, QueryStep DEF Page!Refetch
<1>10. ASSUME NEW t \in Page!TabIds, Page!setTab(t) PROVE PageInv'
  <2>1. tabs' = [tabs EXCEPT !.active = t, !.mounted = @ \cup {t}] /\ UNCHANGED <<company, query, action, confirmed>>
    BY <1>10 DEF Page!setTab
  <2>2. tabs' \in TabsType
    BY <1>2, <2>1 DEF TabsType
  <2>3. QED
    BY <1>1, <2>1, <2>2 DEF PageInv, PageTypes, FreshOK
<1>11. ASSUME NEW key \in {"ArrowRight", "ArrowLeft", "Home", "End"}, Page!onKeyDown(key) PROVE PageInv'
  BY <1>10, <1>11, TabOfKeyType DEF Page!onKeyDown
<1>12. ASSUME NEW op \in {"edit", "delete"}, Page!OpenAction(op) PROVE PageInv'
  <2>1. action' = [Page!NoAction EXCEPT !.op = op, !.form = query.data] /\ action.op = "none"
        /\ UNCHANGED <<company, query, tabs, confirmed>>
    BY <1>12 DEF Page!OpenAction
  <2>2. query.data \in Page!Content
    BY <1>2 DEF QueryType
  <2>3. action' \in ActionType /\ action'.at = "open"
    BY <2>1, <2>2, UnwrittenType DEF ActionType
  <2>4. action.at = "open"
    BY <1>1, <2>1 DEF FreshOK
  <2>5. QED
    BY <2>1, <2>3, <2>4, ActionStep
<1>13. CASE Page!CloseAction
  BY <1>13, ActionStep, DialogInUse, UnwrittenType DEF Page!CloseAction
<1>14. CASE Page!EditStatus
  <2>1. PICK st \in {"active", "paused"} : action' = [action EXCEPT !.form.status = st]
    BY <1>14 DEF Page!EditStatus
  <2>2. [action.form EXCEPT !.status = st] \in Page!Content
    BY <1>2 DEF Page!Content
  <2>3. action' \in ActionType /\ action'.at = action.at /\ action'.op = action.op
    BY <1>2, <2>1, <2>2 DEF ActionType
  <2>4. QED
    BY <1>14, <2>3, ActionStep, DialogInUse DEF Page!EditStatus
<1>15. CASE Page!Submit
  <2>1. action' = [action EXCEPT !.at = "sent", !.error = "none"] /\ action.at = "open" /\ action.op # "none"
    BY <1>15, DialogInUse
    DEF Page!Submit, Page!EditDialog, Page!DeleteDialog, Page!DialogShows, Page!InUse
  <2>2. action' \in ActionType /\ action'.at = "sent" /\ action'.op # "none"
    BY <1>2, <2>1 DEF ActionType
  <2>3. QED
    BY <1>15, <2>1, <2>2, ActionStep DEF Page!Submit
<1>16. CASE Page!ServeEdit
  <2>1. PICK name \in {company.row.stamp + 1, action.form.name} : Page!Write(name, action.form.status)
    BY <1>16 DEF Page!ServeEdit
  <2>2. /\ name \in 0..PageWrites \cup {company.row.stamp + 1}
        /\ action.form.status \in {"active", "paused"}
    BY <1>2 DEF Page!Content
  <2>3. /\ company' \in [row : Page!Content, live : BOOLEAN]
        /\ company'.row.stamp = company.row.stamp + 1 /\ company'.row \in Page!Content
    BY <1>1, <2>1, <2>2, WriteType
  <2>4. action' = [action EXCEPT !.at = "done", !.form = company'.row]
        /\ UNCHANGED <<query, tabs, confirmed>> /\ action.at = "sent" /\ action.op = "edit"
    BY <1>16 DEF Page!ServeEdit
  <2>5. action' \in ActionType /\ action'.at = "done" /\ action'.form = company'.row /\ action'.op = "edit"
    BY <1>2, <2>3, <2>4 DEF ActionType
  <2>6. PageTypes'
    BY <1>1, <2>3, <2>4, <2>5 DEF PageTypes
  <2>7. FreshOK'
    BY <1>1, <1>2, <2>3, <2>4, <2>5 DEF FreshOK
  <2>8. QED
    BY <2>6, <2>7 DEF PageInv
<1>17. CASE Page!ServeDelete
  <2>1. company' = [company EXCEPT !.live = FALSE] /\ action' = [action EXCEPT !.at = "done"]
        /\ UNCHANGED <<query, tabs, confirmed>> /\ action.at = "sent" /\ action.op = "delete"
    BY <1>17 DEF Page!ServeDelete
  <2>2. company' \in [row : Page!Content, live : BOOLEAN] /\ company'.row = company.row
    BY <1>2, <2>1
  <2>3. action' \in ActionType /\ action'.at = "done" /\ action'.op = "delete"
    BY <1>2, <2>1 DEF ActionType
  <2>4. PageTypes'
    BY <1>1, <2>1, <2>2, <2>3 DEF PageTypes
  <2>5. FreshOK'
    BY <1>1, <2>1, <2>2, <2>3 DEF FreshOK
  <2>6. QED
    BY <2>4, <2>5 DEF PageInv
<1>18. CASE Page!Deny
  <2>1. PICK at \in {"refused", "missing"} : action' = [action EXCEPT !.at = at]
    BY <1>18 DEF Page!Deny
  <2>2. action' \in ActionType /\ action'.at = at /\ action'.op = action.op
    BY <1>2, <2>1 DEF ActionType
  <2>3. action.at = "sent" /\ action.op # "none"
    BY <1>1, <1>18 DEF Page!Deny, FreshOK
  <2>4. QED
    BY <1>18, <2>1, <2>2, <2>3, ActionStep DEF Page!Deny
<1>19. CASE Page!Succeed
  <2>1. CASE action.op = "edit" /\ query' = Page!Asked /\ action' = [action EXCEPT !.at = "refreshing"]
             /\ confirmed' = action.form.stamp /\ UNCHANGED <<tabs, company>>
    <3>1. action' \in ActionType /\ action'.at = "refreshing" /\ action'.op = "edit"
      BY <1>2, <2>1 DEF ActionType
    <3>2. confirmed' \in 0..PageWrites
      BY <1>2, <2>1, ContentType
    <3>3. PageTypes'
      BY <1>1, <1>8, <2>1, <3>1, <3>2 DEF PageTypes
    <3>4. confirmed' <= company'.row.stamp
      BY <1>1, <1>19, <2>1 DEF FreshOK, Page!Succeed
    <3>5. FreshOK'
      BY <1>8, <2>1, <3>1, <3>4 DEF FreshOK
    <3>6. QED
      BY <3>3, <3>5 DEF PageInv
  <2>2. CASE tabs' = [tabs EXCEPT !.here = FALSE, !.mounted = {}] /\ action' = Page!NoAction
             /\ UNCHANGED <<query, confirmed, company>>
    <3>1. tabs' \in TabsType
      BY <1>2, <2>2 DEF TabsType
    <3>2. PageTypes'
      BY <1>1, <2>2, <3>1, UnwrittenType DEF PageTypes
    <3>3. action.at # "refreshing" /\ action'.op = "none" /\ action'.at = "open"
      BY <1>19, <2>2, UnwrittenType DEF Page!Succeed
    <3>4. FreshOK'
      BY <1>1, <2>2, <3>3 DEF FreshOK
    <3>5. QED
      BY <3>2, <3>4 DEF PageInv
  <2>3. QED
    BY <1>19, <2>1, <2>2 DEF Page!Succeed
<1>20. CASE Page!Fail
  <2>1. Page!ErrorOf(action.at) \in {"forbidden", "missing", "failed"}
    BY DEF Page!ErrorOf
  <2>2. action' = [action EXCEPT !.at = "open", !.error = Page!ErrorOf(action.at)]
        /\ action.at # "refreshing"
    BY <1>20 DEF Page!Fail
  <2>3. action' \in ActionType /\ action'.at = "open"
    BY <1>2, <2>1, <2>2 DEF ActionType
  <2>4. QED
    BY <1>20, <2>2, <2>3, ActionStep DEF Page!Fail
<1>21. QED
  BY <1>3, <1>4, <1>5, <1>6, <1>7, <1>9, <1>10, <1>11, <1>12, <1>13, <1>14, <1>15, <1>16, <1>17,
     <1>18, <1>19, <1>20
  DEF Page!Next

\* Once the dialog of a saved edit has closed the page never shows an older
\* company, whatever other users write and whichever request was on its way
\* (onSubmit of overview-tab.tsx awaits invalidateQueries before onClose).
THEOREM PanelShowsEdit == PanelSpec => []PanelEditIsShown
<1> DEFINE Inv == Page!Open => PageInv
<1>1. PanelInit => Inv
  BY PageStarts, CompanyPageStarts
<1>2. Inv /\ [PanelNext]_panelVars => Inv'
  BY RouteStays, PageSteps, CompanyPageSteps DEF Page!Open
<1>3. Inv => PanelEditIsShown
  <2>1. query \in QueryType /\ Page!Shown => query.status = "success"
    BY DEF QueryType, Page!Shown, Page!DetailView
  <2>2. QED
    BY <2>1 DEF PageInv, PageTypes, FreshOK, PanelEditIsShown, Page!EditIsShown
<1>4. QED
  BY <1>1, <1>2, <1>3, PTL DEF PanelSpec

-----------------------------------------------------------------------------
(* An occurrence and its page (Occurrences).                                *)

RequestType == [at : {"none", "sent", "fetched", "updated", "answered"},
                action : Occ!Actions, answer : Occ!Errors, row : Occ!Row]
DetailType == [status : {"pending", "success", "error"}, data : Occ!Row,
               req : {"none", "asked", "answered"}, got : Occ!Row]
RunbookType == [known : BOOLEAN, view : {"unmounted", "none", "loading", "ok", "error"}]

\* The row, and the requests that may write it.
RowOK == occurrence \in Occ!Row /\ requests \in [Occ!Actors -> RequestType]

\* The page.
DetailOK ==
    /\ detail \in DetailType
    /\ mutations \in [Occ!Actions -> Occ!Errors]
    /\ openDialog \in [action : {"none", "resolve", "assign"}, form : {"empty", "invalid", "valid"}]
    /\ runbook \in RunbookType

OccInv == RowOK /\ DetailOK

LEMMA NewType ==
    /\ Occ!New \in Occ!Row /\ Occ!NoRequest \in RequestType
    /\ Occ!NoDialog \in [action : {"none", "resolve", "assign"}, form : {"empty", "invalid", "valid"}]
<1>1. 0 \in 0..OccWrites
  BY OccurrencesAssumption
<1>2. Occ!New \in Occ!Row
  BY <1>1 DEF Occ!New, Occ!Row, Occ!OccurrenceStatus
<1>3. QED
  BY <1>2 DEF Occ!NoRequest, RequestType, Occ!Actions, Occ!Errors, Occ!NoDialog

LEMMA OccStarts == Occ!Init => OccInv
<1> SUFFICES ASSUME Occ!Init PROVE OccInv
  OBVIOUS
<1>1. RowOK
  BY NewType DEF Occ!Init, RowOK
<1>2. detail \in DetailType /\ runbook \in RunbookType
  BY NewType DEF Occ!Init, DetailType, RunbookType
<1>3. QED
  BY <1>1, <1>2, NewType DEF Occ!Init, OccInv, DetailOK, Occ!Errors

\* What an action leaves of the row: its moment of resolution is set once.
LEMMA UpdatedRow ==
    ASSUME occurrence \in Occ!Row, occurrence.stamp < OccWrites, NEW a \in Occ!Actions
    PROVE  /\ Occ!Updated(a) \in Occ!Row
           /\ occurrence.resolvedAt # 0 => Occ!Updated(a).resolvedAt = occurrence.resolvedAt
<1>1. OccWrites \in Nat /\ occurrence.stamp \in 0..OccWrites /\ occurrence.resolvedAt \in 0..OccWrites
  BY OccurrencesAssumption DEF Occ!Row
<1> DEFINE stamp == occurrence.stamp + 1
           at == IF occurrence.resolvedAt = 0 THEN stamp ELSE occurrence.resolvedAt
<1>2. stamp \in 0..OccWrites /\ at \in 0..OccWrites
  BY <1>1
<1>3. CASE a = "acknowledge"
  <2>1. Occ!Updated(a) = [occurrence EXCEPT !.status = "ack", !.stamp = stamp]
    BY <1>3 DEF Occ!Updated
  <2> HIDE DEF stamp
  <2>2. QED
    BY <1>2, <2>1 DEF Occ!Row, Occ!OccurrenceStatus
<1>4. CASE a = "resolve"
  <2>1. Occ!Updated(a) = [occurrence EXCEPT !.status = "resolved", !.stamp = stamp, !.resolvedAt = at]
    BY <1>4 DEF Occ!Updated
  <2>2. occurrence.resolvedAt # 0 => at = occurrence.resolvedAt
    OBVIOUS
  <2> HIDE DEF stamp, at
  <2>3. QED
    BY <1>2, <2>1, <2>2 DEF Occ!Row, Occ!OccurrenceStatus
<1>5. CASE a = "assign"
  <2>1. Occ!Updated(a) = [occurrence EXCEPT !.assigned = TRUE, !.stamp = stamp]
    BY <1>5 DEF Occ!Updated
  <2> HIDE DEF stamp
  <2>2. QED
    BY <1>2, <2>1 DEF Occ!Row
<1>6. QED
  BY <1>3, <1>4, <1>5 DEF Occ!Actions

LEMMA AnswerType ==
    ASSUME RowOK, NEW a \in Occ!Actors, NEW answer \in Occ!Errors, NEW row \in Occ!Row,
           Occ!Answer(a, answer, row)
    PROVE  requests' \in [Occ!Actors -> RequestType]
<1>1. a \notin OccOthers => a \in Occ!Actions
  BY DEF Occ!Actors
<1> DEFINE r == IF a \in OccOthers THEN Occ!NoRequest
                ELSE [at |-> "answered", action |-> a, answer |-> answer,
                      row |-> IF answer = "none" THEN row ELSE Occ!New]
<1>2. r \in RequestType
  BY <1>1, NewType DEF RequestType
<1>3. requests' = [requests EXCEPT ![a] = r]
  BY DEF Occ!Answer
<1> HIDE DEF r
<1>4. QED
  BY <1>2, <1>3 DEF RowOK

LEMMA MutateType ==
    ASSUME OccInv, NEW a \in Occ!Actions, Occ!Mutate(a)
    PROVE  /\ requests' \in [Occ!Actors -> RequestType]
           /\ mutations' \in [Occ!Actions -> Occ!Errors]
<1> DEFINE r == [Occ!NoRequest EXCEPT !.at = "sent", !.action = a]
<1>1. r \in RequestType
  BY NewType DEF RequestType
<1>2. requests' = [requests EXCEPT ![a] = r] /\ mutations' = [mutations EXCEPT ![a] = "none"]
  BY DEF Occ!Mutate
<1> HIDE DEF r
<1>3. QED
  BY <1>1, <1>2 DEF OccInv, RowOK, DetailOK, Occ!Errors

LEMMA RunbookStep ==
    ASSUME runbook \in RunbookType, NEW st
    PROVE  Occ!RunbookOf(st) \in RunbookType
BY DEF Occ!RunbookOf, RunbookType

\* The steps of a request: the page stays as it is.
LEMMA RequestStep ==
    ASSUME OccInv, NEW a \in Occ!Actors,
           \/ Occ!Fetch(a) \/ Occ!Update(a) \/ Occ!Commit(a)
           \/ \E b \in Occ!Actions : Occ!OtherAsks(a, b)
    PROVE  OccInv'
<1>1. RowOK /\ occurrence \in Occ!Row /\ requests[a] \in RequestType
  BY DEF OccInv, RowOK
<1>2. UNCHANGED <<detail, mutations, openDialog, runbook>>
  BY DEF Occ!Fetch, Occ!Update, Occ!Commit, Occ!OtherAsks, Occ!page
<1>3. DetailOK'
  BY <1>2 DEF OccInv, DetailOK
<1>4. SUFFICES RowOK'
  BY <1>3 DEF OccInv
<1>5. {"none", "conflict", "forbidden", "missing"} \subseteq Occ!Errors
  BY DEF Occ!Errors
<1>6. ASSUME NEW at \in {"fetched", "updated"}, requests' = [requests EXCEPT ![a].at = at], UNCHANGED occurrence
      PROVE  RowOK'
  <2>1. [requests[a] EXCEPT !.at = at] \in RequestType
    BY <1>1 DEF RequestType
  <2>2. requests' = [requests EXCEPT ![a] = [requests[a] EXCEPT !.at = at]]
    BY <1>6
  <2>3. QED
    BY <1>1, <1>6, <2>1, <2>2 DEF RowOK
<1>7. CASE Occ!Fetch(a)
  <2>1. CASE requests' = [requests EXCEPT ![a].at = "fetched"]
    BY <1>6, <1>7, <2>1 DEF Occ!Fetch
  <2>2. ASSUME NEW answer \in Occ!Errors, NEW r \in Occ!Row, Occ!Answer(a, answer, r)
        PROVE  RowOK'
    <3>1. UNCHANGED occurrence
      BY <1>7 DEF Occ!Fetch
    <3>2. QED
      BY <1>1, <2>2, <3>1, AnswerType DEF RowOK
  <2>3. QED
    BY <1>1, <1>5, <1>7, <2>1, <2>2, NewType DEF Occ!Fetch
<1>8. CASE Occ!Update(a)
  BY <1>6, <1>8 DEF Occ!Update
<1>9. CASE Occ!Commit(a)
  <2>1. requests[a].action \in Occ!Actions
    BY <1>1 DEF RequestType
  <2>2. occurrence' \in Occ!Row
    BY <1>1, <1>9, <2>1, UpdatedRow DEF Occ!Commit
  <2>3. requests' \in [Occ!Actors -> RequestType]
    BY <1>1, <1>5, <1>9, <2>2, AnswerType DEF Occ!Commit
  <2>4. QED
    BY <2>2, <2>3 DEF RowOK
<1>10. ASSUME NEW b \in Occ!Actions, Occ!OtherAsks(a, b) PROVE RowOK'
  <2> DEFINE r == [Occ!NoRequest EXCEPT !.at = "sent", !.action = b]
  <2>1. r \in RequestType
    BY NewType DEF RequestType
  <2>2. requests' = [requests EXCEPT ![a] = r] /\ UNCHANGED occurrence
    BY <1>10 DEF Occ!OtherAsks
  <2> HIDE DEF r
  <2>3. QED
    BY <1>1, <2>1, <2>2 DEF RowOK
<1>11. QED
  BY <1>7, <1>8, <1>9, <1>10

\* The steps of the page.
LEMMA DetailStep ==
    ASSUME OccInv,
           \/ Occ!RunbookArrives \/ Occ!AnswerDetail \/ Occ!DetailArrives \/ Occ!DetailFails \/ Occ!Refetch
    PROVE  OccInv'
<1>1. /\ RowOK /\ occurrence \in Occ!Row /\ detail \in DetailType /\ runbook \in RunbookType
      /\ detail.got \in Occ!Row
  BY DEF OccInv, RowOK, DetailOK, DetailType
<1>2. UNCHANGED <<occurrence, requests, mutations, openDialog>>
  BY DEF Occ!RunbookArrives, Occ!AnswerDetail, Occ!DetailArrives, Occ!DetailFails, Occ!Refetch
<1>3. detail' \in DetailType
  <2>1. CASE detail' = detail
    BY <1>1, <2>1
  <2>2. CASE detail' = [detail EXCEPT !.req = "answered", !.got = occurrence]
    BY <1>1, <2>2 DEF DetailType
  <2>3. CASE detail' = [status |-> "success", data |-> detail.got, req |-> "none", got |-> Occ!New]
    BY <1>1, <2>3, NewType DEF DetailType
  <2>4. CASE detail' = [detail EXCEPT !.status = "error", !.req = "none", !.got = Occ!New]
    BY <1>1, <2>4, NewType DEF DetailType
  <2>5. CASE detail' = [detail EXCEPT !.req = "asked"]
    BY <1>1, <2>5 DEF DetailType
  <2>6. QED
    BY <2>1, <2>2, <2>3, <2>4, <2>5
    DEF Occ!RunbookArrives, Occ!AnswerDetail, Occ!DetailArrives, Occ!DetailFails, Occ!Refetch
<1>4. runbook' \in RunbookType
  <2>1. ASSUME NEW view \in {"ok", "error"} PROVE [runbook EXCEPT !.view = view] \in RunbookType
    BY <1>1 DEF RunbookType
  <2>2. QED
    BY <1>1, <2>1, RunbookStep
    DEF Occ!RunbookArrives, Occ!AnswerDetail, Occ!DetailArrives, Occ!DetailFails, Occ!Refetch
<1>5. QED
  BY <1>1, <1>2, <1>3, <1>4 DEF OccInv, RowOK, DetailOK

LEMMA ActionsOfPage ==
    ASSUME OccInv, NEW b \in {"acknowledge", "resolve", "assign"},
           \/ Occ!Acknowledge
           \/ b # "acknowledge" /\ (Occ!OpenDialog(b) \/ Occ!Fill(b) \/ Occ!SubmitDialog(b))
           \/ Occ!CloseDialog
    PROVE  OccInv'
<1>1. /\ RowOK /\ DetailOK /\ b \in Occ!Actions /\ "acknowledge" \in Occ!Actions
  BY DEF OccInv, Occ!Actions
<1>2. UNCHANGED <<occurrence, detail, runbook>>
  BY DEF Occ!Acknowledge, Occ!OpenDialog, Occ!Fill, Occ!SubmitDialog, Occ!CloseDialog
<1>3. CASE Occ!Acknowledge \/ Occ!SubmitDialog(b)
  <2>1. requests' \in [Occ!Actors -> RequestType] /\ mutations' \in [Occ!Actions -> Occ!Errors]
    BY <1>1, <1>3, MutateType DEF Occ!Acknowledge, Occ!SubmitDialog
  <2>2. UNCHANGED openDialog
    BY <1>3 DEF Occ!Acknowledge, Occ!SubmitDialog
  <2>3. QED
    BY <1>1, <1>2, <2>1, <2>2 DEF OccInv, RowOK, DetailOK
<1>4. CASE (b # "acknowledge" /\ (Occ!OpenDialog(b) \/ Occ!Fill(b))) \/ Occ!CloseDialog
  <2>1. openDialog' \in [action : {"none", "resolve", "assign"}, form : {"empty", "invalid", "valid"}]
    <3>1. b # "acknowledge" => [Occ!NoDialog EXCEPT !.action = b] \in
              [action : {"none", "resolve", "assign"}, form : {"empty", "invalid", "valid"}]
      BY DEF Occ!NoDialog
    <3>2. ASSUME NEW f \in {"invalid", "valid"}
          PROVE  [openDialog EXCEPT !.form = f] \in
                     [action : {"none", "resolve", "assign"}, form : {"empty", "invalid", "valid"}]
      BY <1>1 DEF DetailOK
    <3>3. QED
      BY <1>4, <3>1, <3>2, NewType DEF Occ!OpenDialog, Occ!Fill, Occ!CloseDialog
  <2>2. UNCHANGED <<requests, mutations>>
    BY <1>4 DEF Occ!OpenDialog, Occ!Fill, Occ!CloseDialog
  <2>3. QED
    BY <1>1, <1>2, <2>1, <2>2 DEF OccInv, RowOK, DetailOK
<1>5. QED
  BY <1>3, <1>4

LEMMA MutationEndsStep ==
    ASSUME OccInv, NEW a \in Occ!Actions, Occ!MutationEnds(a)
    PROVE  OccInv'
<1>1. /\ RowOK /\ DetailOK /\ a \in Occ!Actors
      /\ requests[a].row \in Occ!Row /\ requests[a].answer \in Occ!Errors
  BY DEF OccInv, RowOK, RequestType, Occ!Actors
<1>2. requests' \in [Occ!Actors -> RequestType] /\ UNCHANGED occurrence
  BY <1>1, NewType DEF Occ!MutationEnds, RowOK
<1>3. detail' \in DetailType
  <2>1. [detail EXCEPT !.status = "success", !.data = requests[a].row] \in DetailType
    BY <1>1 DEF DetailOK, DetailType
  <2>2. QED
    BY <1>1, <2>1 DEF Occ!MutationEnds, DetailOK
<1>4. runbook' \in RunbookType
  BY <1>1, RunbookStep DEF Occ!MutationEnds, DetailOK
<1>5. mutations' \in [Occ!Actions -> Occ!Errors]
  <2>1. ASSUME NEW e \in Occ!Errors PROVE [mutations EXCEPT ![a] = e] \in [Occ!Actions -> Occ!Errors]
    BY <1>1 DEF DetailOK
  <2>2. "failed" \in Occ!Errors
    BY DEF Occ!Errors
  <2>3. QED
    BY <1>1, <2>1, <2>2 DEF Occ!MutationEnds, DetailOK
<1>6. openDialog' \in [action : {"none", "resolve", "assign"}, form : {"empty", "invalid", "valid"}]
  BY <1>1, NewType DEF Occ!MutationEnds, DetailOK
<1>7. QED
  BY <1>1, <1>2, <1>3, <1>4, <1>5, <1>6 DEF OccInv, RowOK, DetailOK

LEMMA OccSteps == OccInv /\ [Occ!Next]_(Occ!vars) => OccInv'
<1> SUFFICES ASSUME OccInv, [Occ!Next]_(Occ!vars) PROVE OccInv'
  OBVIOUS
<1>1. CASE UNCHANGED Occ!vars
  BY <1>1 DEF Occ!vars, OccInv, RowOK, DetailOK
<1>2. CASE Occ!Next
  <2>1. {"resolve", "assign"} \subseteq Occ!Actions /\ Occ!Actions = {"acknowledge", "resolve", "assign"}
        /\ OccOthers \subseteq Occ!Actors
    BY DEF Occ!Actions, Occ!Actors
  <2>2. QED
    BY <1>2, <2>1, RequestStep, DetailStep, ActionsOfPage, MutationEndsStep DEF Occ!Next
<1>3. QED
  BY <1>1, <1>2

\* The moment of the first resolution stays: whoever resolves again after a lost
\* answer, beside another user, or after a late acknowledge (resolve_occurrence).
THEOREM PanelFirstResolutionStays == PanelSpec => PanelResolutionTimeKept
<1> DEFINE Inv == Occ!Open => OccInv
           Kept == Occ!Open /\ occurrence.resolvedAt # 0 => occurrence'.resolvedAt = occurrence.resolvedAt
<1>1. PanelInit => Inv
  BY PageStarts, OccStarts
<1>2. Inv /\ [PanelNext]_panelVars => Inv'
  BY RouteStays, PageSteps, OccSteps DEF Occ!Open
<1>3. Inv /\ [PanelNext]_panelVars => [Kept]_(Occ!vars)
  <2> SUFFICES ASSUME OccInv, Occ!Next, occurrence.resolvedAt # 0
               PROVE  occurrence'.resolvedAt = occurrence.resolvedAt
    BY PageSteps
  <2>1. CASE UNCHANGED occurrence
    BY <2>1
  <2>2. ASSUME NEW a \in Occ!Actors, Occ!Commit(a) PROVE occurrence'.resolvedAt = occurrence.resolvedAt
    <3>1. requests[a].action \in Occ!Actions /\ occurrence \in Occ!Row
      BY DEF OccInv, RowOK, RequestType
    <3>2. QED
      BY <2>2, <3>1, UpdatedRow DEF Occ!Commit
  <2>3. QED
    BY <2>1, <2>2
    DEF Occ!Next, Occ!Fetch, Occ!Update, Occ!OtherAsks, Occ!RunbookArrives, Occ!AnswerDetail,
        Occ!DetailArrives, Occ!DetailFails, Occ!Refetch, Occ!Acknowledge, Occ!OpenDialog, Occ!Fill,
        Occ!SubmitDialog, Occ!CloseDialog, Occ!MutationEnds
<1>4. QED
  BY <1>1, <1>2, <1>3, PTL DEF PanelSpec, PanelResolutionTimeKept, Occ!ResolutionTimeKept

-----------------------------------------------------------------------------
(* The form of a schedule: reading a cron into the builder and writing it   *)
(* back.                                                                    *)

ExprType == [SForm!Fields -> SUBSET [base : {"star", "one", "range"}, a : Nat, b : Nat, step : Nat]]

\* cronToBuilder, then builderToCron.
Rewritten(expr) == SForm!builderToCron(SForm!cronToBuilder(expr))

LEMMA SameCardinality == \A S : SForm!Cardinality(S) = Cardinality(S)
BY DEF SForm!Cardinality, Cardinality

LEMMA RangeType ==
    ASSUME NEW f \in SForm!Fields
    PROVE  /\ First[f] \in Nat /\ Last[f] \in Nat /\ First[f] <= Last[f]
           /\ SForm!RangeOf(f) \subseteq Nat
           /\ IsFiniteSet(SForm!RangeOf(f))
<1>1. First[f] \in Nat /\ Last[f] \in Nat /\ First[f] <= Last[f]
  BY ExprsAssumption DEF SForm!Fields
<1>2. SForm!RangeOf(f) \subseteq Nat
  BY <1>1 DEF SForm!RangeOf
<1>3. IsFiniteSet(SForm!RangeOf(f))
  BY <1>1, FS_Interval DEF SForm!RangeOf
<1>4. QED
  BY <1>1, <1>2, <1>3

\* What a valid field parses to.
LEMMA FieldType ==
    ASSUME NEW expr \in ExprType, SForm!Valid(expr), NEW f \in SForm!Fields
    PROVE  /\ SForm!parseCron(expr)[f].values \in SUBSET SForm!RangeOf(f)
           /\ SForm!parseCron(expr)[f].isWildcard \in BOOLEAN
           /\ SForm!Single(SForm!parseCron(expr)[f]) =>
                 SForm!parseCron(expr)[f].values = {SForm!The(SForm!parseCron(expr)[f])}
<1> DEFINE field == SForm!parseField(expr[f], f)
<1>1. SForm!parseCron(expr)[f] = field
  BY DEF SForm!parseCron
<1>2. ASSUME NEW p \in expr[f] PROVE SForm!PartValues(p, f) \subseteq SForm!RangeOf(f)
  <2>1. SForm!PartValid(p, f)
    BY <1>2 DEF SForm!Valid
  <2>2. p \in [base : {"star", "one", "range"}, a : Nat, b : Nat, step : Nat]
    BY <1>2 DEF ExprType
  <2>3. SForm!From(p, f) \in Nat /\ SForm!To(p, f) \in Nat
    BY <2>2, RangeType DEF SForm!From, SForm!To
  <2>4. QED
    BY <2>1, <2>3, RangeType DEF SForm!PartValid, SForm!PartValues, SForm!RangeOf
<1>3. field.values \in SUBSET SForm!RangeOf(f)
  BY <1>2 DEF SForm!parseField
<1>4. field.isWildcard \in BOOLEAN
  BY DEF SForm!parseField
<1>5. SForm!Single(field) => field.values = {SForm!The(field)}
  <2>1. IsFiniteSet(field.values)
    BY <1>3, RangeType, FS_Subset
  <2>2. SForm!Single(field) => \E v : field.values = {v}
    BY <2>1, FS_Singleton, SameCardinality DEF SForm!Single
  <2>3. QED
    BY <2>2 DEF SForm!The
<1>6. QED
  BY <1>1, <1>3, <1>4, <1>5

\* What the builder writes in a field.
LEMMA WrittenField ==
    ASSUME NEW f \in SForm!Fields
    PROVE  /\ SForm!parseField(SForm!Star, f) = [values |-> SForm!RangeOf(f), isWildcard |-> TRUE]
           /\ \A p \in SForm!Star : SForm!PartValid(p, f)
           /\ \A v \in SForm!RangeOf(f) :
                 /\ SForm!parseField(SForm!Only(v), f) = [values |-> {v}, isWildcard |-> FALSE]
                 /\ \A p \in SForm!Only(v) : SForm!PartValid(p, f)
<1>1. SForm!parseField(SForm!Star, f) = [values |-> SForm!RangeOf(f), isWildcard |-> TRUE]
  <2>1. SForm!PartValues(SForm!Part("star", 0, 0, 0), f) = SForm!RangeOf(f)
    BY DEF SForm!PartValues, SForm!Part, SForm!From, SForm!To, SForm!RangeOf
  <2>2. QED
    BY <2>1 DEF SForm!parseField, SForm!Star, SForm!Part
<1>2. \A p \in SForm!Star : SForm!PartValid(p, f)
  BY RangeType DEF SForm!Star, SForm!Part, SForm!PartValid, SForm!From, SForm!To
<1>3. ASSUME NEW v \in SForm!RangeOf(f)
      PROVE  /\ SForm!parseField(SForm!Only(v), f) = [values |-> {v}, isWildcard |-> FALSE]
             /\ \A p \in SForm!Only(v) : SForm!PartValid(p, f)
  <2>1. v \in Nat /\ First[f] \in Nat /\ Last[f] \in Nat /\ First[f] <= v /\ v <= Last[f]
    BY <1>3, RangeType DEF SForm!RangeOf
  <2>2. SForm!PartValues(SForm!Part("one", v, v, 0), f) = {v}
    BY <2>1 DEF SForm!PartValues, SForm!Part, SForm!From, SForm!To
  <2>3. SForm!parseField(SForm!Only(v), f) = [values |-> {v}, isWildcard |-> FALSE]
    <3>1. UNION {SForm!PartValues(p, f) : p \in SForm!Only(v)} = {v}
      BY <2>2 DEF SForm!Only
    <3>2. ~ \E p \in SForm!Only(v) : p.base = "star"
      BY DEF SForm!Only, SForm!Part
    <3>3. QED
      BY <3>1, <3>2 DEF SForm!parseField
  <2>4. \A p \in SForm!Only(v) : SForm!PartValid(p, f)
    BY <2>1 DEF SForm!Only, SForm!Part, SForm!PartValid, SForm!From, SForm!To
  <2>5. QED
    BY <2>3, <2>4
<1>4. QED
  BY <1>1, <1>2, <1>3

\* What an expression fires at is what its fields say of day and weekday.
LEMMA SameFields ==
    ASSUME NEW e1, NEW e2, SForm!Valid(e1), SForm!Valid(e2),
           \A f \in SForm!Fields :
               SForm!parseCron(e1)[f].values = SForm!parseCron(e2)[f].values,
           \A f \in {"day", "dow"} :
               SForm!parseCron(e1)[f].isWildcard = SForm!parseCron(e2)[f].isWildcard
    PROVE  SForm!Fires(e1) = SForm!Fires(e2)
<1>1. \A t : SForm!matches(t, SForm!parseCron(e1)) = SForm!matches(t, SForm!parseCron(e2))
  BY DEF SForm!matches, SForm!Fields
<1>2. QED
  BY <1>1 DEF SForm!Fires, SForm!computeNextRuns

\* A builder's value, written and parsed.
LEMMA WrittenExpr ==
    ASSUME NEW b, b.hour \in SForm!RangeOf("hour"), b.minute \in SForm!RangeOf("minute"),
           NEW day \in {SForm!Star} \cup {SForm!Only(v) : v \in SForm!RangeOf("day")},
           NEW dow \in {SForm!Star} \cup {SForm!Only(v) : v \in SForm!RangeOf("dow")},
           NEW expr, expr = SForm!At(b, day, dow)
    PROVE  /\ SForm!Valid(expr)
           /\ SForm!parseCron(expr)["minute"].values = {b.minute}
           /\ SForm!parseCron(expr)["hour"].values = {b.hour}
           /\ SForm!parseCron(expr)["day"] = SForm!parseField(day, "day")
           /\ SForm!parseCron(expr)["month"].values = SForm!RangeOf("month")
           /\ SForm!parseCron(expr)["dow"] = SForm!parseField(dow, "dow")
<1>1. /\ expr["minute"] = SForm!Only(b.minute) /\ expr["hour"] = SForm!Only(b.hour)
      /\ expr["day"] = day /\ expr["month"] = SForm!Star /\ expr["dow"] = dow
  BY DEF SForm!At
<1>2. SForm!Star # {} /\ \A v : SForm!Only(v) # {}
  BY DEF SForm!Star, SForm!Only
<1>3. SForm!Fields = {"minute", "hour", "day", "month", "dow"}
  BY DEF SForm!Fields
<1>4. SForm!Valid(expr)
  BY <1>1, <1>2, <1>3, WrittenField DEF SForm!Valid
<1>5. \A f \in SForm!Fields : SForm!parseCron(expr)[f] = SForm!parseField(expr[f], f)
  BY DEF SForm!parseCron
<1>6. QED
  BY <1>1, <1>3, <1>4, <1>5, WrittenField

\* Reading an expression into the builder and writing it back keeps when it fires.
LEMMA RoundTrip ==
    ASSUME NEW expr \in ExprType, ~SForm!LostInBuilder(expr)
    PROVE  SForm!Fires(Rewritten(expr)) = SForm!Fires(expr)
<1> DEFINE p == SForm!parseCron(expr)
           h == SForm!The(p["hour"])
           m == SForm!The(p["minute"])
<1> HIDE DEF p, h, m
<1>1. SForm!cronToBuilder(expr) = SForm!Custom(expr) => Rewritten(expr) = expr
  BY DEF Rewritten, SForm!builderToCron, SForm!Custom
<1>2. CASE ~SForm!Valid(expr) \/ SForm!DayForm(p) = "custom"
  BY <1>1, <1>2 DEF SForm!cronToBuilder, p
<1>3. CASE SForm!Valid(expr) /\ SForm!DayForm(p) # "custom"
  <2>1. /\ SForm!Single(p["minute"]) /\ SForm!Single(p["hour"]) /\ SForm!AllOf(p["month"], "month")
        /\ SForm!DayForm(p) \in {"daily", "weekly", "monthly"}
    BY <1>3 DEF SForm!DayForm, SForm!Single, SForm!AllOf
  <2>2. /\ {"minute", "hour", "day", "month", "dow"} = SForm!Fields
        /\ \A f \in SForm!Fields :
              /\ p[f].values \in SUBSET SForm!RangeOf(f)
              /\ p[f].isWildcard \in BOOLEAN
              /\ SForm!Single(p[f]) => p[f].values = {SForm!The(p[f])}
    BY <1>3, FieldType DEF SForm!Fields, p
  <2>3. /\ h \in SForm!RangeOf("hour") /\ p["hour"].values = {h}
        /\ m \in SForm!RangeOf("minute") /\ p["minute"].values = {m}
        /\ p["month"].values = SForm!RangeOf("month")
    BY <2>1, <2>2 DEF SForm!AllOf, h, m
  <2>4. \A f \in {"day", "dow"} :
            /\ SForm!AllOf(p[f], f) /\ ~SForm!Single(p[f]) => p[f].isWildcard
            /\ p[f].isWildcard => ~SForm!Single(p[f])
            /\ SForm!AllOf(p[f], f) => p[f].isWildcard
    BY DEF SForm!LostInBuilder, SForm!Confusing, p
  <2> DEFINE Field(f, field) ==
               /\ field \in {SForm!Star} \cup {SForm!Only(v) : v \in SForm!RangeOf(f)}
               /\ SForm!parseField(field, f) = [values |-> p[f].values, isWildcard |-> p[f].isWildcard]
             Written(b, day, dow) ==
               /\ Rewritten(expr) = SForm!At(b, day, dow) /\ b.hour = h /\ b.minute = m
               /\ Field("day", day) /\ Field("dow", dow)
  <2>5. ASSUME NEW f \in {"day", "dow"}, SForm!AllOf(p[f], f) PROVE Field(f, SForm!Star)
    <3>1. p[f].isWildcard = TRUE
      BY <2>2, <2>4, <2>5
    <3>2. QED
      BY <2>2, <2>5, <3>1, WrittenField DEF SForm!AllOf
  <2>6. ASSUME NEW f \in {"day", "dow"}, SForm!Single(p[f])
        PROVE  Field(f, SForm!Only(SForm!The(p[f])))
    <3>1. p[f].isWildcard = FALSE
      BY <2>2, <2>4, <2>6
    <3>2. p[f].values = {SForm!The(p[f])} /\ SForm!The(p[f]) \in SForm!RangeOf(f)
      BY <2>2, <2>6
    <3>3. f \in SForm!Fields
      BY <2>2
    <3>4. SForm!parseField(SForm!Only(SForm!The(p[f])), f) =
              [values |-> {SForm!The(p[f])}, isWildcard |-> FALSE]
      BY <3>2, <3>3, WrittenField
    <3>5. QED
      BY <3>1, <3>2, <3>4
  <2> HIDE DEF Field
  <2>7. \E b, day, dow : Written(b, day, dow)
    <3>1. CASE SForm!DayForm(p) = "daily"
      <4>1. SForm!cronToBuilder(expr) = SForm!Daily(h, m)
        BY <1>3, <3>1 DEF SForm!cronToBuilder, p, h, m
      <4>2. Rewritten(expr) = SForm!At(SForm!Daily(h, m), SForm!Star, SForm!Star)
        BY <4>1 DEF Rewritten, SForm!builderToCron, SForm!Daily
      <4>3. SForm!AllOf(p["day"], "day") /\ SForm!AllOf(p["dow"], "dow")
        BY <3>1, <2>1 DEF SForm!DayForm
      <4>4. SForm!Daily(h, m).hour = h /\ SForm!Daily(h, m).minute = m
        BY DEF SForm!Daily
      <4>5. QED
        BY <2>5, <4>2, <4>3, <4>4
    <3>2. CASE SForm!DayForm(p) = "weekly"
      <4> DEFINE v == SForm!The(p["dow"])
      <4>1. SForm!cronToBuilder(expr) = SForm!Weekly(v, h, m)
        BY <1>3, <3>2 DEF SForm!cronToBuilder, p, h, m
      <4>2. Rewritten(expr) = SForm!At(SForm!Weekly(v, h, m), SForm!Star, SForm!Only(v))
        BY <4>1 DEF Rewritten, SForm!builderToCron, SForm!Weekly
      <4>3. SForm!AllOf(p["day"], "day") /\ SForm!Single(p["dow"])
        BY <3>2, <2>1 DEF SForm!DayForm
      <4>4. SForm!Weekly(v, h, m).hour = h /\ SForm!Weekly(v, h, m).minute = m
        BY DEF SForm!Weekly
      <4>5. QED
        BY <2>5, <2>6, <4>2, <4>3, <4>4
    <3>3. CASE SForm!DayForm(p) = "monthly"
      <4> DEFINE v == SForm!The(p["day"])
      <4>1. SForm!cronToBuilder(expr) = SForm!Monthly(v, h, m)
        BY <1>3, <3>3 DEF SForm!cronToBuilder, p, h, m
      <4>2. Rewritten(expr) = SForm!At(SForm!Monthly(v, h, m), SForm!Only(v), SForm!Star)
        BY <4>1 DEF Rewritten, SForm!builderToCron, SForm!Monthly
      <4>3. SForm!AllOf(p["dow"], "dow") /\ SForm!Single(p["day"])
        BY <3>3, <2>1 DEF SForm!DayForm
      <4>4. SForm!Monthly(v, h, m).hour = h /\ SForm!Monthly(v, h, m).minute = m
        BY DEF SForm!Monthly
      <4>5. QED
        BY <2>5, <2>6, <4>2, <4>3, <4>4
    <3>4. QED
      BY <2>1, <3>1, <3>2, <3>3
  <2>8. PICK b, day, dow : Written(b, day, dow)
    BY <2>7
  <2>9. /\ SForm!Valid(Rewritten(expr))
        /\ \A f \in SForm!Fields : SForm!parseCron(Rewritten(expr))[f].values = p[f].values
        /\ \A f \in {"day", "dow"} :
              SForm!parseCron(Rewritten(expr))[f].isWildcard = p[f].isWildcard
    <3> DEFINE q == SForm!parseCron(Rewritten(expr))
    <3>1. /\ Rewritten(expr) = SForm!At(b, day, dow) /\ b.hour = h /\ b.minute = m
          /\ Field("day", day) /\ Field("dow", dow)
      BY <2>8
    <3>2. /\ SForm!Valid(Rewritten(expr))
          /\ q["minute"].values = {m} /\ q["hour"].values = {h}
          /\ q["day"] = SForm!parseField(day, "day")
          /\ q["month"].values = SForm!RangeOf("month")
          /\ q["dow"] = SForm!parseField(dow, "dow")
      <4>1. /\ day \in {SForm!Star} \cup {SForm!Only(v) : v \in SForm!RangeOf("day")}
            /\ dow \in {SForm!Star} \cup {SForm!Only(v) : v \in SForm!RangeOf("dow")}
        BY <3>1 DEF Field
      <4>2. b.hour \in SForm!RangeOf("hour") /\ b.minute \in SForm!RangeOf("minute")
        BY <2>3, <3>1
      <4>3. QED
        BY <3>1, <4>1, <4>2, WrittenExpr
    <3>3. \A f \in {"day", "dow"} : q[f] = [values |-> p[f].values, isWildcard |-> p[f].isWildcard]
      BY <3>1, <3>2 DEF Field
    <3> HIDE DEF q
    <3>4. \A f \in {"day", "dow"} : q[f].values = p[f].values /\ q[f].isWildcard = p[f].isWildcard
      BY <3>3
    <3>5. QED
      BY <2>2, <2>3, <3>2, <3>4 DEF q, SForm!Fields
  <2>10. QED
    BY <1>3, <2>9, SameFields DEF p
<1>4. QED
  BY <1>2, <1>3

\* The crons of schedules, and the values of the builder.
CronSet == Exprs \cup {SForm!builderToCron(b) : b \in SForm!Builders}
BuilderSet == SForm!Builders \cup {SForm!Custom(e) : e \in CronSet}
OpenForm == [builder : BuilderSet, submitting : BOOLEAN, sent : CronSet \cup {SForm!NoSchedule},
             submitError : BOOLEAN]

FormTypes ==
    /\ saved \in CronSet \cup {SForm!NoSchedule}
    /\ original \in CronSet \cup {SForm!NoSchedule}
    /\ form \in {SForm!Closed} \cup OpenForm
    /\ form.submitting => form \in OpenForm /\ form.sent # SForm!NoSchedule

\* While the user has chosen no frequency, the form holds the schedule's cron, and
\* what it sends or has saved is that cron as the builder writes it.
Untouched == original # SForm!NoSchedule =>
    /\ saved \in {original, Rewritten(original)}
    /\ form # SForm!Closed => form.builder = SForm!cronToBuilder(original)
    /\ form.submitting => form.sent = Rewritten(original)

FormInv == FormTypes /\ Untouched

LEMMA BuilderCases ==
    ASSUME NEW b \in SForm!Builders
    PROVE  /\ b.hour \in SForm!RangeOf("hour") /\ b.minute \in SForm!RangeOf("minute")
           /\ \/ b.mode = "daily"
              \/ b.mode = "weekly" /\ b.dow \in SForm!RangeOf("dow")
              \/ b.mode = "monthly" /\ b.day \in SForm!RangeOf("day")
BY DEF SForm!Builders, SForm!Daily, SForm!Weekly, SForm!Monthly

\* What the builder writes is an expression.
LEMMA CronType == CronSet \subseteq ExprType /\ SForm!NoSchedule \notin CronSet
<1>1. ASSUME NEW b \in SForm!Builders PROVE SForm!builderToCron(b) \in ExprType
  <2>1. ASSUME NEW f \in SForm!Fields, NEW v \in SForm!RangeOf(f)
        PROVE  SForm!Only(v) \subseteq [base : {"star", "one", "range"}, a : Nat, b : Nat, step : Nat]
    <3>1. v \in Nat
      BY <2>1, RangeType
    <3>2. QED
      BY <3>1 DEF SForm!Only, SForm!Part
  <2>2. SForm!Star \subseteq [base : {"star", "one", "range"}, a : Nat, b : Nat, step : Nat]
    BY DEF SForm!Star, SForm!Part
  <2>3. ASSUME NEW day \in {SForm!Star} \cup {SForm!Only(v) : v \in SForm!RangeOf("day")},
               NEW dow \in {SForm!Star} \cup {SForm!Only(v) : v \in SForm!RangeOf("dow")}
        PROVE  SForm!At(b, day, dow) \in ExprType
    <3>1. /\ day \subseteq [base : {"star", "one", "range"}, a : Nat, b : Nat, step : Nat]
          /\ dow \subseteq [base : {"star", "one", "range"}, a : Nat, b : Nat, step : Nat]
      BY <2>1, <2>2, <2>3 DEF SForm!Fields
    <3>2. /\ SForm!Only(b.minute) \subseteq [base : {"star", "one", "range"}, a : Nat, b : Nat, step : Nat]
          /\ SForm!Only(b.hour) \subseteq [base : {"star", "one", "range"}, a : Nat, b : Nat, step : Nat]
      BY <2>1, BuilderCases DEF SForm!Fields
    <3>3. QED
      BY <2>2, <3>1, <3>2 DEF ExprType, SForm!At, SForm!Fields
  <2>4. QED
    BY <2>3, BuilderCases DEF SForm!builderToCron
<1>2. Exprs \subseteq ExprType
  BY ExprsAssumption DEF ExprType, SForm!Fields
<1>3. SForm!NoSchedule \notin ExprType
  <2>1. SForm!Part("none", 0, 0, 0) \in SForm!NoSchedule["day"]
    BY DEF SForm!NoSchedule, SForm!Fields
  <2>2. SForm!Part("none", 0, 0, 0) \notin
            [base : {"star", "one", "range"}, a : Nat, b : Nat, step : Nat]
    BY DEF SForm!Part
  <2>3. QED
    BY <2>1, <2>2 DEF ExprType, SForm!Fields
<1>4. QED
  BY <1>1, <1>2, <1>3 DEF CronSet

LEMMA BuilderType ==
    /\ \A e \in CronSet : SForm!cronToBuilder(e) \in BuilderSet
    /\ \A b \in BuilderSet : SForm!builderToCron(b) \in CronSet
<1>1. ASSUME NEW e \in CronSet PROVE SForm!cronToBuilder(e) \in BuilderSet
  <2> DEFINE p == SForm!parseCron(e)
  <2>1. e \in ExprType /\ SForm!Custom(e) \in BuilderSet
    BY <1>1, CronType DEF BuilderSet
  <2>2. CASE ~SForm!Valid(e) \/ SForm!DayForm(p) = "custom"
    BY <2>1, <2>2 DEF SForm!cronToBuilder
  <2>3. CASE SForm!Valid(e) /\ SForm!DayForm(p) # "custom"
    <3>1. \A f \in {"minute", "hour", "day", "dow"} :
              SForm!Single(p[f]) => SForm!The(p[f]) \in SForm!RangeOf(f)
      BY <2>1, <2>3, FieldType DEF SForm!Fields
    <3> HIDE DEF p
    <3>2. /\ SForm!Single(p["minute"]) /\ SForm!Single(p["hour"])
          /\ \/ SForm!DayForm(p) = "daily"
             \/ SForm!DayForm(p) = "weekly" /\ SForm!Single(p["dow"])
             \/ SForm!DayForm(p) = "monthly" /\ SForm!Single(p["day"])
      BY <2>3 DEF SForm!DayForm
    <3>3. QED
      BY <2>3, <3>1, <3>2 DEF SForm!cronToBuilder, BuilderSet, SForm!Builders, p
  <2>4. QED
    BY <2>2, <2>3
<1>2. ASSUME NEW b \in BuilderSet PROVE SForm!builderToCron(b) \in CronSet
  <2>1. CASE b \in SForm!Builders
    BY <2>1 DEF CronSet
  <2>2. ASSUME NEW e \in CronSet, b = SForm!Custom(e) PROVE SForm!builderToCron(b) \in CronSet
    <3>1. SForm!builderToCron(b) = e
      BY <2>2 DEF SForm!builderToCron, SForm!Custom
    <3>2. QED
      BY <2>2, <3>1
  <2>3. QED
    BY <2>1, <2>2 DEF BuilderSet
<1>3. QED
  BY <1>1, <1>2

LEMMA FormStarts == SForm!Init => FormInv
<1> SUFFICES ASSUME SForm!Init PROVE FormInv
  OBVIOUS
<1>1. saved \in CronSet \cup {SForm!NoSchedule} /\ original = saved /\ form = SForm!Closed
  BY DEF SForm!Init, CronSet
<1>2. QED
  BY <1>1 DEF FormInv, FormTypes, Untouched, SForm!Closed

\* What the user can do to the builder.
LEMMA BuildStep ==
    ASSUME FormInv, NEW b \in BuilderSet, SForm!Build(b)
    PROVE  FormInv'
<1>1. form \in OpenForm
  BY DEF FormInv, FormTypes, SForm!Build
<1>2. form' \in OpenForm /\ form'.submitting = form.submitting /\ form'.sent = form.sent
  BY <1>1 DEF SForm!Build, OpenForm
<1>3. QED
  BY <1>1, <1>2 DEF SForm!Build, FormInv, FormTypes, Untouched

LEMMA FormSteps == FormInv /\ [SForm!Next]_(SForm!vars) => FormInv'
<1> SUFFICES ASSUME FormInv, [SForm!Next]_(SForm!vars) PROVE FormInv'
  OBVIOUS
<1>1. CASE UNCHANGED SForm!vars
  BY <1>1 DEF SForm!vars, FormInv, FormTypes, Untouched
<1>2. CASE SForm!OpenDialog
  <2>1. /\ saved \in CronSet \cup {SForm!NoSchedule} /\ original' = saved /\ saved' = saved
        /\ form' = [SForm!Closed EXCEPT !.builder = SForm!makeDefaultState(saved)]
    BY <1>2 DEF SForm!OpenDialog, FormInv, FormTypes
  <2>2. SForm!makeDefaultState(saved) \in BuilderSet
    <3>1. SForm!Daily(Last["hour"], First["minute"]) \in BuilderSet
      <4>1. Last["hour"] \in SForm!RangeOf("hour") /\ First["minute"] \in SForm!RangeOf("minute")
        BY RangeType DEF SForm!RangeOf, SForm!Fields
      <4>2. QED
        BY <4>1 DEF BuilderSet, SForm!Builders
    <3>2. QED
      BY <2>1, <3>1, BuilderType DEF SForm!makeDefaultState
  <2>3. form' \in OpenForm /\ ~form'.submitting
        /\ form'.builder = SForm!makeDefaultState(saved)
    BY <2>1, <2>2 DEF OpenForm, SForm!Closed
  <2>4. saved # SForm!NoSchedule => SForm!makeDefaultState(saved) = SForm!cronToBuilder(saved)
    BY DEF SForm!makeDefaultState
  <2>5. QED
    BY <2>1, <2>3, <2>4 DEF FormInv, FormTypes, Untouched
<1>3. CASE SForm!CloseDialog
  BY <1>3 DEF SForm!CloseDialog, FormInv, FormTypes, Untouched, SForm!Closed
<1>4. CASE SForm!patchBuilder
  <2>1. SForm!Builders \cup {SForm!Custom(e) : e \in Exprs} \subseteq BuilderSet
    BY DEF BuilderSet, CronSet
  <2>2. QED
    BY <1>4, <2>1, BuildStep DEF SForm!patchBuilder
<1>5. CASE SForm!applyPreset
  BY <1>5, BuildStep, BuilderType DEF SForm!applyPreset, CronSet
<1>6. ASSUME NEW mode \in {"daily", "weekly", "monthly", "custom"}, SForm!setMode(mode) PROVE FormInv'
  <2> DEFINE old == form.builder
             timed == old.mode # "custom"
             h == IF timed THEN old.hour ELSE Last["hour"]
             m == IF timed THEN old.minute ELSE First["minute"]
  <2>1. form \in OpenForm /\ old \in BuilderSet
    BY <1>6 DEF SForm!setMode, FormInv, FormTypes, OpenForm
  <2>2. timed => old \in SForm!Builders
    BY <2>1 DEF BuilderSet, SForm!Custom
  <2>3. h \in SForm!RangeOf("hour") /\ m \in SForm!RangeOf("minute")
    BY <2>2, BuilderCases, RangeType DEF SForm!RangeOf, SForm!Fields
  <2>4. First["dow"] + 1 \in SForm!RangeOf("dow") /\ First["day"] \in SForm!RangeOf("day")
    BY ExprsAssumption DEF SForm!RangeOf
  <2>5. SForm!Custom(SForm!builderToCron(old)) \in BuilderSet
    BY <2>1, BuilderType DEF BuilderSet
  <2> HIDE DEF h, m
  <2>6. SForm!Daily(h, m) \in BuilderSet /\ SForm!Weekly(First["dow"] + 1, h, m) \in BuilderSet
        /\ SForm!Monthly(First["day"], h, m) \in BuilderSet
    BY <2>3, <2>4 DEF BuilderSet, SForm!Builders
  <2>7. \/ SForm!Build(SForm!Daily(h, m))
        \/ SForm!Build(SForm!Weekly(First["dow"] + 1, h, m))
        \/ SForm!Build(SForm!Monthly(First["day"], h, m))
        \/ SForm!Build(SForm!Custom(SForm!builderToCron(old)))
    BY <1>6 DEF SForm!setMode, h, m
  <2>8. QED
    BY <2>5, <2>6, <2>7, BuildStep
<1>7. CASE SForm!handleSubmit
  <2>1. form \in OpenForm
    BY <1>7 DEF SForm!handleSubmit, FormInv, FormTypes
  <2>2. SForm!cronExpr \in CronSet
    BY <2>1, BuilderType DEF SForm!cronExpr, OpenForm
  <2>3. /\ form' \in OpenForm /\ form'.sent = SForm!cronExpr /\ form'.builder = form.builder
        /\ UNCHANGED <<saved, original>>
    BY <1>7, <2>1, <2>2 DEF SForm!handleSubmit, OpenForm
  <2>4. original # SForm!NoSchedule => SForm!cronExpr = Rewritten(original)
    BY <1>7 DEF SForm!handleSubmit, FormInv, Untouched, SForm!cronExpr, Rewritten
  <2>5. original # SForm!NoSchedule => form.builder = SForm!cronToBuilder(original)
    BY <1>7 DEF SForm!handleSubmit, FormInv, Untouched
  <2>6. QED
    BY <2>2, <2>3, <2>4, <2>5, CronType DEF FormInv, FormTypes, Untouched
<1>8. CASE SForm!SubmitEnds
  <2>1. form \in OpenForm /\ form.sent \in CronSet /\ form.submitting
    BY <1>8 DEF SForm!SubmitEnds, FormInv, FormTypes, OpenForm
  <2>2. saved' \in {saved, form.sent} /\ UNCHANGED original
    BY <1>8 DEF SForm!SubmitEnds
  <2>3. /\ saved' \in CronSet \cup {SForm!NoSchedule}
        /\ original' \in CronSet \cup {SForm!NoSchedule}
        /\ original' # SForm!NoSchedule => saved' \in {original, Rewritten(original)}
    BY <2>1, <2>2 DEF FormInv, FormTypes, Untouched
  <2>4. CASE form' = SForm!Closed
    BY <2>2, <2>3, <2>4 DEF FormInv, FormTypes, Untouched, SForm!Closed
  <2>5. CASE form' = [form EXCEPT !.submitting = FALSE, !.sent = SForm!NoSchedule, !.submitError = TRUE]
    <3>1. form' \in OpenForm /\ ~form'.submitting /\ form'.builder = form.builder
      BY <2>1, <2>5 DEF OpenForm
    <3>2. form # SForm!Closed
      BY <2>1 DEF SForm!Closed
    <3>3. QED
      BY <2>2, <2>3, <3>1, <3>2 DEF FormInv, FormTypes, Untouched
  <2>6. QED
    BY <1>8, <2>4, <2>5 DEF SForm!SubmitEnds
<1>9. QED
  BY <1>1, <1>2, <1>3, <1>4, <1>5, <1>6, <1>7, <1>8 DEF SForm!Next

\* Editing a schedule without choosing a frequency leaves it firing when it did,
\* on any calendar, for every expression of a schedule whose days and weekdays the
\* builder can tell from others (cronToBuilder and builderToCron, cron.ts).
THEOREM PanelEditLosesNothing == PanelSpec => []PanelEditKeepsRuns
<1> DEFINE Inv == SForm!Open => FormInv
<1>1. PanelInit => Inv
  BY PageStarts, FormStarts
<1>2. Inv /\ [PanelNext]_panelVars => Inv'
  BY RouteStays, PageSteps, FormSteps DEF SForm!Open
<1>3. Inv => PanelEditKeepsRuns
  BY RoundTrip, CronType
  DEF FormInv, FormTypes, Untouched, PanelEditKeepsRuns, SForm!EditKeepsRuns
<1>4. QED
  BY <1>1, <1>2, <1>3, PTL DEF PanelSpec

-----------------------------------------------------------------------------
(* The list of companies (Companies).                                       *)

PostType == [at : {"none", "sent", "counted", "inserted", "answered"}, cnpj : SUBSET Cnpjs,
             answer : Comp!Errors]
ListType == [view : {"loading", "rows", "error"}, rows : SUBSET Cnpjs,
             req : {"none", "asked", "answered"}, got : SUBSET Cnpjs]
NewDialogType == [open : BOOLEAN, cnpj : SUBSET Cnpjs, valid : BOOLEAN, told : BOOLEAN,
                  submitting : BOOLEAN, error : Comp!Errors]

CompInv ==
    /\ companiesLive \subseteq Cnpjs
    /\ posts \in [Comp!Users -> PostType]
    /\ list \in ListType
    /\ newDialog \in NewDialogType

LEMMA EmptyTypes == Comp!NoPost \in PostType /\ Comp!NoDialog \in NewDialogType
BY DEF Comp!NoPost, PostType, Comp!NoDialog, NewDialogType, Comp!Errors

LEMMA CompStarts == Comp!Init => CompInv
<1> SUFFICES ASSUME Comp!Init PROVE CompInv
  OBVIOUS
<1>1. list \in ListType
  BY DEF Comp!Init, ListType
<1>2. QED
  BY <1>1, EmptyTypes DEF Comp!Init, CompInv

\* What becomes of the POST of a user.
LEMMA PostStep ==
    ASSUME CompInv, NEW u \in Comp!Users,
           \/ \E error \in Comp!Errors : Comp!Answer(u, error)
           \/ \E at \in {"counted", "inserted"} : posts' = [posts EXCEPT ![u].at = at]
           \/ \E c \in SUBSET Cnpjs : posts' = [posts EXCEPT ![u] = [Comp!NoPost EXCEPT !.at = "sent", !.cnpj = c]]
           \/ posts' = [posts EXCEPT ![u] = Comp!NoPost]
    PROVE  posts' \in [Comp!Users -> PostType]
<1>1. posts \in [Comp!Users -> PostType]
  BY DEF CompInv
<1>2. ASSUME NEW error \in Comp!Errors, Comp!Answer(u, error) PROVE posts' \in [Comp!Users -> PostType]
  <2>1. [posts[u] EXCEPT !.at = "answered", !.answer = error] \in PostType
    BY <1>1, <1>2 DEF PostType
  <2>2. posts' = [posts EXCEPT ![u] = [posts[u] EXCEPT !.at = "answered", !.answer = error]]
        \/ posts' = [posts EXCEPT ![u] = Comp!NoPost]
    BY <1>2 DEF Comp!Answer
  <2>3. QED
    BY <1>1, <2>1, <2>2, EmptyTypes
<1>3. ASSUME NEW at \in {"counted", "inserted"}, posts' = [posts EXCEPT ![u].at = at]
      PROVE  posts' \in [Comp!Users -> PostType]
  <2>1. [posts[u] EXCEPT !.at = at] \in PostType
    BY <1>1 DEF PostType
  <2>2. QED
    BY <1>1, <1>3, <2>1
<1>4. ASSUME NEW c \in SUBSET Cnpjs PROVE [Comp!NoPost EXCEPT !.at = "sent", !.cnpj = c] \in PostType
  BY EmptyTypes DEF PostType
<1>5. QED
  BY <1>1, <1>2, <1>3, <1>4, EmptyTypes

LEMMA CompSteps == CompInv /\ [Comp!Next]_(Comp!vars) => CompInv'
<1> SUFFICES ASSUME CompInv, [Comp!Next]_(Comp!vars) PROVE CompInv'
  OBVIOUS
<1>1. /\ companiesLive \subseteq Cnpjs /\ posts \in [Comp!Users -> PostType]
      /\ list \in ListType /\ newDialog \in NewDialogType
  BY DEF CompInv
<1>2. {"none", "limit", "exists", "forbidden", "failed", "network"} = Comp!Errors
      /\ Me \in Comp!Users /\ CompOthers \subseteq Comp!Users
  BY DEF Comp!Errors, Comp!Users
<1>3. CASE UNCHANGED Comp!vars
  BY <1>3 DEF Comp!vars, CompInv
<1>4. ASSUME NEW u \in Comp!Users, Comp!Count(u) \/ Comp!Insert(u) PROVE CompInv'
  <2>1. UNCHANGED <<companiesLive, list, newDialog>>
    BY <1>4 DEF Comp!Count, Comp!Insert
  <2>2. posts' \in [Comp!Users -> PostType]
    BY <1>2, <1>4, PostStep DEF Comp!Count, Comp!Insert
  <2>3. QED
    BY <1>1, <2>1, <2>2 DEF CompInv
<1>5. ASSUME NEW u \in Comp!Users, Comp!Commit(u) PROVE CompInv'
  <2>1. posts[u].cnpj \subseteq Cnpjs
    BY <1>1 DEF PostType
  <2>2. posts' \in [Comp!Users -> PostType]
    BY <1>2, <1>5, PostStep DEF Comp!Commit
  <2>3. QED
    BY <1>1, <1>5, <2>1, <2>2 DEF Comp!Commit, CompInv
<1>6. ASSUME NEW u \in Comp!Users, Comp!OtherCreates(u) PROVE CompInv'
  <2>1. \E c \in Cnpjs : posts' = [posts EXCEPT ![u] = [Comp!NoPost EXCEPT !.at = "sent", !.cnpj = {c}]]
    BY <1>6 DEF Comp!OtherCreates
  <2>2. posts' \in [Comp!Users -> PostType]
    BY <2>1, PostStep
  <2>3. QED
    BY <1>1, <1>6, <2>2 DEF Comp!OtherCreates, CompInv
<1>7. ASSUME NEW c \in Cnpjs, Comp!soft_delete_company(c) PROVE CompInv'
  BY <1>1, <1>7 DEF Comp!soft_delete_company, CompInv
<1>8. CASE Comp!Refetch \/ Comp!AnswerList \/ Comp!ListArrives
  <2>1. UNCHANGED <<companiesLive, posts, newDialog>>
    BY <1>8 DEF Comp!Refetch, Comp!AnswerList, Comp!ListArrives
  <2>2. list' \in ListType
    <3>1. [list EXCEPT !.req = "asked"] \in ListType
      BY <1>1 DEF ListType
    <3>2. [list EXCEPT !.req = "answered", !.got = companiesLive] \in ListType
      BY <1>1 DEF ListType
    <3>3. [view |-> "rows", rows |-> list.got, req |-> "none", got |-> {}] \in ListType
      BY <1>1 DEF ListType
    <3>4. [list EXCEPT !.view = "error", !.req = "none", !.got = {}] \in ListType
      BY <1>1 DEF ListType
    <3>5. QED
      BY <1>8, <3>1, <3>2, <3>3, <3>4 DEF Comp!Refetch, Comp!AnswerList, Comp!ListArrives
  <2>3. QED
    BY <1>1, <2>1, <2>2 DEF CompInv
<1>9. CASE Comp!OpenDialog \/ Comp!Fill \/ Comp!Refuse \/ Comp!CloseDialog
  <2>1. UNCHANGED <<companiesLive, posts, list>>
    BY <1>9 DEF Comp!OpenDialog, Comp!Fill, Comp!Refuse, Comp!CloseDialog
  <2>2. newDialog' \in NewDialogType
    <3>1. [Comp!NoDialog EXCEPT !.open = TRUE] \in NewDialogType
      BY EmptyTypes DEF NewDialogType
    <3>2. ASSUME NEW c \in Cnpjs, NEW valid \in BOOLEAN,
                 newDialog' = [newDialog EXCEPT !.cnpj = {c}, !.valid = valid, !.told = @ /\ ~valid]
          PROVE  newDialog' \in NewDialogType
      BY <1>1, <3>2 DEF NewDialogType
    <3>3. [newDialog EXCEPT !.told = TRUE] \in NewDialogType
      BY <1>1 DEF NewDialogType
    <3>4. QED
      BY <1>9, <3>1, <3>2, <3>3, EmptyTypes DEF Comp!OpenDialog, Comp!Fill, Comp!Refuse, Comp!CloseDialog
  <2>3. QED
    BY <1>1, <2>1, <2>2 DEF CompInv
<1>10. CASE Comp!onSubmit
  <2>1. newDialog.cnpj \in SUBSET Cnpjs
    BY <1>1 DEF NewDialogType
  <2>2. posts' \in [Comp!Users -> PostType]
    BY <1>2, <1>10, <2>1, PostStep DEF Comp!onSubmit
  <2>3. [newDialog EXCEPT !.submitting = TRUE, !.told = FALSE, !.error = "none"] \in NewDialogType
    BY <1>1, <1>2 DEF NewDialogType
  <2>4. QED
    BY <1>1, <1>10, <2>2, <2>3 DEF Comp!onSubmit, CompInv
<1>11. CASE Comp!PostEnds
  <2>1. posts' \in [Comp!Users -> PostType] /\ UNCHANGED companiesLive
    BY <1>2, <1>11, PostStep DEF Comp!PostEnds
  <2>2. [list EXCEPT !.req = "asked", !.got = {}] \in ListType
    BY <1>1 DEF ListType
  <2>3. ASSUME NEW error \in Comp!Errors
        PROVE  [newDialog EXCEPT !.submitting = FALSE, !.error = error] \in NewDialogType
    BY <1>1 DEF NewDialogType
  <2>4. posts[Me].answer \in Comp!Errors /\ CompFaults \cap {"network"} \subseteq Comp!Errors
    BY <1>1, <1>2 DEF PostType
  <2>5. list' \in ListType /\ newDialog' \in NewDialogType
    BY <1>1, <1>11, <2>2, <2>3, <2>4, EmptyTypes DEF Comp!PostEnds
  <2>6. QED
    BY <2>1, <2>5 DEF CompInv
<1>12. QED
  BY <1>3, <1>4, <1>5, <1>6, <1>7, <1>8, <1>9, <1>10, <1>11 DEF Comp!Next

\* The POSTs that have passed the cap and are not committed.
Creating == {u \in Comp!Users : posts[u].at \in {"counted", "inserted"}}

AtMostOne(S) == \A a, b \in S : a = b

\* A POST that has passed the cap was counted when the cap was not reached.
CapInv ==
    /\ AtMostOne(newDialog.cnpj) /\ \A u \in Comp!Users : AtMostOne(posts[u].cnpj)
    /\ \A cap \in Cap : Cardinality(companiesLive) + Cardinality(Creating) <= cap + Cardinality(CompOthers)

FewCompanies == IsFiniteSet(CompOthers) /\ IsFiniteSet(Cnpjs) /\ Cap \subseteq Nat

LEMMA CompCardinality == \A S : Comp!Cardinality(S) = Cardinality(S)
BY DEF Comp!Cardinality, Cardinality

LEMMA CompanyCounts ==
    ASSUME FewCompanies, CompInv
    PROVE  /\ Comp!Users = CompOthers \cup {Me} /\ Me \notin CompOthers
           /\ IsFiniteSet(Comp!Users) /\ Cardinality(Comp!Users) = Cardinality(CompOthers) + 1
           /\ IsFiniteSet(companiesLive) /\ IsFiniteSet(Creating)
           /\ Cardinality(companiesLive) \in Nat /\ Cardinality(CompOthers) \in Nat
           /\ Cardinality(Creating) \in Nat /\ Cardinality(Creating) <= Cardinality(CompOthers) + 1
<1>1. Comp!Users = CompOthers \cup {Me} /\ Me \notin CompOthers
  BY CompaniesAssumption DEF Comp!Users
<1>2. IsFiniteSet(CompOthers) /\ Cardinality(CompOthers) \in Nat
  BY FS_CardinalityType DEF FewCompanies
<1>3. IsFiniteSet(Comp!Users) /\ Cardinality(Comp!Users) = Cardinality(CompOthers) + 1
  BY <1>1, <1>2, FS_AddElement
<1>4. IsFiniteSet(Creating) /\ Cardinality(Creating) <= Cardinality(Comp!Users)
  <2>1. Creating \subseteq Comp!Users
    BY DEF Creating
  <2>2. QED
    BY <1>3, <2>1, FS_Subset
<1>5. IsFiniteSet(companiesLive)
  BY FS_Subset DEF FewCompanies, CompInv
<1>6. QED
  BY <1>1, <1>2, <1>3, <1>4, <1>5, FS_CardinalityType

\* A step that creates no company and counts for no POST.
LEMMA CapKept ==
    ASSUME FewCompanies, CompInv, CapInv, Creating' \subseteq Creating,
           companiesLive' \subseteq companiesLive
    PROVE  \A cap \in Cap : Cardinality(companiesLive') + Cardinality(Creating')
                             <= cap + Cardinality(CompOthers)
<1>1. /\ Cardinality(companiesLive') <= Cardinality(companiesLive)
      /\ Cardinality(Creating') <= Cardinality(Creating)
      /\ IsFiniteSet(companiesLive') /\ IsFiniteSet(Creating')
  BY CompanyCounts, FS_Subset
<1>2. Cardinality(companiesLive') \in Nat /\ Cardinality(Creating') \in Nat
  BY <1>1, FS_CardinalityType
<1>3. ASSUME NEW cap \in Cap
      PROVE  Cardinality(companiesLive') + Cardinality(Creating') <= cap + Cardinality(CompOthers)
  <2>1. cap \in Nat /\ Cardinality(companiesLive) + Cardinality(Creating) <= cap + Cardinality(CompOthers)
    BY DEF FewCompanies, CapInv
  <2>2. QED
    BY <1>1, <1>2, <2>1, CompanyCounts
<1>4. QED
  BY <1>3

\* The POST counts, and goes on to its INSERT.
LEMMA CountKeepsCap ==
    ASSUME FewCompanies, CompInv, CompInv', UNCHANGED companiesLive,
           \A cap \in Cap : Comp!Cardinality(companiesLive) < cap
    PROVE  \A cap \in Cap : Cardinality(companiesLive') + Cardinality(Creating')
                             <= cap + Cardinality(CompOthers)
<1>1. Cardinality(Creating') \in Nat /\ Cardinality(Creating') <= Cardinality(CompOthers) + 1
  <2>1. Creating' \subseteq Comp!Users
    BY DEF Creating
  <2>2. QED
    BY <2>1, CompanyCounts, FS_Subset, FS_CardinalityType
<1>2. ASSUME NEW cap \in Cap
      PROVE  Cardinality(companiesLive') + Cardinality(Creating') <= cap + Cardinality(CompOthers)
  <2>1. cap \in Nat /\ Cardinality(companiesLive) < cap
    BY CompCardinality DEF FewCompanies
  <2>2. Cardinality(companiesLive') = Cardinality(companiesLive)
    OBVIOUS
  <2>3. QED
    BY <1>1, <2>1, <2>2, CompanyCounts
<1>3. QED
  BY <1>2

\* The company is there, and its POST over.
LEMMA CommitKeepsCap ==
    ASSUME FewCompanies, CompInv, CapInv, NEW u \in Creating, Creating' = Creating \ {u},
           companiesLive' = companiesLive \cup posts[u].cnpj
    PROVE  \A cap \in Cap : Cardinality(companiesLive') + Cardinality(Creating')
                             <= cap + Cardinality(CompOthers)
<1>1. Cardinality(Creating') = Cardinality(Creating) - 1
  BY CompanyCounts, FS_RemoveElement
<1>2. Cardinality(companiesLive') \in Nat /\ Cardinality(companiesLive') <= Cardinality(companiesLive) + 1
  <2>1. CASE posts[u].cnpj \subseteq companiesLive
    <3>1. companiesLive' = companiesLive
      BY <2>1
    <3>2. QED
      BY <3>1, CompanyCounts
  <2>2. CASE ~(posts[u].cnpj \subseteq companiesLive)
    <3>1. PICK c : c \in posts[u].cnpj /\ c \notin companiesLive
      BY <2>2
    <3>2. companiesLive' = companiesLive \cup {c}
      BY <3>1 DEF CapInv, AtMostOne, Creating
    <3>3. Cardinality(companiesLive \cup {c}) = Cardinality(companiesLive) + 1
      BY <3>1, CompanyCounts, FS_AddElement
    <3>4. Cardinality(companiesLive') = Cardinality(companiesLive) + 1
      BY <3>2, <3>3, Zenon
    <3>5. Cardinality(companiesLive) \in Nat
      BY CompanyCounts
    <3>6. QED
      BY <3>4, <3>5
  <2>3. QED
    BY <2>1, <2>2
<1>3. ASSUME NEW cap \in Cap
      PROVE  Cardinality(companiesLive') + Cardinality(Creating') <= cap + Cardinality(CompOthers)
  <2>1. cap \in Nat /\ Cardinality(companiesLive) + Cardinality(Creating) <= cap + Cardinality(CompOthers)
    BY DEF FewCompanies, CapInv
  <2>2. QED
    BY <1>1, <1>2, <2>1, CompanyCounts
<1>4. QED
  BY <1>3

\* What a step does to the POSTs: it answers one, sends one, moves one on.
LEMMA PostKinds ==
    ASSUME CompInv, CapInv, NEW u \in Comp!Users,
           \/ \E error \in Comp!Errors : Comp!Answer(u, error)
           \/ \E c \in SUBSET Cnpjs :
                 /\ AtMostOne(c)
                 /\ posts' = [posts EXCEPT ![u] = [Comp!NoPost EXCEPT !.at = "sent", !.cnpj = c]]
           \/ posts' = [posts EXCEPT ![u] = Comp!NoPost]
    PROVE  Creating' = Creating \ {u} /\ \A v \in Comp!Users : AtMostOne(posts'[v].cnpj)
<1>1. posts \in [Comp!Users -> PostType]
  BY DEF CompInv
<1>2. \A v \in Comp!Users : AtMostOne(posts[v].cnpj)
  BY DEF CapInv
<1>3. /\ \A v \in Comp!Users \ {u} : posts'[v] = posts[v]
      /\ posts'[u].at \in {"none", "sent", "answered"} /\ AtMostOne(posts'[u].cnpj)
  <2>1. ASSUME NEW error \in Comp!Errors, Comp!Answer(u, error)
        PROVE  /\ \A v \in Comp!Users \ {u} : posts'[v] = posts[v]
               /\ posts'[u].at \in {"none", "sent", "answered"} /\ AtMostOne(posts'[u].cnpj)
    <3>1. posts' = [posts EXCEPT ![u] = [posts[u] EXCEPT !.at = "answered", !.answer = error]]
          \/ posts' = [posts EXCEPT ![u] = Comp!NoPost]
      BY <2>1 DEF Comp!Answer
    <3>2. CASE posts' = [posts EXCEPT ![u] = [posts[u] EXCEPT !.at = "answered", !.answer = error]]
      <4>1. posts'[u].at = "answered" /\ posts'[u].cnpj = posts[u].cnpj
        <5> DEFINE n == [posts[u] EXCEPT !.at = "answered", !.answer = error]
        <5>1. posts[u] \in PostType
          BY <1>1, Zenon
        <5>2. n.at = "answered" /\ n.cnpj = posts[u].cnpj
          BY <5>1 DEF PostType
        <5> HIDE DEF n
        <5>3. posts'[u] = n
          BY <1>1, <3>2 DEF n
        <5>4. QED
          BY <5>2, <5>3, Zenon
      <4>2. \A v \in Comp!Users \ {u} : posts'[v] = posts[v]
        BY <1>1, <3>2
      <4>3. QED
        BY <1>2, <4>1, <4>2
    <3>3. CASE posts' = [posts EXCEPT ![u] = Comp!NoPost]
      BY <1>1, <3>3 DEF Comp!NoPost, AtMostOne
    <3>4. QED
      BY <3>1, <3>2, <3>3, Zenon
  <2>2. ASSUME NEW c \in SUBSET Cnpjs, AtMostOne(c),
               posts' = [posts EXCEPT ![u] = [Comp!NoPost EXCEPT !.at = "sent", !.cnpj = c]]
        PROVE  /\ \A v \in Comp!Users \ {u} : posts'[v] = posts[v]
               /\ posts'[u].at \in {"none", "sent", "answered"} /\ AtMostOne(posts'[u].cnpj)
    BY <1>1, <2>2 DEF Comp!NoPost
  <2>3. CASE posts' = [posts EXCEPT ![u] = Comp!NoPost]
    BY <1>1, <2>3 DEF Comp!NoPost, AtMostOne
  <2>4. QED
    BY <2>1, <2>2, <2>3
<1>4. Creating' = Creating \ {u}
  BY <1>3 DEF Creating
<1>5. QED
  BY <1>2, <1>3, <1>4

LEMMA CapSteps ==
    ASSUME FewCompanies, CompInv, CapInv, [Comp!Next]_(Comp!vars)
    PROVE  CapInv'
<1> DEFINE Kept == \A cap \in Cap : Cardinality(companiesLive') + Cardinality(Creating')
                                    <= cap + Cardinality(CompOthers)
           Posts == \A v \in Comp!Users : AtMostOne(posts'[v].cnpj)
<1>1. CompInv' /\ posts \in [Comp!Users -> PostType]
  BY CompSteps DEF CompInv
<1>2. AtMostOne(newDialog.cnpj) /\ \A v \in Comp!Users : AtMostOne(posts[v].cnpj)
  BY DEF CapInv
<1>3. {"none", "limit", "exists", "forbidden", "failed", "network"} = Comp!Errors /\ Me \in Comp!Users
  BY DEF Comp!Errors, Comp!Users
<1>4. ASSUME UNCHANGED posts, companiesLive' \subseteq companiesLive PROVE Kept /\ Posts
  <2>1. Creating' = Creating
    BY <1>4 DEF Creating
  <2>2. QED
    BY <1>2, <1>4, <2>1, CapKept
<1>5. ASSUME NEW u \in Comp!Users, NEW at \in {"counted", "inserted"},
             posts' = [posts EXCEPT ![u].at = at]
      PROVE  Posts /\ Creating' = Creating \cup {u}
  <2>1. posts'[u].at = at /\ posts'[u].cnpj = posts[u].cnpj /\ \A v \in Comp!Users \ {u} : posts'[v] = posts[v]
    BY <1>1, <1>5 DEF PostType
  <2>2. QED
    BY <1>2, <2>1 DEF Creating
<1>6. ASSUME NEW u \in Comp!Users, Comp!Count(u) PROVE Kept /\ Posts
  <2>1. UNCHANGED companiesLive
    BY <1>6 DEF Comp!Count
  <2>2. CASE \E error \in Comp!Errors : Comp!Answer(u, error)
    <3>1. Creating' = Creating \ {u} /\ Posts
      BY <2>2, PostKinds
    <3>2. QED
      BY <2>1, <3>1, CapKept
  <2>3. CASE /\ \A cap \in Cap : Comp!Cardinality(companiesLive) < cap
             /\ posts' = [posts EXCEPT ![u].at = "counted"]
    <3>1. Kept
      BY <1>1, <2>1, <2>3, CountKeepsCap
    <3>2. QED
      BY <1>5, <2>3, <3>1
  <2>4. QED
    BY <1>3, <1>6, <2>2, <2>3 DEF Comp!Count
<1>7. ASSUME NEW u \in Comp!Users, Comp!Insert(u) PROVE Kept /\ Posts
  <2>1. UNCHANGED companiesLive /\ u \in Creating
    BY <1>7 DEF Comp!Insert, Creating
  <2>2. CASE Comp!Answer(u, "exists")
    <3>1. Creating' = Creating \ {u} /\ Posts
      BY <1>3, <2>2, PostKinds
    <3>2. QED
      BY <2>1, <3>1, CapKept
  <2>3. CASE posts' = [posts EXCEPT ![u].at = "inserted"]
    <3>1. Creating' = Creating \cup {u} /\ Posts
      BY <1>5, <2>3
    <3>2. Creating' \subseteq Creating
      BY <2>1, <3>1
    <3>3. QED
      BY <2>1, <3>1, <3>2, CapKept
  <2>4. QED
    BY <1>7, <2>2, <2>3 DEF Comp!Insert
<1>8. ASSUME NEW u \in Comp!Users, Comp!Commit(u) PROVE Kept /\ Posts
  <2>1. u \in Creating /\ companiesLive' = companiesLive \cup posts[u].cnpj /\ Comp!Answer(u, "none")
    BY <1>8 DEF Comp!Commit, Creating
  <2>2. Creating' = Creating \ {u} /\ Posts
    BY <1>3, <2>1, PostKinds
  <2>3. QED
    BY <2>1, <2>2, CommitKeepsCap
<1>9. ASSUME NEW u \in Comp!Users, Comp!OtherCreates(u) PROVE Kept /\ Posts
  <2>1. PICK c \in Cnpjs : posts' = [posts EXCEPT ![u] = [Comp!NoPost EXCEPT !.at = "sent", !.cnpj = {c}]]
    BY <1>9 DEF Comp!OtherCreates
  <2>2. UNCHANGED companiesLive /\ {c} \in SUBSET Cnpjs /\ AtMostOne({c})
    BY <1>9 DEF Comp!OtherCreates, AtMostOne
  <2>3. Creating' = Creating \ {u} /\ Posts
    BY <2>1, <2>2, PostKinds
  <2>4. QED
    BY <2>2, <2>3, CapKept
<1>10. ASSUME Comp!onSubmit \/ Comp!PostEnds PROVE Kept /\ Posts
  <2>1. UNCHANGED companiesLive
    BY <1>10 DEF Comp!onSubmit, Comp!PostEnds
  <2>2. newDialog.cnpj \in SUBSET Cnpjs
    BY DEF CompInv, NewDialogType
  <2>3. \/ posts' = [posts EXCEPT ![Me] = [Comp!NoPost EXCEPT !.at = "sent", !.cnpj = newDialog.cnpj]]
        \/ posts' = [posts EXCEPT ![Me] = Comp!NoPost]
    BY <1>10 DEF Comp!onSubmit, Comp!PostEnds
  <2>4. Creating' = Creating \ {Me} /\ Posts
    BY <1>2, <1>3, <2>2, <2>3, PostKinds
  <2>5. Creating' \subseteq Creating /\ companiesLive' \subseteq companiesLive
    BY <2>1, <2>4
  <2>6. Kept
    BY <2>5, CapKept
  <2> HIDE DEF Kept, Posts
  <2>7. QED
    BY <2>4, <2>6, Zenon
<1>11. ASSUME \/ \E c \in Cnpjs : Comp!soft_delete_company(c)
              \/ Comp!Refetch \/ Comp!AnswerList \/ Comp!ListArrives
              \/ Comp!OpenDialog \/ Comp!Fill \/ Comp!Refuse \/ Comp!CloseDialog
              \/ UNCHANGED Comp!vars
       PROVE  Kept /\ Posts
  <2>1. UNCHANGED posts /\ companiesLive' \subseteq companiesLive
    BY <1>11 DEF Comp!soft_delete_company, Comp!Refetch, Comp!AnswerList, Comp!ListArrives,
                 Comp!OpenDialog, Comp!Fill, Comp!Refuse, Comp!CloseDialog, Comp!vars
  <2>2. QED
    BY <1>4, <2>1
<1>12. Kept /\ Posts
  <2> HIDE DEF Kept, Posts
  <2>1. CASE \E u \in Comp!Users : Comp!Count(u) \/ Comp!Insert(u) \/ Comp!Commit(u) \/ Comp!OtherCreates(u)
    BY <1>6, <1>7, <1>8, <1>9, <2>1
  <2>2. CASE Comp!onSubmit \/ Comp!PostEnds
    BY <1>10, <2>2, Zenon
  <2>3. CASE \/ \E c \in Cnpjs : Comp!soft_delete_company(c)
             \/ Comp!Refetch \/ Comp!AnswerList \/ Comp!ListArrives
             \/ Comp!OpenDialog \/ Comp!Fill \/ Comp!Refuse \/ Comp!CloseDialog
             \/ UNCHANGED Comp!vars
    BY <1>11, <2>3, Zenon
  <2>4. QED
    BY <2>1, <2>2, <2>3, Zenon DEF Comp!Next
<1>13. AtMostOne(newDialog'.cnpj)
  <2> USE DEF CompInv, NewDialogType
  <2>1. CASE Comp!Fill
    BY <2>1 DEF Comp!Fill, AtMostOne
  <2>2. CASE Comp!OpenDialog \/ Comp!CloseDialog
    BY <2>2 DEF Comp!OpenDialog, Comp!CloseDialog, Comp!NoDialog, AtMostOne
  <2>6. CASE Comp!PostEnds
    <3>1. \/ newDialog' = Comp!NoDialog
          \/ \E error : newDialog' = [newDialog EXCEPT !.submitting = FALSE, !.error = error]
      BY <2>6 DEF Comp!PostEnds
    <3>2. ASSUME NEW error, newDialog' = [newDialog EXCEPT !.submitting = FALSE, !.error = error]
          PROVE  newDialog'.cnpj = newDialog.cnpj
      BY <3>2
    <3>3. CASE newDialog' = Comp!NoDialog
      BY <3>3 DEF Comp!NoDialog, AtMostOne
    <3>4. QED
      BY <1>2, <3>1, <3>2, <3>3
  <2>3. CASE Comp!Refuse \/ Comp!onSubmit
    BY <1>2, <2>3 DEF Comp!Refuse, Comp!onSubmit
  <2>4. ASSUME \/ \E u \in Comp!Users : \/ Comp!Count(u) \/ Comp!Insert(u) \/ Comp!Commit(u)
                                       \/ Comp!OtherCreates(u)
               \/ \E c \in Cnpjs : Comp!soft_delete_company(c)
               \/ Comp!Refetch \/ Comp!AnswerList \/ Comp!ListArrives \/ UNCHANGED Comp!vars
        PROVE  UNCHANGED newDialog
    BY <2>4 DEF Comp!Count, Comp!Insert, Comp!Commit, Comp!OtherCreates, Comp!soft_delete_company,
                Comp!Refetch, Comp!AnswerList, Comp!ListArrives, Comp!vars
  <2>5. QED
    BY <1>2, <2>1, <2>2, <2>3, <2>4, <2>6 DEF Comp!Next
<1>14. QED
  BY <1>12, <1>13 DEF CapInv

\* A tenant has more companies than its plan allows by no more than the users who
\* may create them at once, less one: the POST counts and inserts in two statements
\* (companies/routes.py:258).  With one user the cap holds (CapHolds).
THEOREM PanelCapOvershoot ==
    ASSUME IsFiniteSet(CompOthers), IsFiniteSet(Cnpjs), Cap \subseteq Nat
    PROVE  PanelSpec => [](Comp!Open => \A cap \in Cap :
                              Cardinality(companiesLive) <= cap + Cardinality(CompOthers))
<1> DEFINE Inv == Comp!Open => CompInv /\ CapInv
<1>1. FewCompanies
  BY DEF FewCompanies
<1>2. Comp!Init => CapInv
  <2> SUFFICES ASSUME Comp!Init PROVE CapInv
    OBVIOUS
  <2>1. companiesLive = {} /\ Creating = {} /\ AtMostOne(newDialog.cnpj)
        /\ \A u \in Comp!Users : AtMostOne(posts[u].cnpj)
    BY DEF Comp!Init, Creating, AtMostOne, Comp!NoPost, Comp!NoDialog
  <2>2. Cardinality({}) = 0 /\ Cardinality(CompOthers) \in Nat
    BY FS_EmptySet, FS_CardinalityType
  <2>3. QED
    BY <2>1, <2>2 DEF CapInv
<1>3. PanelInit => Inv
  BY <1>2, PageStarts, CompStarts
<1>4. Inv /\ [PanelNext]_panelVars => Inv'
  BY <1>1, RouteStays, PageSteps, CompSteps, CapSteps DEF Comp!Open
<1>5. Inv => (Comp!Open => \A cap \in Cap :
                 Cardinality(companiesLive) <= cap + Cardinality(CompOthers))
  <2> SUFFICES ASSUME CompInv, CapInv, NEW cap \in Cap
               PROVE  Cardinality(companiesLive) <= cap + Cardinality(CompOthers)
    OBVIOUS
  <2>1. cap \in Nat /\ Cardinality(companiesLive) + Cardinality(Creating) <= cap + Cardinality(CompOthers)
    BY DEF CapInv
  <2>2. QED
    BY <1>1, <2>1, CompanyCounts
<1>6. QED
  BY <1>3, <1>4, <1>5, PTL DEF PanelSpec

-----------------------------------------------------------------------------
(* The whole panel.                                                         *)

\* The invariants of the session and of the pages.
WholeInv ==
    /\ TypeOK
    /\ Sched!Open => SchedP!SerialInv /\ SchedP!ShownOK
    /\ SForm!Open => FormInv
    /\ Table!Open => TableInv
    /\ Onb!Open => OnbInv
    /\ Cred!Open => CredP!CredentialsInv /\ CredP!PanelOK
    /\ Comp!Open => CompInv
    /\ Page!Open => PageInv
    /\ Occ!Open => OccInv

LEMMA FormTypeOK == FormInv => SForm!TypeOK
<1> SUFFICES ASSUME FormInv PROVE SForm!TypeOK
  OBVIOUS
<1>1. saved \in CronSet \cup {SForm!NoSchedule} /\ original \in CronSet \cup {SForm!NoSchedule}
  BY DEF FormInv, FormTypes
<1>2. \A b \in BuilderSet : b.mode \in {"daily", "weekly", "monthly", "custom"}
  BY BuilderCases DEF BuilderSet, SForm!Custom
<1>3. /\ form.builder.mode \in {"closed", "daily", "weekly", "monthly", "custom"}
      /\ form.submitting \in BOOLEAN /\ form.submitError \in BOOLEAN
  <2>1. CASE form = SForm!Closed
    BY <2>1 DEF SForm!Closed, SForm!NoForm
  <2>2. CASE form \in OpenForm
    <3>1. form.builder \in BuilderSet /\ form.submitting \in BOOLEAN /\ form.submitError \in BOOLEAN
      BY <2>2 DEF OpenForm
    <3>2. QED
      BY <1>2, <3>1
  <2>3. QED
    BY <2>1, <2>2 DEF FormInv, FormTypes
<1>4. form.submitting => form.sent # SForm!NoSchedule
  BY DEF FormInv, FormTypes
<1>5. QED
  BY <1>1, <1>3, <1>4 DEF SForm!TypeOK, CronSet

LEMMA WholeTypes == WholeInv => PanelTypeOK
<1> SUFFICES ASSUME WholeInv PROVE PanelTypeOK
  OBVIOUS
<1> USE DEF WholeInv
<1>1. Sched!TypeOK
  BY DEF SchedP!SerialInv, SchedP!TypesOK, SchedP!ShownOK, Sched!TypeOK, Sched!Rows, SchedP!Rows,
         Sched!Calls, SchedP!Calls, Sched!Bodies, SchedP!Bodies, Sched!Updates, SchedP!Updates,
         Sched!NoCall, SchedP!NoCall, Sched!None, SchedP!None, Sched!Keep, SchedP!Keep
<1>2. SForm!TypeOK
  BY FormTypeOK DEF SForm!TypeOK
<1>3. Table!TypeOK
  BY DEF Table!TypeOK, TableInv, RowsInv, SavedInv, TableType
<1>4. Onb!TypeOK
  BY DEF Onb!TypeOK, OnbInv, TenantOK, WizardOK, AnswersType, WizardType, Step3Type,
         Onb!FirstStatuses, Onb!Queries
<1>5. Cred!TypeOK
  BY DEF Cred!TypeOK, CredP!CredentialsInv, CredP!TypesOK, CredP!TxType, CredP!InTransaction,
         CredP!DialogInv, CredP!PanelOK, Cred!Users, CredP!Users, Cred!Uploads, CredP!Uploads,
         Cred!RowStates, CredP!RowStates, Cred!ErrorCodes, CredP!ErrorCodes
<1>6. Comp!TypeOK
  BY DEF Comp!TypeOK, CompInv, PostType, ListType, NewDialogType
<1>7. Page!TypeOK
  BY DEF Page!TypeOK, PageInv, PageTypes, QueryType, TabsType, ActionType
<1>8. Occ!TypeOK
  BY DEF Occ!TypeOK, OccInv, RowOK, DetailOK, RequestType, DetailType, RunbookType
<1>9. QED
  BY <1>1, <1>2, <1>3, <1>4, <1>5, <1>6, <1>7, <1>8 DEF PanelTypeOK

\* Every variable of the session and of the pages stays in its type, whatever the
\* users, the API and the faults do.
THEOREM PanelTypes == PanelSpec => []PanelTypeOK
<1>1. {SchedP!None, SchedP!Keep} \cap Crons = {}
  BY CronsAssumption DEF SchedP!None, SchedP!Keep
<1>2. MaxUploads \in Nat /\ Me \notin CredOthers /\ "commit" \notin CredFaults
  BY CredentialsAssumption
<1>3. PanelInit => WholeInv
  <2> SUFFICES ASSUME PanelInit PROVE WholeInv
    OBVIOUS
  <2>1. TypeOK
    BY DEF PanelInit, Init, TypeOK, Idle, Tokens, NoToken
  <2>2. Sched!Open => SchedP!SerialInv /\ SchedP!ShownOK
    BY <1>1, PageStarts, SameSchedules, SchedP!InitSerial, SchedP!InitShown
  <2>3. Cred!Open => CredP!CredentialsInv /\ CredP!PanelOK
    BY <1>2, PageStarts, SameCredentials, CredP!InitCredentials, CredP!InitPanel
  <2>4. QED
    BY <2>1, <2>2, <2>3, PageStarts, FormStarts, TableStarts, OnbStarts, CompStarts,
       CompanyPageStarts, OccStarts DEF WholeInv
<1>4. WholeInv /\ [PanelNext]_panelVars => WholeInv'
  <2> SUFFICES ASSUME WholeInv, [PanelNext]_panelVars PROVE WholeInv'
    OBVIOUS
  <2> USE DEF WholeInv
  <2>1. UNCHANGED route
    BY RouteStays
  <2>2. TypeOK'
    BY SessionSteps, StepTypeOK
  <2>3. (Sched!Open => SchedP!SerialInv /\ SchedP!ShownOK)'
    BY <1>1, <2>1, PageSteps, SameSchedules, SchedP!StepSerial, SchedP!StepShown DEF Sched!Open
  <2>4. (SForm!Open => FormInv)'
    BY <2>1, PageSteps, FormSteps DEF SForm!Open
  <2>5. (Table!Open => TableInv)'
    BY <2>1, PageSteps, TableSteps DEF Table!Open
  <2>6. (Onb!Open => OnbInv)'
    BY <2>1, PageSteps, OnbSteps DEF Onb!Open
  <2>7. (Cred!Open => CredP!CredentialsInv /\ CredP!PanelOK)'
    <3> SUFFICES ASSUME Cred!Open PROVE CredP!CredentialsInv' /\ CredP!PanelOK'
      BY <2>1 DEF Cred!Open
    <3>1. CredP!CredentialsInv /\ CredP!PanelOK /\ [CredP!Next]_(CredP!vars)
      BY PageSteps, SameCredentials
    <3>2. CredP!TypesOK /\ CredP!DialogInv
      BY <3>1 DEF CredP!CredentialsInv
    <3>3. QED
      BY <1>2, <3>1, <3>2, CredP!StepCredentials, CredP!StepPanel
  <2>8. (Comp!Open => CompInv)'
    BY <2>1, PageSteps, CompSteps DEF Comp!Open
  <2>9. (Page!Open => PageInv)'
    BY <2>1, PageSteps, CompanyPageSteps DEF Page!Open
  <2>10. (Occ!Open => OccInv)'
    BY <2>1, PageSteps, OccSteps DEF Occ!Open
  <2>11. QED
    BY <2>2, <2>3, <2>4, <2>5, <2>6, <2>7, <2>8, <2>9, <2>10
<1>5. QED
  BY <1>3, <1>4, WholeTypes, PTL DEF PanelSpec
=============================================================================
