-------------------------- MODULE CredentialsProofs --------------------------
(***************************************************************************)
(* Proofs about Credentials, for any number of users, processes, uploads   *)
(* and reads: the files of the active credentials, and who waits for whom. *)
(***************************************************************************)
EXTENDS Credentials, WellFoundedInduction, TLAPS

InTransaction == {"begun", "update", "put", "delete", "commit", "rollback"}

TxType == [at : {"idle", "sent", "answered"} \cup InTransaction,
           op : {"none", "upload", "revoke"}, id : 0..MaxUploads,
           seen : SUBSET Uploads, held : SUBSET Uploads, answer : {"ok"} \cup ErrorCodes]

TypesOK ==
    /\ rows \in [Uploads -> RowStates]
    /\ blobs \subseteq Uploads
    /\ tx \in [Users -> TxType]

\* What a transaction may hold at each point of its handler.
TxOK(u) ==
    /\ tx[u].at \in InTransaction =>
        /\ tx[u].op \in {"upload", "revoke"}
        /\ tx[u].op = "upload" => tx[u].id \in Uploads /\ rows[tx[u].id] = "open"
        /\ tx[u].op = "revoke" => tx[u].id = 0
    /\ tx[u].at = "sent" => tx[u].id = 0
    /\ tx[u].at = "put" => tx[u].op = "upload"
    /\ tx[u].at = "delete" => tx[u].op = "revoke"
    /\ tx[u].held \subseteq Active
    /\ tx[u].held # {} => tx[u].at \in {"put", "delete", "commit", "rollback"}
    /\ tx[u].at = "rollback" /\ tx[u].op = "revoke" => tx[u].held = {}
    /\ tx[u].at = "commit" /\ tx[u].op = "upload" => tx[u].id \in blobs

Uploading(u) == tx[u].at \in InTransaction /\ tx[u].op = "upload"
Revoking(u) == tx[u].at = "commit" /\ tx[u].op = "revoke"

\* No two transactions hold a row or insert the same one, and a row without its
\* file is one that a revocation is about to commit, unless a commit may fail.
StoreInv ==
    /\ \A u \in Users : TxOK(u)
    /\ \A u, v \in Users : u # v =>
        /\ tx[u].held \cap tx[v].held = {}
        /\ Uploading(u) /\ Uploading(v) => tx[u].id # tx[v].id
    /\ "commit" \notin Faults =>
        \A i \in Active : i \in blobs \/ \E u \in Users : i \in tx[u].held /\ Revoking(u)

\* The panel asks for nothing before it has the answer to what it asked.
DialogInv ==
    /\ dialog \in [op : {"none", "upload", "revoke"}, filled : BOOLEAN, submitting : BOOLEAN,
                   error : {"none", "nothing_to_revoke", "network"} \cup ErrorCodes]
    /\ dialog.op = "none" => ~dialog.filled /\ ~dialog.submitting
    /\ dialog.submitting \/ tx[Me].at = "idle"

\* A step of u's that leaves the table and the bucket alone.
LEMMA TxStep ==
    ASSUME TypesOK, StoreInv, NEW u \in Users, TypesOK', UNCHANGED <<rows, blobs>>,
           \A v \in Users \ {u} : tx'[v] = tx[v],
           TxOK(u)', ~Revoking(u),
           \A v \in Users \ {u} : tx'[u].held \cap tx[v].held = {},
           Uploading(u)' => Uploading(u) /\ tx'[u].id = tx[u].id
    PROVE  StoreInv'
<1>1. \A v \in Users : TxOK(v)'
  BY DEF StoreInv, TxOK, Active
<1>2. ASSUME NEW v \in Users, NEW w \in Users, v # w
      PROVE  /\ tx'[v].held \cap tx'[w].held = {}
             /\ Uploading(v)' /\ Uploading(w)' => tx'[v].id # tx'[w].id
  BY <1>2 DEF StoreInv, Uploading
<1>3. ASSUME "commit" \notin Faults, NEW i \in Active'
      PROVE  i \in blobs' \/ \E v \in Users : i \in tx'[v].held /\ Revoking(v)'
  <2>1. i \in Active
    BY DEF Active
  <2>2. i \in blobs \/ \E v \in Users : i \in tx[v].held /\ Revoking(v)
    BY <1>3, <2>1 DEF StoreInv
  <2>3. QED
    BY <2>2 DEF Revoking
<1>4. QED
  BY <1>1, <1>2, <1>3 DEF StoreInv

-----------------------------------------------------------------------------
(* The steps of a request.  Each lemma keeps the types and StoreInv.        *)

LEMMA AnsweredType ==
    ASSUME MaxUploads \in Nat, TypesOK, NEW u \in Users,
           NEW answer, answer \in {"ok"} \cup ErrorCodes, Answered(u, answer)
    PROVE  /\ tx' \in [Users -> TxType]
           /\ \A v \in Users \ {u} : tx'[v] = tx[v]
           /\ tx'[u].at \in {"idle", "answered"} /\ tx'[u].held = {}
           /\ u = Me \/ tx'[u].at = "idle"
<1>1. Idle \in TxType
  BY DEF Idle, TxType, InTransaction, ErrorCodes
<1> DEFINE a == [Idle EXCEPT !.at = "answered", !.id = tx[u].id, !.answer = answer]
<1>2. a \in TxType /\ a.at = "answered" /\ a.held = {}
  <2>1. tx[u].id \in 0..MaxUploads
    BY DEF TypesOK, TxType
  <2>2. QED
    BY <2>1 DEF Idle, TxType
<1>3. Idle.at = "idle" /\ Idle.held = {}
  BY DEF Idle
<1>4. tx' = [tx EXCEPT ![u] = IF u = Me THEN a ELSE Idle]
  BY DEF Answered
<1> HIDE DEF a
<1>5. QED
  BY <1>1, <1>2, <1>3, <1>4 DEF TypesOK

\* Whatever the API answers with, the panel knows the error.
LEMMA ApiErrors == \A st, says : mapApiError(st, says) \in ErrorCodes
BY DEF mapApiError, ErrorCodes

\* A request that is refused before it has written anything.
LEMMA RefusedStep ==
    ASSUME MaxUploads \in Nat, TypesOK, StoreInv, NEW u \in Users,
           NEW answer, answer \in {"ok"} \cup ErrorCodes,
           Answered(u, answer), UNCHANGED <<rows, blobs>>, ~Revoking(u)
    PROVE  TypesOK' /\ StoreInv'
<1>1. TypesOK'
  BY AnsweredType DEF TypesOK
<1>2. TxOK(u)' /\ ~Uploading(u)'
  BY AnsweredType DEF TxOK, InTransaction, Uploading
<1>3. QED
  BY <1>1, <1>2, AnsweredType, TxStep

LEMMA BeginUpload ==
    ASSUME MaxUploads \in Nat, TypesOK, StoreInv, NEW u \in Users,
           tx[u].at = "sent", tx[u].op = "upload", NEW i \in Uploads, rows[i] = "none",
           rows' = [rows EXCEPT ![i] = "open"], UNCHANGED blobs,
           tx' = [tx EXCEPT ![u].at = "begun", ![u].id = i]
    PROVE  TypesOK' /\ StoreInv'
<1> DEFINE n == [tx[u] EXCEPT !.at = "begun", !.id = i]
<1>1. tx[u] \in TxType /\ tx[u].held = {} /\ ~Revoking(u) /\ ~Uploading(u)
  BY DEF TypesOK, StoreInv, TxOK, Revoking, Uploading, InTransaction
<1>2. n \in TxType /\ n.at = "begun" /\ n.op = "upload" /\ n.id = i /\ n.held = {}
  <2>1. i \in 0..MaxUploads
    BY DEF Uploads
  <2>2. QED
    BY <1>1, <2>1 DEF TxType, InTransaction
<1>3. tx' = [tx EXCEPT ![u] = n]
  BY DEF TypesOK
<1> HIDE DEF n
<1>4. /\ tx' \in [Users -> TxType] /\ tx'[u] = n
      /\ \A v \in Users \ {u} : tx'[v] = tx[v]
  BY <1>2, <1>3 DEF TypesOK
<1>5. /\ rows' \in [Uploads -> RowStates] /\ rows'[i] = "open"
      /\ \A j \in Uploads \ {i} : rows'[j] = rows[j]
  BY DEF TypesOK, RowStates
<1>6. Active' = Active
  BY <1>5 DEF Active
<1>7. ASSUME NEW v \in Users PROVE TxOK(v)'
  <2>1. CASE v = u
    BY <1>2, <1>4, <1>5, <2>1 DEF TxOK
  <2>2. CASE v # u
    <3>1. TxOK(v) /\ tx'[v] = tx[v]
      BY <1>4, <2>2 DEF StoreInv
    <3>2. tx[v].id \in Uploads /\ rows[tx[v].id] = "open" => rows'[tx[v].id] = "open"
      BY <1>5
    <3>3. tx[v].held \subseteq Active => tx'[v].held \subseteq Active'
      BY <1>6, <3>1
    <3>4. tx[v].at = "commit" /\ tx[v].op = "upload" /\ tx[v].id \in blobs => tx'[v].id \in blobs'
      BY <3>1
    <3>5. QED
      BY <3>1, <3>2, <3>3, <3>4 DEF TxOK
  <2>3. QED
    BY <2>1, <2>2
<1>8. ASSUME NEW v \in Users, Uploading(v) PROVE tx[v].id # i
  BY <1>8 DEF StoreInv, TxOK, Uploading
<1>9. /\ \A v \in Users : tx'[v].held = tx[v].held
      /\ \A v \in Users \ {u} : Uploading(v)' = Uploading(v) /\ Revoking(v)' = Revoking(v)
  BY <1>1, <1>2, <1>4 DEF Uploading, Revoking
<1>10. ASSUME NEW v \in Users, NEW w \in Users, v # w
       PROVE  /\ tx'[v].held \cap tx'[w].held = {}
              /\ Uploading(v)' /\ Uploading(w)' => tx'[v].id # tx'[w].id
  <2>1. tx'[v].held \cap tx'[w].held = {}
    BY <1>9, <1>10 DEF StoreInv
  <2>2. CASE v # u /\ w # u
    BY <1>4, <1>9, <1>10, <2>1, <2>2 DEF StoreInv
  <2>3. CASE v = u \/ w = u
    BY <1>2, <1>4, <1>8, <1>9, <1>10, <2>1, <2>3
  <2>4. QED
    BY <2>2, <2>3
<1>11. ASSUME "commit" \notin Faults, NEW j \in Active'
       PROVE  j \in blobs' \/ \E v \in Users : j \in tx'[v].held /\ Revoking(v)'
  <2>1. j \in blobs \/ \E v \in Users : j \in tx[v].held /\ Revoking(v)
    BY <1>6, <1>11 DEF StoreInv
  <2>2. QED
    BY <1>1, <1>9, <2>1
<1>12. QED
  BY <1>4, <1>5, <1>7, <1>10, <1>11 DEF StoreInv, TypesOK

\* A step that changes where a transaction stands, and neither its request nor
\* what it holds.
LEMMA MovesOn ==
    ASSUME TypesOK, StoreInv, NEW u \in Users, NEW n \in TxType, tx' = [tx EXCEPT ![u] = n],
           UNCHANGED <<rows, blobs>>, ~Revoking(u), n.op = tx[u].op, n.id = tx[u].id,
           tx[u].at \in InTransaction, n.at \in InTransaction \ {"commit", "put", "delete"},
           n.held = {}
    PROVE  TypesOK' /\ StoreInv'
<1>1. /\ TypesOK' /\ tx'[u] = n /\ \A v \in Users \ {u} : tx'[v] = tx[v]
  BY DEF TypesOK
<1>2. TxOK(u)
  BY DEF StoreInv
<1>3. Active' = Active
  BY DEF Active
<1>4. TxOK(u)'
  BY <1>1, <1>2, <1>3 DEF TxOK, InTransaction
<1>5. Uploading(u)' => Uploading(u) /\ tx'[u].id = tx[u].id
  BY <1>1 DEF Uploading
<1>6. QED
  BY <1>1, <1>4, <1>5, TxStep

LEMMA BeginStep ==
    ASSUME MaxUploads \in Nat, TypesOK, StoreInv, NEW u \in Users, Begin(u)
    PROVE  TypesOK' /\ StoreInv'
<1>1. /\ tx[u].at = "sent" /\ tx[u].id = 0 /\ tx[u].held = {} /\ tx[u] \in TxType
      /\ ~Revoking(u) /\ UNCHANGED blobs
  BY DEF Begin, TypesOK, StoreInv, TxOK, Revoking
<1>2. ASSUME NEW refused \in {401, 403, 404}, Answered(u, mapApiError(refused, "company")),
             UNCHANGED rows
      PROVE  TypesOK' /\ StoreInv'
  <2>1. mapApiError(refused, "company") \in {"ok"} \cup ErrorCodes
    BY ApiErrors
  <2>2. QED
    BY <1>1, <1>2, <2>1, RefusedStep
<1>3. CASE tx[u].op = "revoke" /\ tx' = [tx EXCEPT ![u].at = "begun"] /\ UNCHANGED rows
  <2> DEFINE n == [tx[u] EXCEPT !.at = "begun"]
  <2>1. n \in TxType /\ n.at = "begun" /\ n.op = "revoke" /\ n.id = 0 /\ n.held = {}
    BY <1>1, <1>3 DEF TxType, InTransaction
  <2>2. tx' = [tx EXCEPT ![u] = n]
    BY <1>3 DEF TypesOK
  <2> HIDE DEF n
  <2>3. TypesOK' /\ tx'[u] = n /\ \A v \in Users \ {u} : tx'[v] = tx[v]
    BY <1>1, <1>3, <2>1, <2>2 DEF TypesOK
  <2>4. TxOK(u)' /\ ~Uploading(u)'
    BY <2>1, <2>3 DEF TxOK, Uploading
  <2>5. QED
    BY <1>1, <1>3, <2>1, <2>3, <2>4, TxStep
<1>4. QED
  BY <1>1, <1>2, <1>3, BeginUpload DEF Begin

LEMMA RejectAnswers ==
    ASSUME NEW u \in Users, Reject(u)
    PROVE  /\ tx[u].at = "begun" /\ UNCHANGED <<rows, blobs, dialog>>
           /\ \E answer \in {"ok"} \cup ErrorCodes :
                 tx' = [tx EXCEPT ![u].at = "rollback", ![u].answer = answer]
<1>1. tx[u].at = "begun" /\ UNCHANGED <<rows, blobs, dialog>>
  BY DEF Reject
<1>2. PICK refused \in Refusals :
         tx' = [tx EXCEPT ![u].at = "rollback",
                          ![u].answer = Told(u, mapApiError(refused[1], refused[2]))]
  BY DEF Reject
<1>3. mapApiError(refused[1], refused[2]) \in ErrorCodes
  BY ApiErrors
<1>4. Told(u, mapApiError(refused[1], refused[2])) \in {"ok"} \cup ErrorCodes
  BY <1>3 DEF Told
<1> QED
  BY <1>1, <1>2, <1>4

LEMMA RejectStep ==
    ASSUME TypesOK, StoreInv, NEW u \in Users, Reject(u)
    PROVE  TypesOK' /\ StoreInv'
<1>1. PICK answer \in {"ok"} \cup ErrorCodes :
         tx' = [tx EXCEPT ![u].at = "rollback", ![u].answer = answer]
  BY RejectAnswers
<1> DEFINE n == [tx[u] EXCEPT !.at = "rollback", !.answer = answer]
<1>2. tx[u].at = "begun" /\ UNCHANGED <<rows, blobs>>
  BY RejectAnswers
<1>3. tx[u] \in TxType /\ tx[u].held = {} /\ ~Revoking(u)
  BY <1>2 DEF TypesOK, StoreInv, TxOK, Revoking
<1>4. /\ n \in TxType /\ n.at = "rollback" /\ n.op = tx[u].op /\ n.id = tx[u].id /\ n.held = {}
  BY <1>3 DEF TxType, InTransaction
<1>5. tx' = [tx EXCEPT ![u] = n]
  BY <1>1 DEF TypesOK
<1> HIDE DEF n
<1>6. QED
  BY <1>2, <1>3, <1>4, <1>5, MovesOn DEF InTransaction

LEMMA LookStep ==
    ASSUME TypesOK, StoreInv, NEW u \in Users, Look(u)
    PROVE  TypesOK' /\ StoreInv'
<1> DEFINE n == [tx[u] EXCEPT !.at = "update", !.seen = Active]
<1>1. /\ tx[u] \in TxType /\ tx[u].at = "begun" /\ tx[u].held = {} /\ UNCHANGED <<rows, blobs>>
      /\ ~Revoking(u)
  BY DEF Look, TypesOK, StoreInv, TxOK, Revoking
<1>2. /\ n \in TxType /\ n.at = "update" /\ n.op = tx[u].op /\ n.id = tx[u].id /\ n.held = {}
  <2>1. Active \in SUBSET Uploads
    BY DEF Active
  <2>2. QED
    BY <1>1, <2>1 DEF TxType, InTransaction
<1>3. tx' = [tx EXCEPT ![u] = n]
  BY DEF Look, TypesOK
<1> HIDE DEF n
<1>4. QED
  BY <1>1, <1>2, <1>3, MovesOn DEF InTransaction

\* The rows it takes are active, and those of no other transaction: it waited for
\* each row it had seen.
LEMMA RetireStep ==
    ASSUME TypesOK, StoreInv, NEW u \in Users, Retire(u)
    PROVE  TypesOK' /\ StoreInv'
<1> DEFINE held == tx[u].seen \cap Active
           at == IF tx[u].op = "upload" THEN "put"
                 ELSE IF held = {} THEN "rollback" ELSE "delete"
           answer == Told(u, IF tx[u].op = "revoke" /\ held = {}
                             THEN mapApiError(404, "credencial") ELSE "ok")
           n == [tx[u] EXCEPT !.seen = {}, !.held = held, !.at = at, !.answer = answer]
<1>1. /\ tx[u] \in TxType /\ tx[u].at = "update" /\ UNCHANGED <<rows, blobs>> /\ ~Revoking(u)
      /\ \A v \in Users \ {u} : tx[v].held \cap tx[u].seen = {}
      /\ tx[u].op \in {"upload", "revoke"} /\ TxOK(u) /\ Uploading(u) = (tx[u].op = "upload")
  BY DEF Retire, TypesOK, StoreInv, TxOK, Revoking, InTransaction, Uploading
<1>2. answer \in {"ok"} \cup ErrorCodes
  <2>1. (IF tx[u].op = "revoke" /\ held = {} THEN mapApiError(404, "credencial") ELSE "ok")
            \in {"ok"} \cup ErrorCodes
    BY ApiErrors
  <2> QED
    BY <2>1 DEF Told
<1>3. tx' = [tx EXCEPT ![u] = n]
  <2>1. tx' = [tx EXCEPT ![u].seen = {}, ![u].held = held, ![u].at = at, ![u].answer = answer]
    BY Zenon DEF Retire
  <2> HIDE DEF held, at, answer
  <2> QED
    BY <2>1 DEF TypesOK
<1>4. held \in SUBSET Uploads /\ held \subseteq Active
  BY DEF Active
<1>5. at \in {"put", "rollback", "delete"}
  OBVIOUS
<1> HIDE DEF answer
<1>6. /\ n \in TxType /\ n.at = at /\ n.op = tx[u].op /\ n.id = tx[u].id /\ n.held = held
  <2> HIDE DEF held, at
  <2>1. QED
    BY <1>1, <1>2, <1>4, <1>5 DEF TxType, InTransaction
<1> HIDE DEF n
<1>7. TypesOK' /\ tx'[u] = n /\ \A v \in Users \ {u} : tx'[v] = tx[v]
  BY <1>1, <1>3, <1>6 DEF TypesOK
<1>8. Active' = Active
  BY <1>1 DEF Active
<1>9. TxOK(u)'
  <2>1. n.op = "upload" => tx'[u].id \in Uploads /\ rows'[tx'[u].id] = "open"
    BY <1>1, <1>6, <1>7 DEF TxOK, InTransaction
  <2>2. n.op = "revoke" => tx'[u].id = 0
    BY <1>1, <1>6, <1>7 DEF TxOK, InTransaction
  <2>3. tx'[u].held \subseteq Active'
    BY <1>4, <1>6, <1>7, <1>8
  <2>4. QED
    BY <1>1, <1>5, <1>6, <1>7, <2>1, <2>2, <2>3 DEF TxOK
<1>10. \A v \in Users \ {u} : tx'[u].held \cap tx[v].held = {}
  BY <1>1, <1>6, <1>7
<1>11. Uploading(u)' => Uploading(u) /\ tx'[u].id = tx[u].id
  BY <1>1, <1>6, <1>7 DEF Uploading
<1>12. QED
  BY <1>1, <1>7, <1>9, <1>10, <1>11, TxStep

\* A step of u's on the bucket: what leaves it is what u is about to revoke.
LEMMA BucketStep ==
    ASSUME TypesOK, StoreInv, NEW u \in Users, NEW n \in TxType, tx' = [tx EXCEPT ![u] = n],
           UNCHANGED rows, blobs' \subseteq Uploads, ~Revoking(u), tx[u].at \in InTransaction,
           n.op = tx[u].op, n.id = tx[u].id, n.held = tx[u].held,
           \/ n.at = "rollback" /\ n.op = "upload"
           \/ n.at = "commit" /\ (n.op = "upload" => n.id \in blobs'),
           \A i \in blobs \ blobs' : i \in n.held /\ n.at = "commit" /\ n.op = "revoke"
    PROVE  TypesOK' /\ StoreInv'
<1>1. /\ TypesOK' /\ tx'[u] = n /\ \A v \in Users \ {u} : tx'[v] = tx[v]
  BY DEF TypesOK
<1>2. Active' = Active /\ TxOK(u)
  BY DEF Active, StoreInv
<1>3. TxOK(u)'
  <2>1. n.op = "upload" => n.id \in Uploads /\ rows'[n.id] = "open"
    BY <1>2 DEF TxOK
  <2>2. n.op = "revoke" => n.id = 0
    BY <1>2 DEF TxOK
  <2>3. n.op \in {"upload", "revoke"} /\ n.held \subseteq Active'
    BY <1>2 DEF TxOK
  <2>4. QED
    BY <1>1, <2>1, <2>2, <2>3 DEF TxOK
<1>4. ASSUME NEW v \in Users, v # u PROVE TxOK(v)'
  <2>1. TxOK(v) /\ tx'[v] = tx[v]
    BY <1>1, <1>4 DEF StoreInv
  <2>2. ASSUME tx[v].at = "commit", tx[v].op = "upload" PROVE tx[v].id \in blobs'
    <3>1. tx[v].id \in blobs /\ rows[tx[v].id] = "open"
      BY <2>1, <2>2 DEF TxOK, InTransaction
    <3>2. tx[v].id \notin n.held
      BY <1>2, <3>1 DEF TxOK, Active
    <3>3. QED
      BY <3>1, <3>2
  <2>3. QED
    BY <1>2, <2>1, <2>2 DEF TxOK
<1>5. ASSUME NEW v \in Users, NEW w \in Users, v # w
      PROVE  /\ tx'[v].held \cap tx'[w].held = {}
             /\ Uploading(v)' /\ Uploading(w)' => tx'[v].id # tx'[w].id
  <2>1. \A x \in Users : /\ tx'[x].held = tx[x].held /\ tx'[x].id = tx[x].id
                          /\ Uploading(x)' => Uploading(x)
    BY <1>1 DEF Uploading
  <2>2. QED
    BY <1>5, <2>1 DEF StoreInv
<1>6. ASSUME "commit" \notin Faults, NEW i \in Active'
      PROVE  i \in blobs' \/ \E v \in Users : i \in tx'[v].held /\ Revoking(v)'
  <2>1. i \in blobs \/ \E v \in Users : i \in tx[v].held /\ Revoking(v)
    BY <1>2, <1>6 DEF StoreInv
  <2>2. CASE i \in blobs \ blobs'
    BY <1>1, <2>2 DEF Revoking
  <2>3. CASE \E v \in Users : i \in tx[v].held /\ Revoking(v)
    BY <1>1, <2>3 DEF Revoking
  <2>4. QED
    BY <2>1, <2>2, <2>3
<1>7. QED
  BY <1>1, <1>3, <1>4, <1>5, <1>6 DEF StoreInv

LEMMA PutStep ==
    ASSUME TypesOK, StoreInv, NEW u \in Users, Put(u)
    PROVE  TypesOK' /\ StoreInv'
<1>1. /\ tx[u] \in TxType /\ tx[u].at = "put" /\ tx[u].op = "upload" /\ tx[u].id \in Uploads
      /\ UNCHANGED rows /\ ~Revoking(u) /\ tx[u].at \in InTransaction
  BY DEF Put, TypesOK, StoreInv, TxOK, Revoking, InTransaction
<1>2. CASE blobs' = blobs \cup {tx[u].id} /\ tx' = [tx EXCEPT ![u].at = "commit"]
  <2> DEFINE n == [tx[u] EXCEPT !.at = "commit"]
  <2>1. /\ n \in TxType /\ n.at = "commit" /\ n.op = tx[u].op /\ n.id = tx[u].id
        /\ n.held = tx[u].held
    BY <1>1 DEF TxType, InTransaction
  <2>2. tx' = [tx EXCEPT ![u] = n]
    BY <1>2 DEF TypesOK
  <2> HIDE DEF n
  <2>3. blobs' \subseteq Uploads /\ n.id \in blobs' /\ blobs \ blobs' = {}
    BY <1>1, <1>2, <2>1 DEF TypesOK
  <2>4. QED
    BY <1>1, <2>1, <2>2, <2>3, BucketStep
<1> DEFINE answer == Told(u, mapApiError(502, ""))
<1>3. CASE tx' = [tx EXCEPT ![u].at = "rollback", ![u].answer = answer] /\ UNCHANGED blobs
  <2> DEFINE n == [tx[u] EXCEPT !.at = "rollback", !.answer = answer]
  <2>1. answer \in {"ok"} \cup ErrorCodes
    <3>1. mapApiError(502, "") \in ErrorCodes
      BY ApiErrors
    <3> QED
      BY <3>1 DEF Told
  <2> HIDE DEF answer
  <2>2. tx' = [tx EXCEPT ![u] = n]
    BY <1>3 DEF TypesOK
  <2>3. /\ n \in TxType /\ n.at = "rollback" /\ n.op = tx[u].op /\ n.id = tx[u].id
        /\ n.held = tx[u].held
    BY <1>1, <2>1 DEF TxType, InTransaction
  <2> HIDE DEF n
  <2>4. blobs' \subseteq Uploads /\ blobs \ blobs' = {}
    BY <1>3 DEF TypesOK
  <2>5. QED
    BY <1>1, <2>2, <2>3, <2>4, BucketStep
<1>4. QED
  BY <1>2, <1>3 DEF Put

LEMMA DeleteStep ==
    ASSUME TypesOK, StoreInv, NEW u \in Users, DeleteBlobs(u)
    PROVE  TypesOK' /\ StoreInv'
<1> DEFINE n == [tx[u] EXCEPT !.at = "commit"]
<1>1. /\ tx[u] \in TxType /\ tx[u].at = "delete" /\ tx[u].op = "revoke"
      /\ UNCHANGED rows /\ ~Revoking(u) /\ tx[u].at \in InTransaction
  BY DEF DeleteBlobs, TypesOK, StoreInv, TxOK, Revoking, InTransaction
<1>2. /\ n \in TxType /\ n.at = "commit" /\ n.op = tx[u].op /\ n.id = tx[u].id
      /\ n.held = tx[u].held
  BY <1>1 DEF TxType, InTransaction
<1>3. tx' = [tx EXCEPT ![u] = n]
  BY DEF DeleteBlobs, TypesOK
<1> HIDE DEF n
<1>4. blobs' \subseteq Uploads /\ blobs \ blobs' \subseteq n.held
  BY <1>2 DEF DeleteBlobs, TypesOK
<1>5. QED
  BY <1>1, <1>2, <1>3, <1>4, BucketStep

\* The end of a transaction: its row and the rows it held are those of no other.
LEMMA EndStep ==
    ASSUME MaxUploads \in Nat, TypesOK, StoreInv, NEW u \in Users,
           EndTransaction(u)
    PROVE  TypesOK' /\ StoreInv'
<1>1. /\ tx[u] \in TxType /\ TxOK(u) /\ tx[u].at \in {"commit", "rollback"} /\ UNCHANGED blobs
      /\ tx[u].at \in InTransaction
  BY DEF EndTransaction, TypesOK, StoreInv, InTransaction
<1>2. PICK answer \in {"ok"} \cup ErrorCodes : Answered(u, answer)
  <2>1. /\ "ok" \in {"ok"} \cup ErrorCodes /\ mapApiError(500, "") \in {"ok"} \cup ErrorCodes
        /\ tx[u].answer \in {"ok"} \cup ErrorCodes
    <3>1. mapApiError(500, "") \in ErrorCodes
      BY ApiErrors
    <3>2. tx[u].answer \in {"ok"} \cup ErrorCodes
      BY <1>1 DEF TxType
    <3>3. QED
      BY <3>1, <3>2, Zenon
  <2>2. Answered(u, "ok") \/ Answered(u, mapApiError(500, "")) \/ Answered(u, tx[u].answer)
    BY DEF EndTransaction
  <2>3. QED
    BY <2>1, <2>2, Zenon
<1>3. /\ tx' \in [Users -> TxType] /\ \A v \in Users \ {u} : tx'[v] = tx[v]
      /\ tx'[u].at \in {"idle", "answered"} /\ tx'[u].held = {}
  BY <1>2, AnsweredType
<1> DEFINE mine(i) == i = tx[u].id
<1>4. \/ /\ tx[u].at = "commit"
         /\ rows' = [i \in Uploads |-> IF mine(i) THEN "active"
                                       ELSE IF i \in tx[u].held THEN "revoked" ELSE rows[i]]
      \/ /\ tx[u].at = "rollback" \/ "commit" \in Faults
         /\ rows' = [i \in Uploads |-> IF mine(i) THEN "rolled_back" ELSE rows[i]]
  BY DEF EndTransaction
<1>5. rows' \in [Uploads -> RowStates]
  <2>1. CASE rows' = [i \in Uploads |-> IF mine(i) THEN "active"
                                        ELSE IF i \in tx[u].held THEN "revoked" ELSE rows[i]]
    BY <2>1 DEF TypesOK, RowStates
  <2>2. CASE rows' = [i \in Uploads |-> IF mine(i) THEN "rolled_back" ELSE rows[i]]
    BY <2>2 DEF TypesOK, RowStates
  <2>3. QED
    BY <1>4, <2>1, <2>2
<1>6. TypesOK'
  BY <1>1, <1>3, <1>5 DEF TypesOK
<1>7. tx[u].id \in Uploads => tx[u].op = "upload" /\ rows[tx[u].id] = "open"
  BY <1>1 DEF TxOK, Uploads
<1>8. ASSUME NEW i \in Uploads, i # tx[u].id, i \notin tx[u].held PROVE rows'[i] = rows[i]
  BY <1>4, <1>8
<1>9. ASSUME NEW v \in Users, v # u, NEW i \in tx[v].held PROVE i \in Active'
  <2>1. i \in Active /\ i \notin tx[u].held
    BY <1>9 DEF StoreInv, TxOK
  <2>2. i # tx[u].id
    BY <1>7, <2>1 DEF Active
  <2>3. QED
    BY <1>8, <2>1, <2>2 DEF Active
<1>10. ASSUME NEW v \in Users PROVE TxOK(v)'
  <2>1. CASE v = u
    BY <1>2, <1>3, <2>1 DEF TxOK, InTransaction
  <2>2. CASE v # u
    <3>1. TxOK(v) /\ tx'[v] = tx[v]
      BY <1>3, <2>2 DEF StoreInv
    <3>2. ASSUME tx[v].at \in InTransaction, tx[v].op = "upload" PROVE rows'[tx[v].id] = "open"
      <4>1. tx[v].id \in Uploads /\ rows[tx[v].id] = "open"
        BY <3>1, <3>2 DEF TxOK
      <4>2. tx[v].id \notin tx[u].held
        BY <1>1, <4>1 DEF TxOK, Active
      <4>3. tx[v].id # tx[u].id
        BY <1>1, <1>7, <2>2, <3>2, <4>1 DEF StoreInv, Uploading
      <4>4. QED
        BY <1>8, <4>1, <4>2, <4>3
    <3>3. tx[v].held \subseteq Active'
      BY <1>9, <2>2
    <3>4. QED
      BY <1>1, <3>1, <3>2, <3>3 DEF TxOK
  <2>3. QED
    BY <2>1, <2>2
<1>11. ASSUME NEW v \in Users, NEW w \in Users, v # w
       PROVE  /\ tx'[v].held \cap tx'[w].held = {}
              /\ Uploading(v)' /\ Uploading(w)' => tx'[v].id # tx'[w].id
  <2>1. CASE v # u /\ w # u
    BY <1>3, <1>11, <2>1 DEF StoreInv, Uploading
  <2>2. CASE v = u \/ w = u
    BY <1>3, <2>2 DEF Uploading, InTransaction
  <2>3. QED
    BY <2>1, <2>2
<1>12. ASSUME "commit" \notin Faults, NEW i \in Active'
       PROVE  i \in blobs' \/ \E v \in Users : i \in tx'[v].held /\ Revoking(v)'
  <2>1. CASE i = tx[u].id
    <3>1. tx[u].at = "commit" /\ tx[u].op = "upload"
      BY <1>4, <1>7, <1>12, <2>1 DEF Active
    <3>2. QED
      BY <1>1, <2>1, <3>1 DEF TxOK
  <2>2. CASE i # tx[u].id
    <3>1. i \in Active
      BY <1>4, <2>2 DEF Active
    <3>2. i \in tx[u].held => ~Revoking(u)
      BY <1>4, <1>12, <2>2 DEF Active, Revoking
    <3>3. i \in blobs \/ \E v \in Users : i \in tx[v].held /\ Revoking(v)
      BY <1>12, <3>1 DEF StoreInv
    <3>4. ASSUME NEW v \in Users, i \in tx[v].held, Revoking(v)
          PROVE  i \in tx'[v].held /\ Revoking(v)'
      BY <1>3, <3>2, <3>4 DEF Revoking
    <3>5. QED
      BY <1>1, <3>3, <3>4
  <2>3. QED
    BY <2>1, <2>2
<1>13. QED
  BY <1>6, <1>10, <1>11, <1>12 DEF StoreInv

\* A request that is sent, or whose answer was taken.
LEMMA OutsideStep ==
    ASSUME TypesOK, StoreInv, NEW u \in Users, NEW n \in TxType, tx' = [tx EXCEPT ![u] = n],
           UNCHANGED <<rows, blobs>>, tx[u].at \notin InTransaction,
           n.at \in {"idle", "sent"}, n.id = 0, n.held = {}
    PROVE  TypesOK' /\ StoreInv'
<1>1. TypesOK' /\ tx'[u] = n /\ \A v \in Users \ {u} : tx'[v] = tx[v]
  BY DEF TypesOK
<1>2. TxOK(u)' /\ ~Uploading(u)' /\ ~Revoking(u)
  BY <1>1 DEF TxOK, Uploading, Revoking, InTransaction
<1>3. QED
  BY <1>1, <1>2, TxStep

LEMMA IdleType ==
    MaxUploads \in Nat => Idle \in TxType /\ Idle.at = "idle" /\ Idle.id = 0 /\ Idle.held = {}
BY DEF Idle, TxType, InTransaction, ErrorCodes

LEMMA AskType ==
    ASSUME MaxUploads \in Nat, NEW op \in {"upload", "revoke"}
    PROVE  LET n == [Idle EXCEPT !.at = "sent", !.op = op]
           IN  n \in TxType /\ n.at = "sent" /\ n.id = 0 /\ n.held = {}
BY IdleType DEF Idle, TxType, InTransaction, ErrorCodes

\* A step of a request or of a user elsewhere changes no dialog, and the panel's
\* own request only when it has one.
LEMMA ServerKeepsDialog ==
    ASSUME TypesOK, DialogInv, NEW u \in Users, UNCHANGED dialog,
           u = Me => tx[u].at # "idle", \A v \in Users \ {u} : tx'[v] = tx[v]
    PROVE  DialogInv'
<1>1. dialog.submitting \/ tx'[Me].at = "idle"
  BY DEF DialogInv, Users
<1>2. QED
  BY <1>1 DEF DialogInv

Handles(u) == \/ Begin(u) \/ Reject(u) \/ Look(u) \/ Retire(u) \/ Put(u) \/ DeleteBlobs(u)
              \/ EndTransaction(u)

LEMMA HandlesAlone ==
    ASSUME TypesOK, NEW u \in Users, Handles(u)
    PROVE  /\ UNCHANGED dialog /\ tx[u].at # "idle"
           /\ \A v \in Users \ {u} : tx'[v] = tx[v]
<1> USE DEF TypesOK
<1>1. CASE Begin(u)
  BY <1>1 DEF Begin, Answered
<1>2. CASE Reject(u)
  BY <1>2, RejectAnswers
<1>3. CASE Look(u)
  BY <1>3 DEF Look
<1>4. CASE Retire(u)
  BY <1>4 DEF Retire
<1>5. CASE Put(u)
  BY <1>5 DEF Put
<1>6. CASE DeleteBlobs(u)
  BY <1>6 DEF DeleteBlobs
<1>7. CASE EndTransaction(u)
  BY <1>7 DEF EndTransaction, Answered
<1>8. QED
  BY <1>1, <1>2, <1>3, <1>4, <1>5, <1>6, <1>7 DEF Handles

LEMMA HandlesStep ==
    ASSUME MaxUploads \in Nat, TypesOK, StoreInv, DialogInv, NEW u \in Users, Handles(u)
    PROVE  TypesOK' /\ StoreInv' /\ DialogInv'
<1>1. TypesOK' /\ StoreInv'
  BY BeginStep, RejectStep, LookStep, RetireStep, PutStep, DeleteStep, EndStep DEF Handles
<1>2. DialogInv'
  BY HandlesAlone, ServerKeepsDialog
<1>3. QED
  BY <1>1, <1>2

LEMMA OtherAsksStep ==
    ASSUME MaxUploads \in Nat, Me \notin Others, TypesOK, StoreInv, DialogInv,
           NEW u \in Users, OtherAsks(u)
    PROVE  TypesOK' /\ StoreInv' /\ DialogInv'
<1>1. PICK op \in {"upload", "revoke"} : tx' = [tx EXCEPT ![u] = [Idle EXCEPT !.at = "sent", !.op = op]]
  BY DEF OtherAsks
<1>2. u # Me /\ UNCHANGED <<rows, blobs, dialog>> /\ tx[u].at \notin InTransaction
  BY DEF OtherAsks, InTransaction
<1>3. TypesOK' /\ StoreInv'
  BY <1>1, <1>2, AskType, OutsideStep
<1>4. \A v \in Users \ {u} : tx'[v] = tx[v]
  BY <1>1 DEF TypesOK
<1>5. QED
  BY <1>2, <1>3, <1>4, ServerKeepsDialog

LEMMA SubmitStep ==
    ASSUME MaxUploads \in Nat, TypesOK, StoreInv, DialogInv, Submit
    PROVE  TypesOK' /\ StoreInv' /\ DialogInv'
<1>1. /\ dialog.op \in {"upload", "revoke"} /\ tx[Me].at \notin InTransaction /\ Me \in Users
      /\ UNCHANGED <<rows, blobs>>
      /\ tx' = [tx EXCEPT ![Me] = [Idle EXCEPT !.at = "sent", !.op = dialog.op]]
  BY DEF Submit, DialogInv, InTransaction, Users
<1>2. TypesOK' /\ StoreInv'
  BY <1>1, AskType, OutsideStep
<1>3. DialogInv'
  BY DEF Submit, DialogInv
<1>4. QED
  BY <1>2, <1>3

LEMMA SubmissionEndsStep ==
    ASSUME MaxUploads \in Nat, TypesOK, StoreInv, DialogInv, SubmissionEnds
    PROVE  TypesOK' /\ StoreInv' /\ DialogInv'
<1>1. /\ tx[Me].at = "answered" /\ Me \in Users /\ UNCHANGED <<rows, blobs>>
      /\ tx' = [tx EXCEPT ![Me] = Idle] /\ tx[Me].answer \in {"ok"} \cup ErrorCodes
  BY DEF SubmissionEnds, Users, TypesOK, TxType
<1>2. TypesOK' /\ StoreInv'
  BY <1>1, IdleType, OutsideStep DEF InTransaction
<1>3. tx'[Me].at = "idle"
  BY <1>1, IdleType DEF TypesOK
<1>4. PICK answer \in {tx[Me].answer} \cup (Faults \cap {"network"}) :
        \/ dialog' = NoDialog
        \/ /\ answer # "ok"
           /\ dialog' = [dialog EXCEPT !.submitting = FALSE, !.error = humanizeError(dialog.op, answer)]
  BY DEF SubmissionEnds
<1>5. DialogInv'
  <2>1. CASE dialog' = NoDialog
    BY <1>3, <2>1 DEF DialogInv, NoDialog
  <2>2. CASE dialog' = [dialog EXCEPT !.submitting = FALSE, !.error = humanizeError(dialog.op, answer)]
             /\ answer # "ok"
    <3>1. humanizeError(dialog.op, answer) \in {"none", "nothing_to_revoke", "network"} \cup ErrorCodes
      BY <1>1, <1>4, <2>2 DEF humanizeError
    <3>2. QED
      BY <1>3, <2>2, <3>1 DEF DialogInv
  <2>3. QED
    BY <1>4, <2>1, <2>2
<1>6. QED
  BY <1>2, <1>5

\* The rest of the panel touches neither the table nor a request.
LEMMA PanelStep ==
    ASSUME TypesOK, StoreInv, DialogInv, UNCHANGED server,
           \/ UNCHANGED dialog
           \/ \E op \in {"upload", "revoke"} : OpenDialog(op)
           \/ PickFile \/ TypeWord \/ CloseDialog
    PROVE  TypesOK' /\ StoreInv' /\ DialogInv'
<1>1. UNCHANGED <<rows, blobs, tx>>
  BY DEF server
<1>2. TypesOK' /\ StoreInv'
  BY <1>1 DEF TypesOK, StoreInv, TxOK, Active, Uploading, Revoking
<1>3. ASSUME UNCHANGED dialog PROVE DialogInv'
  BY <1>1, <1>3 DEF DialogInv
<1>4. ASSUME NEW op \in {"upload", "revoke"}, OpenDialog(op) PROVE DialogInv'
  BY <1>1, <1>4 DEF DialogInv, OpenDialog, NoDialog
<1>5. ASSUME PickFile PROVE DialogInv'
  BY <1>1, <1>5 DEF DialogInv, PickFile, UploadDialog, DialogShows, InUse
<1>6. ASSUME TypeWord PROVE DialogInv'
  BY <1>1, <1>6 DEF DialogInv, TypeWord, RevokeDialog, DialogShows, InUse
<1>7. ASSUME CloseDialog PROVE DialogInv'
  BY <1>1, <1>7 DEF DialogInv, CloseDialog, UploadDialog, RevokeDialog, DialogShows, InUse, NoDialog
<1>8. QED
  BY <1>2, <1>3, <1>4, <1>5, <1>6, <1>7

-----------------------------------------------------------------------------
(* The theorem.                                                             *)

CredentialsInv == Open /\ TypesOK /\ StoreInv /\ DialogInv

LEMMA InitCredentials == MaxUploads \in Nat /\ Init => CredentialsInv
<1> SUFFICES ASSUME MaxUploads \in Nat, Init PROVE CredentialsInv
  OBVIOUS
<1>1. TypesOK
  <2>1. rows \in [Uploads -> RowStates] /\ blobs \subseteq Uploads
    BY DEF Init, RowStates
  <2>2. tx \in [Users -> TxType]
    BY IdleType DEF Init
  <2>3. QED
    BY <2>1, <2>2 DEF TypesOK
<1>2. Active = {} /\ \A u \in Users : tx[u].at = "idle" /\ tx[u].held = {}
  BY IdleType DEF Init, Active
<1>3. StoreInv
  BY <1>2 DEF StoreInv, TxOK, Uploading, InTransaction
<1>4. DialogInv
  BY <1>2 DEF Init, NoDialog, DialogInv, Users
<1>5. QED
  BY <1>1, <1>3, <1>4 DEF Init, CredentialsInv

LEMMA StepCredentials ==
    ASSUME MaxUploads \in Nat, Me \notin Others, CredentialsInv, [Next]_vars
    PROVE  CredentialsInv'
<1> USE DEF CredentialsInv
<1>1. CASE UNCHANGED vars
  <2>1. UNCHANGED route /\ UNCHANGED server /\ UNCHANGED dialog
    BY <1>1 DEF vars
  <2>2. QED
    BY <2>1, PanelStep DEF Open
<1>2. CASE Next
  <2>1. Open'
    BY <1>2 DEF Next, Open
  <2>2. ASSUME NEW u \in Users, Handles(u) PROVE TypesOK' /\ StoreInv' /\ DialogInv'
    BY <2>2, HandlesStep
  <2>3. ASSUME NEW u \in Users, OtherAsks(u) PROVE TypesOK' /\ StoreInv' /\ DialogInv'
    BY <2>3, OtherAsksStep
  <2>4. ASSUME TokenRenewed \/ Retry \/ \E i \in DOMAIN reads : ReadCredential(i) \/ ReadArrives(i)
        PROVE  TypesOK' /\ StoreInv' /\ DialogInv'
    <3>1. UNCHANGED server /\ UNCHANGED dialog
      BY <2>4 DEF TokenRenewed, Retry, ReadCredential, ReadArrives
    <3>2. QED
      BY <3>1, PanelStep
  <2>5. ASSUME \/ \E op \in {"upload", "revoke"} : OpenDialog(op)
               \/ PickFile \/ TypeWord \/ CloseDialog
        PROVE  TypesOK' /\ StoreInv' /\ DialogInv'
    <3>1. UNCHANGED server
      BY <2>5 DEF OpenDialog, PickFile, TypeWord, CloseDialog
    <3>2. QED
      BY <2>5, <3>1, PanelStep
  <2>6. ASSUME Submit PROVE TypesOK' /\ StoreInv' /\ DialogInv'
    BY <2>6, SubmitStep
  <2>7. ASSUME SubmissionEnds PROVE TypesOK' /\ StoreInv' /\ DialogInv'
    BY <2>7, SubmissionEndsStep
  <2>8. TypesOK' /\ StoreInv' /\ DialogInv'
    BY <1>2, <2>2, <2>3, <2>4, <2>5, <2>6, <2>7 DEF Next, Handles
  <2>9. QED
    BY <2>1, <2>8
<1>3. QED
  BY <1>1, <1>2

\* What the table calls active has its file in the bucket, or is held by a
\* revocation about to commit, whoever uploads and revokes at once and whether the
\* bucket fails or not (upload_credential, revoke_credential).  When a commit may
\* fail it is false: a revocation deletes the files before its commit.
THEOREM ActiveCredentialHasFile ==
    ASSUME MaxUploads \in Nat, Me \notin Others, "commit" \notin Faults
    PROVE  Spec => []ActiveHasBlob
<1>1. Init => CredentialsInv
  BY InitCredentials
<1>2. CredentialsInv /\ [Next]_vars => CredentialsInv'
  BY StepCredentials
<1>3. CredentialsInv => ActiveHasBlob
  BY DEF CredentialsInv, StoreInv, ActiveHasBlob
<1>4. QED
  BY <1>1, <1>2, <1>3, PTL DEF Spec

-----------------------------------------------------------------------------
(* Who waits for whom.  An UPDATE waits for the transaction that holds a    *)
(* row it has seen (Retire), and what runs on an event loop, the start and  *)
(* the end of a request included, for the POST that holds it (LoopFree).    *)

RowWait(u, v) == u # v /\ tx[u].at = "update" /\ tx[v].held \cap tx[u].seen # {}

LoopWait(u, v) ==
    /\ v \in loops \ {u} /\ Process[v] = Process[u]
    /\ tx[u].at \in {"sent", "commit", "rollback"} \/ (tx[u].at = "begun" /\ tx[u].op = "upload")

Waits(u, v) == RowWait(u, v) \/ LoopWait(u, v)

\* After a wait for a row only a wait for a loop can follow, and the reverse.
WaitsAlternate ==
    \A u, v, w \in Users : /\ ~(RowWait(u, v) /\ RowWait(v, w))
                           /\ ~(LoopWait(u, v) /\ LoopWait(v, w))

\* Whoever is waited for waits for nobody.
WaitsAreShort == \A u, v, w \in Users : ~(Waits(u, v) /\ Waits(v, w))

\* A loop is held by a POST, over the UPDATE and the upload to the bucket only.
LoopsInv ==
    \A u \in loops : u \in Users /\ tx[u].at \in {"update", "put"} /\ tx[u].op = "upload"

LEMMA StepLoops ==
    ASSUME MaxUploads \in Nat, Me \notin Others, CredentialsInv, LoopsInv, [Next]_vars
    PROVE  LoopsInv'
<1> USE DEF CredentialsInv
<1>1. ASSUME NEW u \in Users, tx[u].at \notin {"update", "put"}, UNCHANGED loops,
             \A v \in Users \ {u} : tx'[v] = tx[v]
      PROVE  LoopsInv'
  BY <1>1 DEF LoopsInv
<1>2. ASSUME UNCHANGED server PROVE LoopsInv'
  BY <1>2 DEF server, LoopsInv
<1>3. ASSUME NEW u \in Users, Handles(u) PROVE LoopsInv'
  <2>1. \A v \in Users \ {u} : tx'[v] = tx[v]
    BY <1>3, HandlesAlone
  <2>2. tx[u] \in TxType /\ tx \in [Users -> TxType]
    BY DEF TypesOK
  <2>3. CASE Begin(u) \/ Reject(u) \/ DeleteBlobs(u) \/ EndTransaction(u)
    <3>1. tx[u].at \notin {"update", "put"} /\ UNCHANGED loops
      BY <2>3 DEF Begin, Reject, DeleteBlobs, EndTransaction
    <3>2. QED
      BY <1>1, <2>1, <3>1
  <2>4. CASE Look(u)
    <3>1. tx'[u].at = "update" /\ tx'[u].op = tx[u].op
      BY <2>2, <2>4 DEF Look, TxType
    <3>2. loops' = loops \/ (tx[u].op = "upload" /\ loops' = loops \cup {u})
      BY <2>4 DEF Look
    <3>3. QED
      BY <2>1, <3>1, <3>2 DEF LoopsInv
  <2>5. CASE Retire(u)
    <3>1. UNCHANGED loops
      BY <2>5 DEF Retire
    <3>2. u \in loops => tx[u].op = "upload"
      BY DEF LoopsInv
    <3>3. tx[u].op = "upload" => tx'[u].at = "put" /\ tx'[u].op = "upload"
      BY <2>2, <2>5 DEF Retire, TxType
    <3>4. QED
      BY <2>1, <3>1, <3>2, <3>3 DEF LoopsInv
  <2>6. CASE Put(u)
    <3>1. loops' = loops \ {u}
      BY <2>6 DEF Put
    <3>2. QED
      BY <2>1, <3>1 DEF LoopsInv
  <2>7. QED
    BY <1>3, <2>3, <2>4, <2>5, <2>6 DEF Handles
<1>4. ASSUME NEW u \in Users, OtherAsks(u) PROVE LoopsInv'
  <2>1. tx[u].at \notin {"update", "put"} /\ UNCHANGED loops /\ \A v \in Users \ {u} : tx'[v] = tx[v]
    BY <1>4 DEF OtherAsks, TypesOK
  <2>2. QED
    BY <1>1, <2>1
<1>5. CASE Submit \/ SubmissionEnds
  <2>1. tx[Me].at \in {"idle", "answered"} /\ UNCHANGED loops /\ Me \in Users
    BY <1>5 DEF Submit, SubmissionEnds, DialogInv, Users
  <2>2. \A v \in Users \ {Me} : tx'[v] = tx[v]
    BY <1>5 DEF Submit, SubmissionEnds, TypesOK
  <2>3. QED
    BY <1>1, <2>1, <2>2
<1>6. ASSUME \/ TokenRenewed \/ Retry \/ \E i \in DOMAIN reads : ReadCredential(i) \/ ReadArrives(i)
             \/ \E op \in {"upload", "revoke"} : OpenDialog(op)
             \/ PickFile \/ TypeWord \/ CloseDialog \/ UNCHANGED vars
      PROVE  LoopsInv'
  <2>1. UNCHANGED server
    BY <1>6 DEF TokenRenewed, Retry, ReadCredential, ReadArrives, OpenDialog, PickFile, TypeWord,
                CloseDialog, vars
  <2>2. QED
    BY <1>2, <2>1
<1>7. QED
  BY <1>3, <1>4, <1>5, <1>6 DEF Next, Handles

LEMMA LoopsAlwaysOK ==
    ASSUME MaxUploads \in Nat, Me \notin Others
    PROVE  Spec => [](CredentialsInv /\ LoopsInv)
<1>1. Init => CredentialsInv /\ LoopsInv
  BY InitCredentials DEF Init, LoopsInv
<1>2. CredentialsInv /\ LoopsInv /\ [Next]_vars => (CredentialsInv /\ LoopsInv)'
  BY StepCredentials, StepLoops
<1>3. QED
  BY <1>1, <1>2, PTL DEF Spec

\* No two transactions wait for each other's rows, and no two requests for each
\* other's loop: a request that waits for rows holds none, and one that holds a
\* loop waits for no other.  Whoever waits for ever waits for a POST that waits,
\* on the event loop, for a row of a request of the same process
\* (upload_credential, credentials.py:250).
THEOREM WaitsAlternateAlways ==
    ASSUME MaxUploads \in Nat, Me \notin Others
    PROVE  Spec => []WaitsAlternate
<1>1. CredentialsInv /\ LoopsInv => WaitsAlternate
  <2> SUFFICES ASSUME CredentialsInv, LoopsInv, NEW u \in Users, NEW v \in Users, NEW w \in Users
               PROVE  ~(RowWait(u, v) /\ RowWait(v, w)) /\ ~(LoopWait(u, v) /\ LoopWait(v, w))
    BY DEF WaitsAlternate
  <2>1. ~(RowWait(u, v) /\ RowWait(v, w))
    <3>1. tx[v].held # {} => tx[v].at \in {"put", "delete", "commit", "rollback"}
      BY DEF CredentialsInv, StoreInv, TxOK
    <3>2. QED
      BY <3>1 DEF RowWait
  <2>2. ~(LoopWait(u, v) /\ LoopWait(v, w))
    BY DEF LoopWait, LoopsInv
  <2>3. QED
    BY <2>1, <2>2
<1>2. QED
  BY <1>1, LoopsAlwaysOK, PTL

\* When no two of the users are served by one process, whoever is waited for can
\* go on: uploads and revocations never lock each other up.
THEOREM OwnProcessesNeverLock ==
    ASSUME MaxUploads \in Nat, Me \notin Others,
           \A u, v \in Users : Process[u] = Process[v] => u = v
    PROVE  Spec => []WaitsAreShort
<1>1. CredentialsInv /\ LoopsInv /\ WaitsAlternate => WaitsAreShort
  <2> SUFFICES ASSUME LoopsInv, WaitsAlternate PROVE WaitsAreShort
    OBVIOUS
  <2>1. \A u, v \in Users : ~LoopWait(u, v)
    BY DEF LoopWait
  <2>2. QED
    BY <2>1 DEF WaitsAreShort, Waits, WaitsAlternate
<1>2. QED
  BY <1>1, LoopsAlwaysOK, WaitsAlternateAlways, PTL

-----------------------------------------------------------------------------
(* What the panel shows and asks for.                                       *)

PanelOK ==
    /\ loops \subseteq Users
    /\ panel \in [view : {"loading", "ready", "error"}, cred : 0..MaxUploads,
                  flash : {"none", "sent", "revoked"}]
    /\ reads \in [0..MaxReads -> [at : {"none", "asked", "answered", "failed"}, cred : 0..MaxUploads]]

\* Of some uploads one is the newest.
LEMMA NewestUpload ==
    ASSUME MaxUploads \in Nat, NEW S \in SUBSET Uploads, S # {}
    PROVE  Max(S) \in S
<1> DEFINE before == {n \in Nat : n <= MaxUploads /\ MaxUploads - n \in S}
<1>1. PICK i \in S : TRUE
  OBVIOUS
<1>2. MaxUploads - i \in before
  BY <1>1 DEF Uploads
<1>3. PICK n \in before : \A k \in before : ~ (<<k, n>> \in OpToRel(<, Nat))
  BY <1>2, NatLessThanWellFounded, WFMin, Zenon
<1>4. MaxUploads - n \in S /\ \A j \in S : MaxUploads - n >= j
  <2>1. ASSUME NEW j \in S PROVE MaxUploads - n >= j
    <3>1. /\ j \in Nat /\ MaxUploads - j \in Nat /\ MaxUploads - (MaxUploads - j) = j /\ MaxUploads - j <= MaxUploads
      BY <2>1 DEF Uploads
    <3>2. ~(MaxUploads - j < n)
      BY <1>3, <3>1 DEF OpToRel
    <3>3. n \in Nat
      BY <1>3
    <3> HIDE DEF before
    <3>4. QED
      BY <3>1, <3>2, <3>3
  <2>2. QED
    BY <1>3, <2>1
<1>5. QED
  BY <1>4 DEF Max

LEMMA ServedType ==
    ASSUME MaxUploads \in Nat
    PROVE  Served \in 0..MaxUploads
<1>1. Active \in SUBSET Uploads
  BY DEF Active
<1>2. Active # {} => Max(Active) \in Active
  BY <1>1, NewestUpload
<1>3. Uploads \subseteq 0..MaxUploads /\ 0 \in 0..MaxUploads
  BY DEF Uploads
<1>4. QED
  BY <1>1, <1>2, <1>3 DEF Served

LEMMA InitPanel == MaxUploads \in Nat /\ Init => PanelOK
<1> SUFFICES ASSUME MaxUploads \in Nat, Init PROVE PanelOK
  OBVIOUS
<1>1. NoRead \in [at : {"none", "asked", "answered", "failed"}, cred : 0..MaxUploads]
      /\ [NoRead EXCEPT !.at = "asked"] \in [at : {"none", "asked", "answered", "failed"}, cred : 0..MaxUploads]
  BY DEF NoRead
<1>2. QED
  BY <1>1 DEF Init, PanelOK

LEMMA StepPanel ==
    ASSUME MaxUploads \in Nat, TypesOK, DialogInv, PanelOK, [Next]_vars
    PROVE  PanelOK'
<1> DEFINE ReadType == [at : {"none", "asked", "answered", "failed"}, cred : 0..MaxUploads]
           PanelType == [view : {"loading", "ready", "error"}, cred : 0..MaxUploads,
                         flash : {"none", "sent", "revoked"}]
<1>1. /\ loops \subseteq Users /\ panel \in PanelType /\ reads \in [0..MaxReads -> ReadType]
      /\ DOMAIN reads = 0..MaxReads
  BY DEF PanelOK
<1>2. CASE UNCHANGED vars
  BY <1>2 DEF vars, server, PanelOK
<1>3. ASSUME NEW u \in Users, Handles(u) \/ OtherAsks(u) PROVE PanelOK'
  <2>1. UNCHANGED <<panel, reads>>
    BY <1>3 DEF Handles, Begin, Reject, Look, Retire, Put, DeleteBlobs, EndTransaction, OtherAsks
  <2>2. loops' \subseteq Users
    BY <1>1, <1>3
    DEF Handles, Begin, Reject, Look, Retire, Put, DeleteBlobs, EndTransaction, OtherAsks
  <2>3. QED
    BY <2>1, <2>2 DEF PanelOK
<1>4. CASE TokenRenewed \/ Retry
  <2>1. StartRead /\ UNCHANGED loops
    BY <1>4 DEF TokenRenewed, Retry, server
  <2>2. [panel EXCEPT !.view = "loading"] \in PanelType
    BY <1>1
  <2>3. \A i \in DOMAIN reads : [reads EXCEPT ![i].at = "asked"] \in [0..MaxReads -> ReadType]
    BY <1>1
  <2>4. QED
    BY <1>1, <2>1, <2>2, <2>3 DEF StartRead, PanelOK
<1>5. ASSUME NEW i \in DOMAIN reads, ReadCredential(i) PROVE PanelOK'
  <2>1. /\ [at |-> "answered", cred |-> Served] \in ReadType
        /\ [reads EXCEPT ![i].at = "failed"] \in [0..MaxReads -> ReadType]
    BY <1>1, ServedType
  <2>2. reads' \in [0..MaxReads -> ReadType]
    BY <1>1, <1>5, <2>1 DEF ReadCredential
  <2>3. QED
    BY <1>1, <1>5, <2>2 DEF ReadCredential, PanelOK, server
<1>6. ASSUME NEW i \in DOMAIN reads, ReadArrives(i) PROVE PanelOK'
  <2>1. NoRead \in ReadType
    BY DEF NoRead
  <2>2. reads' \in [0..MaxReads -> ReadType]
    BY <1>1, <1>6, <2>1 DEF ReadArrives
  <2>3. panel' \in PanelType
    <3>1. reads[i].cred \in 0..MaxUploads
      BY <1>1
    <3>2. CASE reads[i].at = "failed"
      <4>1. panel' = [panel EXCEPT !.view = "error", !.cred = panel.cred]
        BY <1>6, <3>2 DEF ReadArrives
      <4>2. QED
        BY <1>1, <4>1
    <3>3. CASE reads[i].at # "failed"
      <4>1. panel' = [panel EXCEPT !.view = "ready", !.cred = reads[i].cred]
        BY <1>6, <3>3 DEF ReadArrives
      <4>2. QED
        BY <1>1, <3>1, <4>1
    <3>4. QED
      BY <3>2, <3>3
  <2>4. QED
    BY <1>1, <1>6, <2>2, <2>3 DEF ReadArrives, PanelOK, server
<1>7. ASSUME NEW op \in {"upload", "revoke"}, OpenDialog(op) PROVE PanelOK'
  BY <1>1, <1>7 DEF OpenDialog, PanelOK, server
<1>8. CASE PickFile \/ TypeWord \/ CloseDialog \/ Submit
  BY <1>1, <1>8 DEF PickFile, TypeWord, CloseDialog, Submit, PanelOK, server
<1>9. CASE SubmissionEnds
  <2>1. tx[Me].id \in 0..MaxUploads /\ 0 \in 0..MaxUploads
    BY DEF TypesOK, TxType, Users
  <2>2. panel' \in PanelType
    BY <1>1, <1>9, <2>1 DEF SubmissionEnds
  <2>3. QED
    BY <1>1, <1>9, <2>2 DEF SubmissionEnds, PanelOK
<1>10. QED
  BY <1>2, <1>3, <1>4, <1>5, <1>6, <1>7, <1>8, <1>9 DEF Next, Handles
=============================================================================
