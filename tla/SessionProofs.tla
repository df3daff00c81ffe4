---------------------------- MODULE SessionProofs ----------------------------
(***************************************************************************)
(* Proofs about Session, for any finite set of tabs, any bounds on the     *)
(* calls in flight and any set of faults.                                  *)
(***************************************************************************)
EXTENDS Session, FiniteSetTheorems, TLAPS

Stages == {"none", "sent", "granted", "cleared", "failed"}
CallType == [stage : Stages, tok : Tokens]

-----------------------------------------------------------------------------
(* A new token is a token nobody holds.                                     *)

LEMMA PurposesFinite == IsFiniteSet(Purposes)
<1> DEFINE S1 == {"mount"}
           S2 == S1 \cup {"timer"}
           S3 == S2 \cup {"request"}
           S4 == S3 \cup {"callback"}
           S5 == S4 \cup {"orphan"}
           S6 == S5 \cup {"login"}
           S7 == S6 \cup {"accept"}
           S8 == S7 \cup {"logout"}
<1>1. IsFiniteSet(S1)
  BY FS_Singleton
<1>2. IsFiniteSet(S2)
  <2> HIDE DEF S1
  <2> QED BY <1>1, FS_AddElement
<1>3. IsFiniteSet(S3)
  <2> HIDE DEF S2
  <2> QED BY <1>2, FS_AddElement
<1>4. IsFiniteSet(S4)
  <2> HIDE DEF S3
  <2> QED BY <1>3, FS_AddElement
<1>5. IsFiniteSet(S5)
  <2> HIDE DEF S4
  <2> QED BY <1>4, FS_AddElement
<1>6. IsFiniteSet(S6)
  <2> HIDE DEF S5
  <2> QED BY <1>5, FS_AddElement
<1>7. IsFiniteSet(S7)
  <2> HIDE DEF S6
  <2> QED BY <1>6, FS_AddElement
<1>8. IsFiniteSet(S8)
  <2> HIDE DEF S7
  <2> QED BY <1>7, FS_AddElement
<1>9. Purposes = S8
  BY DEF Purposes, Refreshes, SignIns
<1>10. QED
  BY <1>8, <1>9

\* Finitely many calls hold finitely many tokens.
LEMMA HeldFinite ==
    ASSUME NEW ck, NEW cl
    PROVE  IsFiniteSet(Held(ck, cl))
<1> DEFINE Slots == Tabs \X Purposes
           f == [c \in Slots |-> cl[c[1]][c[2]].tok]
           Carried == {cl[t][p].tok : t \in Tabs, p \in Purposes}
<1>1. IsFiniteSet(Slots)
  BY PurposesFinite, FS_Product, SessionAssumption
<1>2. f \in Surjection(Slots, Carried)
  <2>1. f \in [Slots -> Carried]
    OBVIOUS
  <2>2. ASSUME NEW k \in Carried PROVE \E c \in Slots : f[c] = k
    <3>1. PICK t \in Tabs, p \in Purposes : k = cl[t][p].tok
      OBVIOUS
    <3>2. <<t, p>> \in Slots /\ f[<<t, p>>] = k
      BY <3>1
    <3>3. QED
      BY <3>2
  <2> HIDE DEF Slots, f, Carried
  <2>3. QED
    BY <2>1, <2>2 DEF Surjection
<1>3. IsFiniteSet(Carried)
  <2> HIDE DEF f, Carried, Slots
  <2> QED
    BY <1>1, <1>2, FS_Surjection
<1>4. IsFiniteSet({ck} \cup Carried)
  <2> HIDE DEF Carried
  <2>1. IsFiniteSet({ck})
    BY FS_Singleton
  <2>2. QED
    BY <1>3, <2>1, FS_Union
<1>5. Held(ck, cl) \in SUBSET ({ck} \cup Carried)
  BY DEF Held
<1>6. QED
  <2> HIDE DEF Carried
  <2> QED
    BY <1>4, <1>5, FS_Subset

\* A set of n tokens leaves one of 1 .. n + 1 out.
LEMMA FreshIsNew == Fresh \in Tokens \ {NoToken} /\ Fresh \notin Held(cookie, call)
<1> DEFINE H == Held(cookie, call)
           n == Cardinality(H)
<1>1. IsFiniteSet(H) /\ n \in Nat
  BY HeldFinite, FS_CardinalityType
<1>2. \E k \in 1 .. n + 1 : k \notin H
  <2> HIDE DEF H
  <2>1. SUFFICES ASSUME (1 .. n + 1) \in SUBSET H PROVE FALSE
    OBVIOUS
  <2>2. Cardinality(1 .. n + 1) <= n
    BY <1>1, <2>1, FS_Subset
  <2>3. Cardinality(1 .. n + 1) = n + 1
    BY <1>1, FS_Interval
  <2>4. QED
    BY <1>1, <2>2, <2>3
<1>3. Fresh \in 1 .. n + 1 /\ Fresh \notin H
  BY <1>2 DEF Fresh
<1>4. QED
  BY <1>1, <1>3 DEF Tokens, NoToken

-----------------------------------------------------------------------------
(* Types.                                                                   *)

\* The part of TypeOK that calls move.
StoreOK ==
    /\ cookie \in Tokens
    /\ live \subseteq Tokens \ {NoToken}
    /\ call \in [Tabs -> [Purposes -> CallType]]

LEMMA SentType ==
    ASSUME NEW p \in Purposes, NEW ck \in Tokens
    PROVE  /\ Sent(p, ck) \in CallType
           /\ Sent(p, ck) # Idle
<1> USE DEF Tokens, NoToken
<1>1. \A st \in Stages, k \in Tokens : [stage |-> st, tok |-> k] \in CallType
  BY DEF CallType
<1>2. Sent(p, ck) \in CallType
  BY <1>1 DEF Sent, Stages
<1>3. Sent(p, ck).stage # "none"
  BY DEF Sent
<1>4. QED
  BY <1>2, <1>3 DEF Idle

LEMMA WithType ==
    ASSUME StoreOK, NEW t \in Tabs, NEW p \in Purposes, NEW c \in CallType
    PROVE  /\ With(t, p, c) \in [Tabs -> [Purposes -> CallType]]
           /\ With(t, p, c)[t][p] = c
           /\ \A u \in Tabs, q \in Purposes :
                 u # t \/ q # p => With(t, p, c)[u][q] = call[u][q]
<1> HIDE DEF CallType
<1> QED
  BY DEF StoreOK, With

LEMMA MoveType ==
    ASSUME NEW ck \in Tokens, NEW cl \in [Tabs -> [Purposes -> CallType]],
           NEW alive, alive \subseteq Tokens \ {NoToken},
           Move(ck, cl, alive)
    PROVE  StoreOK'
BY DEF Move, StoreOK, CallType

LEMMA CallTypes ==
    ASSUME TypeOK
    PROVE  /\ StoreOK
           /\ \A t \in Tabs, p \in Purposes :
                 call[t][p] \in CallType /\ call[t][p].tok \in Tokens
           /\ Idle \in CallType
BY DEF TypeOK, StoreOK, CallType, Stages, Idle, Tokens, NoToken

LEMMA StartCallType ==
    ASSUME TypeOK, NEW t \in Tabs, NEW p \in Purposes, StartCall(t, p)
    PROVE  StoreOK' /\ orderly' \in BOOLEAN
<1>1. StoreOK /\ cookie \in Tokens /\ live \subseteq Tokens \ {NoToken}
  BY CallTypes DEF StoreOK
<1>2. Sent(p, cookie) \in CallType
  BY <1>1, SentType
<1>3. With(t, p, Sent(p, cookie)) \in [Tabs -> [Purposes -> CallType]]
  BY <1>1, <1>2, WithType
<1>4. StoreOK'
  BY <1>1, <1>3, MoveType DEF StartCall
<1>5. QED
  BY <1>4 DEF StartCall, TypeOK

LEMMA ReceiveType ==
    ASSUME TypeOK, NEW t \in Tabs, NEW p \in Purposes, NEW ck \in Tokens,
           Move(ck, With(t, p, Idle), live)
    PROVE  StoreOK'
BY CallTypes, WithType, MoveType DEF StoreOK

LEMMA CookieAfterType ==
    ASSUME TypeOK, NEW t \in Tabs, NEW p \in Purposes
    PROVE  CookieAfter(call[t][p]) \in Tokens
BY CallTypes DEF CookieAfter, TypeOK, Tokens, NoToken

\* The part of TypeOK that the tabs move.
TabsOK ==
    /\ status \in [Tabs -> {"closed", "loading", "authenticated", "unauthenticated"}]
    /\ timer \in [Tabs -> BOOLEAN]
    /\ page \in [Tabs -> {"app", "login", "invite"}]

LEMMA TypeParts == TypeOK <=> StoreOK /\ TabsOK /\ signedOut \subseteq Tabs /\ orderly \in BOOLEAN
BY DEF TypeOK, StoreOK, TabsOK, CallType, Stages

LEMMA StepTypeOK == TypeOK /\ [Next]_vars => TypeOK'
<1> SUFFICES ASSUME TypeOK, [Next]_vars PROVE TypeOK'
  OBVIOUS
<1>0. /\ StoreOK /\ TabsOK
      /\ cookie \in Tokens /\ live \subseteq Tokens \ {NoToken}
      /\ signedOut \subseteq Tabs /\ orderly \in BOOLEAN
      /\ NoToken \in Tokens
  BY TypeParts DEF StoreOK, Tokens, NoToken
<1> SUFFICES StoreOK' /\ TabsOK' /\ signedOut' \subseteq Tabs /\ orderly' \in BOOLEAN
  BY TypeParts DEF TypeOK, StoreOK, TabsOK, CallType, Stages
<1>1. ASSUME NEW t \in Tabs, NEW pg \in {"app", "login", "invite"}, Open(t, pg)
      PROVE  StoreOK' /\ TabsOK' /\ signedOut' \subseteq Tabs /\ orderly' \in BOOLEAN
  <2>1. "mount" \in Purposes
    BY DEF Purposes, Refreshes
  <2>2. StoreOK' /\ orderly' \in BOOLEAN
    BY <1>1, <2>1, StartCallType DEF Open
  <2>3. TabsOK'
    BY <1>0, <1>1 DEF Open, TabsOK, Landing
  <2>4. QED
    BY <1>0, <1>1, <2>2, <2>3 DEF Open
<1>2. ASSUME NEW t \in Tabs, Close(t)
      PROVE  StoreOK' /\ TabsOK' /\ signedOut' \subseteq Tabs /\ orderly' \in BOOLEAN
  <2>1. PICK left \in {call[t][p] : p \in Refreshes} \cup {Idle} :
           Move(cookie, [call EXCEPT ![t] = [p \in Purposes |-> IF p = "orphan" THEN left ELSE Idle]],
                live)
    BY <1>2 DEF Close
  <2>2. left \in CallType /\ Idle \in CallType
    BY CallTypes DEF Purposes
  <2>3. [call EXCEPT ![t] = [p \in Purposes |-> IF p = "orphan" THEN left ELSE Idle]]
           \in [Tabs -> [Purposes -> CallType]]
    BY <1>0, <2>2 DEF StoreOK
  <2>4. StoreOK'
    BY <1>0, <2>1, <2>3, MoveType
  <2>5. TabsOK'
    BY <1>0, <1>2 DEF Close, TabsOK
  <2>6. orderly' \in BOOLEAN
    BY <1>0, <1>2 DEF Close
  <2>7. QED
    BY <1>0, <1>2, <2>4, <2>5, <2>6 DEF Close
<1>3. ASSUME NEW t \in Tabs, NEW p \in Purposes, StartCall(t, p), UNCHANGED <<tab, signedOut>>
      PROVE  StoreOK' /\ TabsOK' /\ signedOut' \subseteq Tabs /\ orderly' \in BOOLEAN
  <2>1. StoreOK' /\ orderly' \in BOOLEAN
    BY <1>3, StartCallType
  <2>2. TabsOK'
    BY <1>0, <1>3 DEF TabsOK, tab
  <2>3. QED
    BY <1>0, <1>3, <2>1, <2>2
<1>4. ASSUME NEW t \in Tabs, TimerFires(t)
      PROVE  StoreOK' /\ TabsOK' /\ signedOut' \subseteq Tabs /\ orderly' \in BOOLEAN
  <2>1. "timer" \in Purposes
    BY DEF Purposes, Refreshes
  <2>2. StoreOK' /\ orderly' \in BOOLEAN
    BY <1>4, <2>1, StartCallType DEF TimerFires
  <2>3. TabsOK'
    BY <1>0, <1>4 DEF TimerFires, TabsOK
  <2>4. QED
    BY <1>0, <1>4, <2>2, <2>3 DEF TimerFires
<1>5. ASSUME NEW t \in Tabs, NEW p \in Purposes, NEW c \in CallType,
             NEW alive, alive \subseteq Tokens \ {NoToken},
             Move(cookie, With(t, p, c), alive), UNCHANGED <<tab, signedOut>>,
             orderly' \in BOOLEAN
      PROVE  StoreOK' /\ TabsOK' /\ signedOut' \subseteq Tabs /\ orderly' \in BOOLEAN
  <2>1. StoreOK'
    BY <1>0, <1>5, WithType, MoveType
  <2>2. TabsOK'
    BY <1>0, <1>5 DEF TabsOK, tab
  <2>3. QED
    BY <1>0, <1>5, <2>1, <2>2
<1>6. \A st \in Stages, k \in Tokens : [stage |-> st, tok |-> k] \in CallType
  BY DEF CallType
<1>7. Fresh \in Tokens \ {NoToken}
  BY FreshIsNew
<1>8. ASSUME NEW t \in Tabs, NEW p \in Purposes, Rotate(t, p)
      PROVE  StoreOK' /\ TabsOK' /\ signedOut' \subseteq Tabs /\ orderly' \in BOOLEAN
  <2>1. UNCHANGED <<tab, signedOut>> /\ orderly' \in BOOLEAN
    BY <1>0, <1>8 DEF Rotate
  <2>2. CASE Move(cookie, With(t, p, [stage |-> "granted", tok |-> Fresh]),
                  (live \ {call[t][p].tok}) \cup {Fresh})
    <3>1. [stage |-> "granted", tok |-> Fresh] \in CallType
      BY <1>6, <1>7 DEF Stages
    <3>2. QED
      BY <1>0, <1>5, <1>7, <2>1, <2>2, <3>1
  <2>3. CASE Move(cookie, With(t, p, [stage |-> "cleared", tok |-> NoToken]), live)
    <3>1. [stage |-> "cleared", tok |-> NoToken] \in CallType
      BY <1>0, <1>6 DEF Stages
    <3>2. QED
      BY <1>0, <1>5, <2>1, <2>3, <3>1
  <2>4. QED
    BY <1>8, <2>2, <2>3 DEF Rotate
<1>9. ASSUME NEW t \in Tabs, NEW p \in Purposes, SignIn(t, p)
      PROVE  StoreOK' /\ TabsOK' /\ signedOut' \subseteq Tabs /\ orderly' \in BOOLEAN
  <2>1. UNCHANGED <<tab, signedOut>> /\ orderly' \in BOOLEAN
    BY <1>0, <1>9 DEF SignIn
  <2>2. CASE Move(cookie, With(t, p, [stage |-> "failed", tok |-> NoToken]), live)
    <3>1. [stage |-> "failed", tok |-> NoToken] \in CallType
      BY <1>0, <1>6 DEF Stages
    <3>2. QED
      BY <1>0, <1>5, <2>1, <2>2, <3>1
  <2>3. CASE Move(cookie, With(t, p, [stage |-> "granted", tok |-> Fresh]), live \cup {Fresh})
    <3>1. [stage |-> "granted", tok |-> Fresh] \in CallType
      BY <1>6, <1>7 DEF Stages
    <3>2. QED
      BY <1>0, <1>5, <1>7, <2>1, <2>3, <3>1
  <2>4. QED
    BY <1>9, <2>2, <2>3 DEF SignIn
<1>10. ASSUME NEW t \in Tabs, Revoke(t)
       PROVE  StoreOK' /\ TabsOK' /\ signedOut' \subseteq Tabs /\ orderly' \in BOOLEAN
  <2>1. UNCHANGED <<tab, signedOut>> /\ orderly' \in BOOLEAN /\ "logout" \in Purposes
    BY <1>0, <1>10 DEF Revoke, Purposes
  <2>2. PICK revoked : Move(cookie, With(t, "logout", [stage |-> "cleared", tok |-> NoToken]),
                            live \ revoked)
    BY <1>10 DEF Revoke
  <2>3. [stage |-> "cleared", tok |-> NoToken] \in CallType
    BY <1>0, <1>6 DEF Stages
  <2>4. live \ revoked \subseteq Tokens \ {NoToken}
    BY <1>0
  <2>5. QED
    BY <1>5, <2>1, <2>2, <2>3, <2>4
<1>11. ASSUME NEW t \in Tabs, NEW p \in Purposes, NetworkFails(t, p)
       PROVE  StoreOK' /\ TabsOK' /\ signedOut' \subseteq Tabs /\ orderly' \in BOOLEAN
  <2>1. [stage |-> "failed", tok |-> NoToken] \in CallType
    BY <1>0, <1>6 DEF Stages
  <2>2. QED
    BY <1>0, <1>5, <1>11, <2>1 DEF NetworkFails
<1>12. ASSUME NEW t \in Tabs, NEW p \in Refreshes, SessionRefreshed(t, p)
       PROVE  StoreOK' /\ TabsOK' /\ signedOut' \subseteq Tabs /\ orderly' \in BOOLEAN
  <2>1. p \in Purposes
    BY DEF Purposes
  <2>2. StoreOK'
    BY <1>12, <2>1, CookieAfterType, ReceiveType DEF SessionRefreshed, Receive
  <2>3. \/ ApplySession(t)
        \/ status' = [status EXCEPT ![t] = "unauthenticated"] /\ UNCHANGED timer
        \/ ClearSession(t)
    BY <1>12 DEF SessionRefreshed
  <2>4. status' \in [Tabs -> {"closed", "loading", "authenticated", "unauthenticated"}]
        /\ timer' \in [Tabs -> BOOLEAN]
    BY <1>0, <2>3 DEF TabsOK, ApplySession, ClearSession
  <2>5. page' \in [Tabs -> {"app", "login", "invite"}]
    BY <1>0, <1>12 DEF SessionRefreshed, Guarded, TabsOK
  <2>6. QED
    BY <1>0, <1>12, <2>2, <2>4, <2>5 DEF SessionRefreshed, TabsOK
<1>13. ASSUME NEW t \in Tabs, RequestRefreshed(t)
       PROVE  StoreOK' /\ TabsOK' /\ signedOut' \subseteq Tabs /\ orderly' \in BOOLEAN
  <2> DEFINE c == call[t]["request"]
             idle == With(t, "request", Idle)
  <2>1. "request" \in Purposes /\ "callback" \in Purposes
    BY DEF Purposes, Refreshes
  <2>2. c \in CallType /\ c.tok \in Tokens /\ idle \in [Tabs -> [Purposes -> CallType]]
    BY <1>0, <2>1, CallTypes, WithType
  <2>3. StoreOK' /\ orderly' \in BOOLEAN
    <3>1. CASE c.stage = "granted"
      <4>1. Sent("callback", c.tok) \in CallType
        BY <2>1, <2>2, SentType
      <4>2. [idle EXCEPT ![t]["callback"] = Sent("callback", c.tok)]
               \in [Tabs -> [Purposes -> CallType]]
        <5> HIDE DEF idle, c
        <5> QED
          BY <2>1, <2>2, <4>1
      <4>3. /\ Move(c.tok, [idle EXCEPT ![t]["callback"] = Sent("callback", c.tok)], live)
            /\ orderly' = (orderly /\ \A u \in Tabs, p \in Purposes : idle[u][p] = Idle)
        BY <1>13, <3>1 DEF RequestRefreshed
      <4>4. StoreOK'
        <5> HIDE DEF idle, c
        <5> QED
          BY <1>0, <2>2, <4>2, <4>3, MoveType
      <4>5. orderly' \in BOOLEAN
        BY <1>0, <4>3
      <4>6. QED
        BY <4>4, <4>5
    <3>2. CASE c.stage # "granted"
      <4>1. Move(CookieAfter(c), idle, live) /\ UNCHANGED orderly
        BY <1>13, <3>2 DEF RequestRefreshed
      <4>2. QED
        BY <1>0, <2>1, <4>1, CookieAfterType, ReceiveType
    <3>3. QED
      BY <3>1, <3>2
  <2>4. TabsOK'
    BY <1>0, <1>13 DEF RequestRefreshed, TabsOK, tab
  <2>5. QED
    BY <1>0, <1>13, <2>3, <2>4 DEF RequestRefreshed
<1>14. ASSUME NEW t \in Tabs, LoggedIn(t)
       PROVE  StoreOK' /\ TabsOK' /\ signedOut' \subseteq Tabs /\ orderly' \in BOOLEAN
  <2>1. "login" \in Purposes
    BY DEF Purposes, SignIns
  <2>2. StoreOK'
    BY <1>14, <2>1, CookieAfterType, ReceiveType DEF LoggedIn, Receive
  <2>3. TabsOK'
    BY <1>0, <1>14 DEF LoggedIn, ApplySession, TabsOK, tab
  <2>4. QED
    BY <1>0, <1>14, <2>2, <2>3 DEF LoggedIn
<1>15. ASSUME NEW t \in Tabs, InviteAccepted(t)
       PROVE  StoreOK' /\ TabsOK' /\ signedOut' \subseteq Tabs /\ orderly' \in BOOLEAN
  <2>1. "accept" \in Purposes
    BY DEF Purposes, SignIns
  <2>2. StoreOK'
    BY <1>15, <2>1, CookieAfterType, ReceiveType DEF InviteAccepted, Receive
  <2>3. TabsOK'
    BY <1>0, <1>15 DEF InviteAccepted, Landing, TabsOK
  <2>4. QED
    BY <1>0, <1>15, <2>2, <2>3 DEF InviteAccepted
<1>16. ASSUME NEW t \in Tabs, LoggedOut(t)
       PROVE  StoreOK' /\ TabsOK' /\ signedOut' \subseteq Tabs /\ orderly' \in BOOLEAN
  <2>1. "logout" \in Purposes
    BY DEF Purposes
  <2>2. StoreOK'
    BY <1>16, <2>1, CookieAfterType, ReceiveType DEF LoggedOut, Receive
  <2>3. TabsOK'
    BY <1>0, <1>16 DEF LoggedOut, ClearSession, TabsOK
  <2>4. QED
    BY <1>0, <1>16, <2>2, <2>3 DEF LoggedOut
<1>17. ASSUME NEW t \in Tabs, OrphanEnds(t)
       PROVE  StoreOK' /\ TabsOK' /\ signedOut' \subseteq Tabs /\ orderly' \in BOOLEAN
  <2>1. "orphan" \in Purposes /\ Idle \in CallType
    BY CallTypes DEF Purposes, Refreshes
  <2>2. QED
    BY <1>0, <1>5, <1>17, <2>1 DEF OrphanEnds
<1>18. CASE UNCHANGED vars
  BY <1>0, <1>18 DEF vars, tab, StoreOK, TabsOK
<1>19. ASSUME NEW t \in Tabs, User(t)
       PROVE  StoreOK' /\ TabsOK' /\ signedOut' \subseteq Tabs /\ orderly' \in BOOLEAN
  <2>1. {"login", "accept", "logout"} \subseteq Purposes
    BY DEF Purposes, SignIns
  <2>2. QED
    BY <1>1, <1>2, <1>3, <1>19, <2>1 DEF User, SubmitLogin, SubmitSignup, SubmitInvite, ClickLogout
<1>20. ASSUME NEW t \in Tabs, RequestUnauthorized(t)
       PROVE  StoreOK' /\ TabsOK' /\ signedOut' \subseteq Tabs /\ orderly' \in BOOLEAN
  BY <1>3, <1>20 DEF RequestUnauthorized, Purposes, Refreshes
<1>21. QED
  BY <1>4, <1>8, <1>9, <1>10, <1>11, <1>12, <1>13, <1>14, <1>15, <1>16, <1>17, <1>18, <1>19, <1>20
     DEF Next, Answer

\* Every variable of the session stays in its type: no handler of a tab, of the
\* Route Handlers or of the API stores anything else (auth-provider.tsx).
THEOREM SessionTypes == Spec => []TypeOK
<1>1. Init => TypeOK
  BY DEF Init, TypeOK, Idle, Tokens, NoToken
<1>2. QED
  BY <1>1, StepTypeOK, PTL DEF Spec

-----------------------------------------------------------------------------
(* A session can always be renewed.  The invariant is inductive by itself.  *)

\* What SessionRenews wants of a tab that shows a session.
Renewing(t) == timer[t] \/ \E p \in {"timer", "callback"} : call[t][p] # Idle

\* A step that leaves the tabs alone and ends neither refresh of the provider.
LEMMA RenewsThroughCall ==
    ASSUME TypeOK, SessionRenews, NEW t \in Tabs, NEW p \in Purposes, NEW c \in CallType,
           p \in {"timer", "callback"} => c # Idle,
           call' = With(t, p, c), UNCHANGED <<status, timer>>
    PROVE  SessionRenews'
<1> SUFFICES ASSUME NEW u \in Tabs, status'[u] = "authenticated" PROVE Renewing(u)'
  BY DEF SessionRenews, Renewing
<1>1. CASE timer[u]
  BY <1>1 DEF Renewing
<1>2. CASE ~ timer[u]
  <2>1. PICK q \in {"timer", "callback"} : call[u][q] # Idle
    BY <1>2 DEF SessionRenews
  <2>2. q \in Purposes
    BY DEF Purposes, Refreshes
  <2>3. call'[u][q] = IF u = t /\ q = p THEN c ELSE call[u][q]
    <3>1. StoreOK
      BY CallTypes
    <3>2. QED
      BY <2>2, <3>1 DEF With, StoreOK
  <2>4. QED
    BY <2>1, <2>3 DEF Renewing
<1>3. QED
  BY <1>1, <1>2

\* A step of tab t: the other tabs and their calls stay as they are.
LEMMA RenewsElsewhere ==
    ASSUME SessionRenews, NEW t \in Tabs,
           \A u \in Tabs \ {t} : /\ status'[u] = status[u] /\ timer'[u] = timer[u]
                                 /\ call'[u] = call[u],
           status'[t] = "authenticated" => Renewing(t)'
    PROVE  SessionRenews'
BY DEF SessionRenews, Renewing

LEMMA StepRenews == TypeOK /\ SessionRenews /\ [Next]_vars => SessionRenews'
<1> SUFFICES ASSUME TypeOK, SessionRenews, [Next]_vars PROVE SessionRenews'
  OBVIOUS
<1>0. /\ StoreOK /\ TabsOK /\ cookie \in Tokens /\ Idle \in CallType
      /\ Refreshes \subseteq Purposes /\ SignIns \subseteq Purposes
  BY TypeParts, CallTypes DEF StoreOK, Purposes
<1>1. ASSUME NEW t \in Tabs, NEW pg \in {"app", "login", "invite"}, Open(t, pg)
      PROVE  SessionRenews'
  <2>1. Sent("mount", cookie) \in CallType /\ "mount" \in Purposes
    BY <1>0, SentType DEF Refreshes
  <2>2. call' = With(t, "mount", Sent("mount", cookie))
    BY <1>1 DEF Open, StartCall, Move
  <2>3. status' = [status EXCEPT ![t] = "loading"] /\ timer' = timer
    BY <1>1 DEF Open
  <2>4. QED
    BY <1>0, <2>2, <2>3, RenewsElsewhere DEF TabsOK, StoreOK, With
<1>2. ASSUME NEW t \in Tabs, Close(t) PROVE SessionRenews'
  <2>1. /\ status' = [status EXCEPT ![t] = "closed"]
        /\ timer' = [timer EXCEPT ![t] = FALSE]
        /\ \A u \in Tabs \ {t} : call'[u] = call[u]
    BY <1>0, <1>2 DEF Close, Move, StoreOK
  <2>2. /\ status'[t] = "closed"
        /\ \A u \in Tabs \ {t} : status'[u] = status[u] /\ timer'[u] = timer[u]
    BY <1>0, <2>1 DEF TabsOK
  <2>3. QED
    BY <2>1, <2>2, RenewsElsewhere
<1>3. ASSUME NEW t \in Tabs, NEW p \in Purposes, StartCall(t, p), UNCHANGED tab
      PROVE  SessionRenews'
  <2>1. Sent(p, cookie) \in CallType /\ Sent(p, cookie) # Idle
    BY <1>0, SentType
  <2>2. call' = With(t, p, Sent(p, cookie)) /\ UNCHANGED <<status, timer>>
    BY <1>3 DEF StartCall, Move, tab
  <2>3. QED
    BY <2>1, <2>2, RenewsThroughCall
<1>4. ASSUME NEW t \in Tabs, TimerFires(t) PROVE SessionRenews'
  <2>1. Sent("timer", cookie) \in CallType /\ Sent("timer", cookie) # Idle /\ "timer" \in Purposes
    BY <1>0, SentType DEF Refreshes
  <2>2. /\ call' = With(t, "timer", Sent("timer", cookie))
        /\ status' = status /\ timer' = [timer EXCEPT ![t] = FALSE]
    BY <1>4 DEF TimerFires, StartCall, Move
  <2>3. call'[t]["timer"] # Idle /\ \A u \in Tabs \ {t} : call'[u] = call[u]
    BY <1>0, <2>1, <2>2, WithType DEF With, StoreOK
  <2>4. Renewing(t)'
    BY <2>3 DEF Renewing
  <2>5. QED
    BY <1>0, <2>2, <2>3, <2>4, RenewsElsewhere DEF TabsOK
<1>5. ASSUME NEW t \in Tabs, NEW p \in Purposes, NEW st \in Stages \ {"none"}, NEW k \in Tokens,
             call' = With(t, p, [stage |-> st, tok |-> k]), UNCHANGED tab
      PROVE  SessionRenews'
  <2>1. [stage |-> st, tok |-> k] \in CallType /\ [stage |-> st, tok |-> k] # Idle
    BY DEF CallType, Idle
  <2>2. UNCHANGED <<status, timer>>
    BY <1>5 DEF tab
  <2>3. QED
    BY <1>5, <2>1, <2>2, RenewsThroughCall
<1>6. ASSUME NEW t \in Tabs, NEW p \in Purposes,
             Rotate(t, p) \/ SignIn(t, p) \/ NetworkFails(t, p)
      PROVE  SessionRenews'
  <2>1. Fresh \in Tokens /\ NoToken \in Tokens
    BY FreshIsNew DEF Tokens, NoToken
  <2>2. PICK st \in {"granted", "cleared", "failed"}, k \in {Fresh, NoToken} :
           call' = With(t, p, [stage |-> st, tok |-> k])
    BY <1>6 DEF Rotate, SignIn, NetworkFails, Move
  <2>3. UNCHANGED tab /\ st \in Stages \ {"none"} /\ k \in Tokens
    BY <1>6, <2>1 DEF Rotate, SignIn, NetworkFails, Stages
  <2>4. QED
    BY <1>5, <2>2, <2>3
<1>7. ASSUME NEW t \in Tabs, Revoke(t) PROVE SessionRenews'
  <2>1. call' = With(t, "logout", [stage |-> "cleared", tok |-> NoToken]) /\ UNCHANGED tab
    BY <1>7 DEF Revoke, Move
  <2>2. "cleared" \in Stages \ {"none"} /\ NoToken \in Tokens /\ "logout" \in Purposes
    BY DEF Stages, Tokens, NoToken, Purposes
  <2>3. QED
    BY <1>5, <2>1, <2>2
<1>8. ASSUME NEW t \in Tabs, NEW p \in Refreshes, SessionRefreshed(t, p) PROVE SessionRenews'
  <2>1. /\ p \in {"mount", "timer", "callback"} /\ p \in Purposes
        /\ call' = With(t, p, Idle)
    BY <1>0, <1>8 DEF SessionRefreshed, Receive, Move
  <2>2. \A u \in Tabs \ {t} : call'[u] = call[u]
    BY <1>0, <2>1 DEF With, StoreOK
  <2>3. CASE ApplySession(t)
    <3>1. Renewing(t)'
      BY <1>0, <2>3 DEF ApplySession, Renewing, TabsOK
    <3>2. QED
      BY <1>0, <2>2, <2>3, <3>1, RenewsElsewhere DEF ApplySession, TabsOK
  <2>4. CASE /\ status' = [status EXCEPT ![t] = "unauthenticated"]
             /\ timer' = timer \/ timer' = [timer EXCEPT ![t] = FALSE]
    BY <1>0, <2>2, <2>4, RenewsElsewhere DEF TabsOK
  <2>5. QED
    BY <1>8, <2>1, <2>3, <2>4 DEF SessionRefreshed, ClearSession
<1>9. ASSUME NEW t \in Tabs, RequestRefreshed(t) PROVE SessionRenews'
  <2> DEFINE c == call[t]["request"]
             idle == With(t, "request", Idle)
  <2>1. "request" \in Purposes /\ "callback" \in Purposes /\ c.tok \in Tokens
    BY CallTypes DEF Purposes, Refreshes
  <2>2. UNCHANGED <<status, timer>>
    BY <1>9 DEF RequestRefreshed, tab
  <2>3. CASE c.stage = "granted"
    <3>1. call' = [idle EXCEPT ![t]["callback"] = Sent("callback", c.tok)]
      BY <1>9, <2>3 DEF RequestRefreshed, Move
    <3>2. Sent("callback", c.tok) # Idle
      BY <2>1, SentType
    <3>3. idle \in [Tabs -> [Purposes -> CallType]] /\ \A u \in Tabs \ {t} : idle[u] = call[u]
      BY <1>0, <2>1, WithType DEF With, StoreOK
    <3>4. call'[t]["callback"] # Idle /\ \A u \in Tabs \ {t} : call'[u] = call[u]
      <4> HIDE DEF idle, c
      <4> QED
        BY <2>1, <3>1, <3>2, <3>3
    <3>5. Renewing(t)'
      BY <3>4 DEF Renewing
    <3>6. QED
      BY <2>2, <3>4, <3>5, RenewsElsewhere
  <2>4. CASE c.stage # "granted"
    <3>1. call' = With(t, "request", Idle)
      BY <1>9, <2>4 DEF RequestRefreshed, Move
    <3>2. QED
      BY <1>0, <2>1, <2>2, <3>1, RenewsThroughCall
  <2>5. QED
    BY <2>3, <2>4
<1>10. ASSUME NEW t \in Tabs, LoggedIn(t) PROVE SessionRenews'
  <2>1. call' = With(t, "login", Idle) /\ "login" \in Purposes
    BY <1>10 DEF LoggedIn, Receive, Move, Purposes, SignIns
  <2>2. CASE ApplySession(t)
    <3>1. Renewing(t)'
      BY <1>0, <2>2 DEF ApplySession, Renewing, TabsOK
    <3>2. QED
      BY <1>0, <2>1, <2>2, <3>1, RenewsElsewhere DEF ApplySession, TabsOK, With, StoreOK
  <2>3. CASE UNCHANGED tab
    BY <1>0, <2>1, <2>3, RenewsThroughCall DEF tab
  <2>4. QED
    BY <1>10, <2>2, <2>3 DEF LoggedIn
<1>11. ASSUME NEW t \in Tabs, InviteAccepted(t) PROVE SessionRenews'
  <2>1. call' = With(t, "accept", Idle) /\ "accept" \in Purposes /\ UNCHANGED <<status, timer>>
    BY <1>11 DEF InviteAccepted, Receive, Move, Purposes, SignIns
  <2>2. QED
    BY <1>0, <2>1, RenewsThroughCall
<1>12. ASSUME NEW t \in Tabs, LoggedOut(t) PROVE SessionRenews'
  <2>1. call' = With(t, "logout", Idle)
    BY <1>12 DEF LoggedOut, Receive, Move
  <2>2. QED
    BY <1>0, <1>12, <2>1, RenewsElsewhere DEF LoggedOut, ClearSession, TabsOK, With, StoreOK
<1>13. ASSUME NEW t \in Tabs, OrphanEnds(t) PROVE SessionRenews'
  <2>1. call' = With(t, "orphan", Idle) /\ "orphan" \in Purposes /\ UNCHANGED <<status, timer>>
    BY <1>13 DEF OrphanEnds, Move, Purposes, Refreshes, tab
  <2>2. QED
    BY <1>0, <2>1, RenewsThroughCall
<1>14. CASE UNCHANGED vars
  BY <1>14 DEF vars, tab, SessionRenews
<1>15. ASSUME NEW t \in Tabs, User(t) PROVE SessionRenews'
  <2>1. {"login", "accept", "logout"} \subseteq Purposes
    BY DEF Purposes, SignIns
  <2>2. QED
    BY <1>1, <1>2, <1>3, <1>15, <2>1 DEF User, SubmitLogin, SubmitSignup, SubmitInvite, ClickLogout
<1>16. ASSUME NEW t \in Tabs, RequestUnauthorized(t) PROVE SessionRenews'
  BY <1>3, <1>16 DEF RequestUnauthorized, Purposes, Refreshes
<1>17. QED
  BY <1>4, <1>6, <1>7, <1>8, <1>9, <1>10, <1>11, <1>12, <1>13, <1>14, <1>15, <1>16
     DEF Next, Answer

\* A tab that shows a session has its timer armed, or a refresh of the provider
\* on its way: whatever calls overlap, fail or lose their tab, no session is left
\* to expire (applySession and refreshInternal, auth-provider.tsx).
THEOREM SessionsRenew == Spec => []SessionRenews
<1>1. Init => SessionRenews
  BY DEF Init, SessionRenews
<1>2. TypeOK /\ SessionRenews /\ [Next]_vars => SessionRenews'
  BY StepRenews
<1>3. QED
  BY <1>1, <1>2, SessionTypes, PTL DEF Spec

-----------------------------------------------------------------------------
(* Calls that do not overlap leave a cookie that works.                     *)

Works == cookie = NoToken \/ cookie \in live

\* At most one call at a time, and what it may carry at each stage: until the
\* API serves it the cookie works and a refresh has read it; a token granted
\* is live, although the cookie still holds the one it replaces.  No call is an
\* orphan, whose answer would be lost.
OneCall ==
    /\ \A t, u \in Tabs, p, q \in Purposes :
          call[t][p] # Idle /\ call[u][q] # Idle => t = u /\ p = q
    /\ (\A t \in Tabs, p \in Purposes : call[t][p] = Idle) => Works
    /\ \A t \in Tabs : call[t]["orphan"] = Idle
    /\ \A t \in Tabs, p \in Purposes :
          /\ call[t][p].stage \in {"sent", "failed"} => Works
          /\ call[t][p].stage = "sent" /\ p \in Refreshes => call[t][p].tok = cookie
          /\ call[t][p].stage = "granted" => call[t][p].tok \in live

Orderly == orderly => OneCall

LEMMA QuietMeansIdle == Quiet <=> \A t \in Tabs, p \in Purposes : call[t][p] = Idle
<1>1. ASSUME Quiet, NEW t \in Tabs, NEW p \in Purposes PROVE call[t][p] = Idle
  <2>1. <<t, p>> \in Tabs \X Purposes
    OBVIOUS
  <2>2. QED
    BY <1>1, <2>1 DEF Quiet, InFlight
<1>2. ASSUME \A t \in Tabs, p \in Purposes : call[t][p] = Idle PROVE Quiet
  BY <1>2 DEF Quiet, InFlight
<1>3. QED
  BY <1>1, <1>2

\* Of the tokens alive, a step keeps the one in the cookie and those in calls.
LEMMA MoveKeeps ==
    ASSUME NEW ck \in Tokens, NEW cl, NEW alive, Move(ck, cl, alive)
    PROVE  /\ cookie' = ck /\ call' = cl
           /\ ck = NoToken \/ ck \in alive => Works'
           /\ \A t \in Tabs, p \in Purposes :
                 call'[t][p].tok \in alive \ {NoToken} => call'[t][p].tok \in live'
BY DEF Move, Held, Works

\* No call but p's in tab t.
Alone(t, p) == \A u \in Tabs, q \in Purposes : u # t \/ q # p => call[u][q] = Idle

\* What c may carry, for p, next to the cookie ck and the tokens alive.
MayCarry(p, c, ck, alive) ==
    /\ p # "orphan"
    /\ c.stage \in {"none", "sent", "failed"} \/ c = Idle => ck = NoToken \/ ck \in alive
    /\ c.stage = "sent" /\ p \in Refreshes => c.tok = ck
    /\ c.stage = "granted" => c.tok \in alive

\* The one call that is on its way after a step.
LEMMA OneCallLeft ==
    ASSUME TypeOK, NEW t \in Tabs, NEW p \in Purposes,
           NEW c \in CallType, NEW ck \in Tokens,
           NEW alive, alive \subseteq Tokens \ {NoToken},
           Move(ck, With(t, p, c), alive),
           Alone(t, p), MayCarry(p, c, ck, alive)
    PROVE  OneCall'
<1> USE DEF Alone, MayCarry
<1>0. StoreOK
  BY CallTypes
<1>1. \A u \in Tabs, q \in Purposes : call'[u][q] = IF u = t /\ q = p THEN c ELSE Idle
  <2>1. call' = With(t, p, c)
    BY DEF Move
  <2>2. QED
    BY <1>0, <2>1 DEF With, StoreOK
<1>2. cookie' = ck /\ (ck = NoToken \/ ck \in alive => Works')
  BY MoveKeeps
<1>3. call'[t][p] = c
  BY <1>1
<1>4. c.stage = "granted" => c.tok \in live'
  BY <1>3, MoveKeeps
<1>5. \A u, v \in Tabs, q, r \in Purposes : call'[u][q] # Idle /\ call'[v][r] # Idle => u = v /\ q = r
  BY <1>1
<1>6. (\A u \in Tabs, q \in Purposes : call'[u][q] = Idle) => Works'
  BY <1>2, <1>3
<1>7. ASSUME NEW u \in Tabs, NEW q \in Purposes
      PROVE  /\ call'[u][q].stage \in {"sent", "failed"} => Works'
             /\ call'[u][q].stage = "sent" /\ q \in Refreshes => call'[u][q].tok = cookie'
             /\ call'[u][q].stage = "granted" => call'[u][q].tok \in live'
  <2>1. CASE u = t /\ q = p
    BY <1>2, <1>3, <1>4, <2>1
  <2>2. CASE ~ (u = t /\ q = p)
    BY <1>1, <2>2 DEF Idle
  <2>3. QED
    BY <2>1, <2>2
<1>8. \A u \in Tabs : call'[u]["orphan"] = Idle
  BY <1>1 DEF Purposes, Refreshes
<1>9. QED
  BY <1>5, <1>6, <1>7, <1>8 DEF OneCall

LEMMA StepOrderly == TypeOK /\ Orderly /\ [Next]_vars => Orderly'
<1> SUFFICES ASSUME TypeOK, Orderly, [Next]_vars, orderly' PROVE OneCall'
  BY DEF Orderly
<1>0. /\ StoreOK /\ cookie \in Tokens /\ live \subseteq Tokens \ {NoToken}
      /\ Idle \in CallType /\ NoToken \in Tokens /\ orderly \in BOOLEAN
      /\ Refreshes \subseteq Purposes /\ SignIns \subseteq Purposes /\ "logout" \in Purposes
      /\ \A t \in Tabs, p \in Purposes : call[t][p] \in CallType /\ call[t][p].tok \in Tokens
      /\ Idle.stage = "none"
  BY TypeParts, CallTypes DEF StoreOK, Purposes, Tokens, NoToken, Idle
<1>1. ASSUME NEW t \in Tabs, NEW p \in Purposes, p # "orphan", StartCall(t, p) PROVE OneCall'
  <2>1. orderly /\ Quiet
    BY <1>1 DEF StartCall
  <2>2. Works /\ \A u \in Tabs, q \in Purposes : call[u][q] = Idle
    BY <2>1, QuietMeansIdle DEF Orderly, OneCall
  <2>3. /\ Sent(p, cookie) \in CallType /\ Sent(p, cookie) # Idle
    BY <1>0, SentType
  <2>4. /\ Sent(p, cookie).stage = "sent" /\ p \in Refreshes => Sent(p, cookie).tok = cookie
        /\ Sent(p, cookie).stage # "granted"
    BY DEF Sent, SignIns, Refreshes
  <2>5. Move(cookie, With(t, p, Sent(p, cookie)), live)
    BY <1>1 DEF StartCall
  <2>6. Alone(t, p) /\ MayCarry(p, Sent(p, cookie), cookie, live)
    BY <1>1, <2>2, <2>4 DEF Alone, MayCarry, Works
  <2>7. QED
    BY <1>0, <2>3, <2>5, <2>6, OneCallLeft
<1>2. ASSUME NEW t \in Tabs, Close(t) PROVE OneCall'
  <2>1. PICK left \in {call[t][p] : p \in Refreshes} \cup {Idle} :
           Move(cookie, [call EXCEPT ![t] = [p \in Purposes |-> IF p = "orphan" THEN left ELSE Idle]],
                live)
    BY <1>2 DEF Close
  <2>2. orderly /\ \A p \in Purposes : call[t][p] = Idle
    BY <1>2 DEF Close
  <2>3. left = Idle
    BY <1>0, <2>2
  <2>4. call' = call
    <3>1. call' = [call EXCEPT ![t] = [p \in Purposes |-> Idle]]
      BY <2>1, <2>3 DEF Move
    <3>2. call \in [Tabs -> [Purposes -> CallType]]
      BY <1>0 DEF StoreOK
    <3>3. call[t] = [p \in Purposes |-> Idle]
      BY <2>2, <3>2
    <3>4. QED
      BY <3>1, <3>2, <3>3
  <2>5. cookie' = cookie /\ (Works => Works')
    BY <1>0, <2>1, MoveKeeps DEF Works
  <2>6. \A u \in Tabs, q \in Purposes : call[u][q].tok \in live => call[u][q].tok \in live'
    BY <1>0, <2>1, <2>4, MoveKeeps
  <2>7. QED
    BY <2>2, <2>4, <2>5, <2>6 DEF Orderly, OneCall
<1>3. ASSUME NEW t \in Tabs, NEW p \in Purposes, call[t][p].stage # "none", orderly
      PROVE  /\ p # "orphan"
             /\ Alone(t, p)
             /\ call[t][p].stage \in {"sent", "failed"} => Works
             /\ call[t][p].stage = "granted" => call[t][p].tok \in live
             /\ call[t][p].stage = "sent" /\ p \in Refreshes => call[t][p].tok = cookie
  BY <1>0, <1>3 DEF Orderly, OneCall, Alone
<1>4. \A st \in Stages \ {"none"}, k \in Tokens :
         LET c == [stage |-> st, tok |-> k]
         IN  c \in CallType /\ c # Idle /\ c.stage = st /\ c.tok = k
  BY DEF CallType, Idle
<1>5. Fresh \in Tokens \ {NoToken}
  BY FreshIsNew
<1>6. ASSUME NEW t \in Tabs, NEW p \in Purposes, p # "orphan", Alone(t, p),
             NEW st \in {"granted", "cleared", "failed"}, NEW k \in Tokens,
             NEW alive, alive \subseteq Tokens \ {NoToken},
             Move(cookie, With(t, p, [stage |-> st, tok |-> k]), alive),
             st = "granted" => k \in alive,
             st = "failed" => cookie = NoToken \/ cookie \in alive
      PROVE  OneCall'
  <2>1. PICK c \in CallType : c = [stage |-> st, tok |-> k] /\ c # Idle
    BY <1>4, <1>6 DEF Stages
  <2>2. Move(cookie, With(t, p, c), alive)
    BY <1>6, <2>1
  <2>3. c.stage = st /\ c.tok = k
    BY <2>1
  <2>4. MayCarry(p, c, cookie, alive)
    BY <1>6, <2>1, <2>3 DEF MayCarry
  <2>5. cookie \in Tokens /\ alive \subseteq Tokens \ {NoToken} /\ Alone(t, p)
    BY <1>0, <1>6
  <2>6. QED
    BY <2>2, <2>4, <2>5, OneCallLeft
<1>7. ASSUME NEW t \in Tabs, NEW p \in Purposes, Rotate(t, p) \/ SignIn(t, p) PROVE OneCall'
  <2>1. call[t][p].stage = "sent" /\ orderly
    BY <1>7 DEF Rotate, SignIn
  <2>2. /\ p # "orphan" /\ Works
        /\ Alone(t, p)
    BY <1>3, <2>1
  <2>3. \/ Move(cookie, With(t, p, [stage |-> "granted", tok |-> Fresh]),
                (live \ {call[t][p].tok}) \cup {Fresh})
        \/ Move(cookie, With(t, p, [stage |-> "granted", tok |-> Fresh]), live \cup {Fresh})
        \/ Move(cookie, With(t, p, [stage |-> "cleared", tok |-> NoToken]), live)
        \/ Move(cookie, With(t, p, [stage |-> "failed", tok |-> NoToken]), live)
    BY <1>7 DEF Rotate, SignIn
  <2>4. ASSUME NEW alive \in SUBSET live,
               Move(cookie, With(t, p, [stage |-> "granted", tok |-> Fresh]), alive \cup {Fresh})
        PROVE  OneCall'
    <3>1. alive \cup {Fresh} \subseteq Tokens \ {NoToken} /\ Fresh \in alive \cup {Fresh}
      BY <1>0, <1>5
    <3>2. QED
      BY <1>5, <1>6, <2>2, <2>4, <3>1
  <2>5. CASE Move(cookie, With(t, p, [stage |-> "cleared", tok |-> NoToken]), live)
    BY <1>0, <1>6, <2>2, <2>5
  <2>6. CASE Move(cookie, With(t, p, [stage |-> "failed", tok |-> NoToken]), live)
    BY <1>0, <1>6, <2>2, <2>6 DEF Works
  <2>7. QED
    BY <2>3, <2>4, <2>5, <2>6
<1>8. ASSUME NEW t \in Tabs, Revoke(t) PROVE OneCall'
  <2>1. call[t]["logout"].stage = "sent" /\ orderly
    BY <1>8 DEF Revoke
  <2>2. Alone(t, "logout")
    BY <1>0, <1>3, <2>1
  <2>3. PICK revoked : Move(cookie, With(t, "logout", [stage |-> "cleared", tok |-> NoToken]),
                            live \ revoked)
    BY <1>8 DEF Revoke
  <2>4. live \ revoked \subseteq Tokens \ {NoToken}
    BY <1>0
  <2>5. QED
    BY <1>0, <1>6, <2>2, <2>3, <2>4
<1>9. ASSUME NEW t \in Tabs, NEW p \in Purposes, NetworkFails(t, p) PROVE FALSE
  BY <1>9 DEF NetworkFails
<1>10. ASSUME NEW t \in Tabs, NEW p \in Purposes, Answered(t, p), orderly,
              Move(CookieAfter(call[t][p]), With(t, p, Idle), live)
       PROVE  OneCall'
  <2>1. /\ CookieAfter(call[t][p]) \in Tokens
        /\ CookieAfter(call[t][p]) = NoToken \/ CookieAfter(call[t][p]) \in live
    BY <1>0, <1>3, <1>10 DEF Answered, CookieAfter, Works
  <2>2. p # "orphan" /\ Alone(t, p)
    BY <1>3, <1>10 DEF Answered
  <2>3. MayCarry(p, Idle, CookieAfter(call[t][p]), live)
    BY <1>0, <2>1, <2>2 DEF MayCarry
  <2>4. QED
    BY <1>0, <1>10, <2>1, <2>2, <2>3, OneCallLeft
<1>11. ASSUME NEW t \in Tabs, NEW p \in Purposes, Receive(t, p), UNCHANGED orderly PROVE OneCall'
  BY <1>10, <1>11 DEF Receive
<1>12. ASSUME NEW t \in Tabs, RequestRefreshed(t) PROVE OneCall'
  <2> DEFINE c == call[t]["request"]
             idle == With(t, "request", Idle)
  <2>1. "request" \in Purposes /\ "callback" \in Purposes /\ "callback" \in Refreshes
    BY DEF Purposes, Refreshes
  <2>2. Answered(t, "request")
    BY <1>12 DEF RequestRefreshed
  <2>3. CASE c.stage = "granted"
    <3>1. /\ orderly
          /\ Move(c.tok, [idle EXCEPT ![t]["callback"] = Sent("callback", c.tok)], live)
      BY <1>12, <2>3 DEF RequestRefreshed
    <3>2. c.tok \in live /\ c.tok \in Tokens /\ c.tok # NoToken
      BY <1>0, <1>3, <2>1, <2>3, <3>1
    <3>3. \A u \in Tabs, q \in Purposes : u # t \/ q # "request" => call[u][q] = Idle
      BY <1>3, <2>1, <2>3, <3>1 DEF Alone
    <3> DEFINE s == [stage |-> "sent", tok |-> c.tok]
    <3>4. /\ Sent("callback", c.tok) = s
          /\ s \in CallType /\ s # Idle /\ s.stage = "sent" /\ s.tok = c.tok
      <4>1. Sent("callback", c.tok) = s
        BY <3>2 DEF Sent, SignIns, Refreshes
      <4>2. QED
        BY <1>4, <3>2, <4>1 DEF Stages
    <3>5. call' = [idle EXCEPT ![t]["callback"] = s]
      BY <3>1, <3>4 DEF Move
    <3>6. \A u \in Tabs, q \in Purposes :
             call'[u][q] = IF u = t /\ q = "callback" THEN s ELSE Idle
      <4>1. idle \in [Tabs -> [Purposes -> CallType]]
        BY <1>0, <2>1, WithType
      <4>2. \A u \in Tabs, q \in Purposes : idle[u][q] = Idle
        BY <1>0, <2>1, <3>3 DEF With, StoreOK
      <4> HIDE DEF idle, s
      <4>3. QED
        BY <2>1, <3>5, <4>1, <4>2
    <3>7. Works' /\ cookie' = c.tok
      BY <3>1, <3>2, MoveKeeps
    <3> HIDE DEF s, c
    <3>8. "callback" # "orphan" /\ \A u \in Tabs : call'[u]["orphan"] = Idle
      BY <3>6 DEF Purposes, Refreshes
    <3>9. QED
      BY <1>0, <2>1, <3>4, <3>6, <3>7, <3>8 DEF OneCall
  <2>4. CASE c.stage # "granted"
    BY <1>10, <1>12, <2>1, <2>2, <2>4 DEF RequestRefreshed
  <2>5. QED
    BY <2>3, <2>4
<1>13. ASSUME NEW t \in Tabs, OrphanEnds(t) PROVE FALSE
  <2>1. orderly /\ call[t]["orphan"].stage # "none"
    BY <1>13 DEF OrphanEnds, Answered
  <2>2. QED
    BY <1>0, <2>1 DEF Orderly, OneCall
<1>14. CASE UNCHANGED vars
  BY <1>14 DEF vars, Orderly, OneCall, Works
<1>15. ASSUME NEW t \in Tabs, Answer(t) PROVE OneCall'
  <2>1. {"login", "accept", "logout"} \subseteq Purposes
    BY DEF Purposes, SignIns
  <2>2. QED
    BY <1>0, <1>11, <1>12, <1>13, <1>15, <2>1
       DEF Answer, SessionRefreshed, LoggedIn, InviteAccepted, LoggedOut
<1>16. ASSUME NEW t \in Tabs, User(t) \/ TimerFires(t) \/ RequestUnauthorized(t) PROVE OneCall'
  <2>1. {"mount", "timer", "request", "login", "accept", "logout"} \subseteq Purposes
    BY DEF Purposes, SignIns, Refreshes
  <2>2. QED
    BY <1>1, <1>2, <1>16, <2>1
       DEF User, Open, SubmitLogin, SubmitSignup, SubmitInvite, ClickLogout, TimerFires,
           RequestUnauthorized
<1>17. QED
  BY <1>7, <1>8, <1>9, <1>14, <1>15, <1>16 DEF Next

\* Calls that do not overlap and whose answers arrive never strand a revoked
\* refresh token in the cookie, whatever their order and number: the rotation of
\* tokens.py and the cookies of the Route Handlers (app/api/auth) agree.
THEOREM OrderlyCookieWorks == Spec => []CookieWorks
<1>1. Init => Orderly
  BY DEF Init, Orderly, OneCall, Works, Idle, NoToken, Purposes, Refreshes
<1>2. Orderly => CookieWorks
  BY QuietMeansIdle DEF Orderly, OneCall, Works, CookieWorks
<1>3. TypeOK /\ Orderly /\ [Next]_vars => Orderly'
  BY StepOrderly
<1>4. QED
  BY <1>1, <1>2, <1>3, SessionTypes, PTL DEF Spec
=============================================================================
