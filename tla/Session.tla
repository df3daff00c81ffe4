------------------------------- MODULE Session -------------------------------
(***************************************************************************)
(* The session of the web panel: AuthProvider (auth-provider.tsx), the     *)
(* retry of apiFetch (lib/auth/api-client.ts), the Route Handlers under    *)
(* app/api/auth, the guards (middleware.ts, require-auth.tsx) and, behind  *)
(* them, the rotation of refresh tokens (security/tokens.py).              *)
(*                                                                         *)
(* The access token lives in the memory of a tab; the refresh token in a   *)
(* cookie all tabs share.  Every call to a Route Handler is a slot of its  *)
(* tab, and goes through the stages                                        *)
(*   sent      the handler has read the cookie into tok                    *)
(*   granted   the API has committed; tok is the token it issued           *)
(*   cleared   the answer empties the cookie                               *)
(*   failed    the answer leaves the cookie alone and carries no session   *)
(* until its answer reaches the tab.  A refresh whose token is missing or  *)
(* revoked when it is sent has its answer there and then, because a        *)
(* revoked token never lives again.  Tokens are numbers, and those nobody  *)
(* holds are forgotten, so that a session can go on for ever.              *)
(***************************************************************************)
EXTENDS Naturals, FiniteSets

CONSTANTS
    Tabs,           \* the tabs of one browser
    MaxCalls,       \* bound: calls to Route Handlers in flight at a time
    MaxBusy,        \* bound: tabs with calls in flight at a time
    Faults          \* the faults this instance may suffer

\* "network": a call gets no answer, or a 5xx;
\* "close":   a tab is closed or reloaded with calls in flight.
ASSUME SessionAssumption ==
    /\ IsFiniteSet(Tabs)
    /\ MaxCalls \in Nat \ {0} /\ MaxBusy \in Nat \ {0}
    /\ Faults \subseteq {"network", "close"}

NoToken == 0

VARIABLES
    live,           \* the refresh tokens held by someone and not revoked
    cookie,         \* nfse_refresh
    status,         \* per tab, AuthProvider's status, or "closed"
    timer,          \* per tab, whether the proactive refresh is scheduled
    page,           \* per tab, the page shown
    call,           \* per tab and purpose, a call to a Route Handler
    signedOut,      \* tabs that logged out and have not signed in since
    orderly         \* history: no two calls overlapped, no answer was lost

tab == <<status, timer, page>>
vars == <<live, cookie, tab, call, signedOut, orderly>>

\* The callers of /api/auth/refresh, those that start a session, and logout.
\* "orphan" is a call whose tab is gone.
Refreshes == {"mount", "timer", "request", "callback", "orphan"}
SignIns == {"login", "accept"}
Purposes == Refreshes \cup SignIns \cup {"logout"}

Tokens == Nat
Idle == [stage |-> "none", tok |-> NoToken]

TypeOK ==
    /\ cookie \in Tokens
    /\ live \subseteq Tokens \ {NoToken}
    /\ status \in [Tabs -> {"closed", "loading", "authenticated", "unauthenticated"}]
    /\ timer \in [Tabs -> BOOLEAN]
    /\ page \in [Tabs -> {"app", "login", "invite"}]
    /\ call \in [Tabs -> [Purposes ->
          [stage : {"none", "sent", "granted", "cleared", "failed"}, tok : Tokens]]]
    /\ signedOut \subseteq Tabs
    /\ orderly \in BOOLEAN

InFlight == {c \in Tabs \X Purposes : call[c[1]][c[2]] # Idle}
Quiet == InFlight = {}

\* The tokens the cookie ck and the calls cl carry.
Held(ck, cl) == ({ck} \cup {cl[t][p].tok : t \in Tabs, p \in Purposes}) \ {NoToken}

\* A token nobody holds (_generate_opaque_token).
Fresh == CHOOSE k \in 1..(Cardinality(Held(cookie, call)) + 1) : k \notin Held(cookie, call)

Init ==
    /\ cookie \in {NoToken, 1}
    /\ live = {cookie} \ {NoToken}
    /\ status = [t \in Tabs |-> "closed"]
    /\ timer = [t \in Tabs |-> FALSE]
    /\ page = [t \in Tabs |-> "login"]
    /\ call = [t \in Tabs |-> [p \in Purposes |-> Idle]]
    /\ signedOut = {}
    /\ orderly = TRUE

-----------------------------------------------------------------------------
(* The pieces handlers are built from.                                      *)

\* Every step that moves calls: the cookie becomes ck, the calls cl, and of the
\* tokens alive those still held remain.
Move(ck, cl, alive) ==
    /\ cookie' = ck
    /\ call' = cl
    /\ live' = alive \cap Held(ck, cl)

With(t, p, c) == [call EXCEPT ![t][p] = c]

\* A timer that is armed by the first session of the tab only.
ApplySessionArmsOnce(t) ==
    /\ status' = [status EXCEPT ![t] = "authenticated"]
    /\ timer' = [timer EXCEPT ![t] = @ \/ status[t] # "authenticated"]

\* applySession: token and user in memory, and the timer armed anew.
ApplySession(t) ==
    /\ status' = [status EXCEPT ![t] = "authenticated"]
    /\ timer' = [timer EXCEPT ![t] = TRUE]

\* A session that goes out of memory while the tab goes on showing it.
ClearSessionUnseen(t) ==
    /\ timer' = [timer EXCEPT ![t] = FALSE]
    /\ UNCHANGED status

\* clearSession: calls in flight are not cancelled.
ClearSession(t) ==
    /\ status' = [status EXCEPT ![t] = "unauthenticated"]
    /\ timer' = [timer EXCEPT ![t] = FALSE]

\* Where a navigation to pg ends: the middleware wants the cookie on protected
\* pages, RequireAuth sends a tab known to be unauthenticated to /login.
Landing(pg, ck, st) ==
    IF pg = "app" /\ (ck = NoToken \/ st = "unauthenticated") THEN "login" ELSE pg

\* The page of t once RequireAuth has seen its new status.
Guarded(t) == page' = [page EXCEPT ![t] =
                  IF @ = "app" /\ status'[t] = "unauthenticated" THEN "login" ELSE @]

\* Signing in does without the cookie; the other Route Handlers read it: ck.  The
\* refresh one answers 401 without touching an absent cookie, and empties a
\* cookie the API refuses (reuse of a revoked token; the revocation of its chain
\* is rolled back with the request).
Sent(p, ck) ==
    IF p \in Refreshes /\ ck = NoToken THEN [stage |-> "failed", tok |-> NoToken]
    ELSE IF p \in Refreshes /\ ck \notin live THEN [stage |-> "cleared", tok |-> NoToken]
    ELSE [stage |-> "sent", tok |-> IF p \in SignIns THEN NoToken ELSE ck]

StartCall(t, p) ==
    /\ call[t][p] = Idle /\ Cardinality(InFlight) < MaxCalls
    /\ Cardinality({t} \cup {c[1] : c \in InFlight}) <= MaxBusy
    /\ Move(cookie, With(t, p, Sent(p, cookie)), live)
    /\ orderly' = (orderly /\ Quiet)

-----------------------------------------------------------------------------
(* The tab: the user, the timer, requests.                                  *)

\* A page is opened, or reloaded: AuthProvider mounts and asks for a session.
Open(t, pg) ==
    /\ status[t] = "closed"
    /\ status' = [status EXCEPT ![t] = "loading"]
    /\ page' = [page EXCEPT ![t] = Landing(pg, cookie, "loading")]
    /\ StartCall(t, "mount")
    /\ UNCHANGED <<timer, signedOut>>

\* The page goes away; the API may still serve one of its refreshes, and
\* nobody will see the answer.
Close(t) ==
    /\ "close" \in Faults
    /\ status[t] # "closed"
    /\ call[t]["orphan"] = Idle
    /\ status' = [status EXCEPT ![t] = "closed"]
    /\ timer' = [timer EXCEPT ![t] = FALSE]
    /\ page' = [page EXCEPT ![t] = "login"]
    /\ \E left \in {call[t][p] : p \in Refreshes} \cup {Idle} :
          Move(cookie, [call EXCEPT ![t] = [p \in Purposes |-> IF p = "orphan" THEN left ELSE Idle]],
               live)
    /\ orderly' = (orderly /\ \A p \in Purposes : call[t][p] = Idle)
    /\ signedOut' = signedOut \ {t}

SubmitLogin(t) ==
    /\ page[t] = "login" /\ status[t] # "closed"
    /\ StartCall(t, "login")
    /\ UNCHANGED <<tab, signedOut>>

\* /login and /signup link to each other: one page here, and one call, which
\* both end the same way.
SubmitSignup(t) ==
    /\ page[t] = "login" /\ status[t] # "closed"
    /\ StartCall(t, "login")
    /\ UNCHANGED <<tab, signedOut>>

SubmitInvite(t) ==
    /\ page[t] = "invite" /\ status[t] # "closed"
    /\ StartCall(t, "accept")
    /\ UNCHANGED <<tab, signedOut>>

\* "Sair", in the user menu of a protected page.
ClickLogout(t) ==
    /\ page[t] = "app" /\ status[t] = "authenticated"
    /\ StartCall(t, "logout")
    /\ UNCHANGED <<tab, signedOut>>

\* The timer of applySession calls refreshInternal.
TimerFires(t) ==
    /\ timer[t]
    /\ timer' = [timer EXCEPT ![t] = FALSE]
    /\ StartCall(t, "timer")
    /\ UNCHANGED <<status, page, signedOut>>

\* A request of a protected page is answered 401, its access token having
\* expired (expires_in is not modelled; a laptop asleep misses the timer):
\* apiFetch refreshes before it retries.  One such request at a time, and none before the refresh that the
\* last one asked of the provider is over.  Other answers change nothing here.
RequestUnauthorized(t) ==
    /\ page[t] = "app" /\ status[t] = "authenticated"
    /\ call[t]["callback"] = Idle
    /\ StartCall(t, "request")
    /\ UNCHANGED <<tab, signedOut>>

-----------------------------------------------------------------------------
(* The API behind the Route Handlers.                                       *)

\* rotate_refresh_token: SELECT without a lock, then a successor is inserted
\* and the token revoked.  A token revoked since the call was sent is refused,
\* unless it was read before that: then the chain forks.
Rotate(t, p) ==
    /\ p \in Refreshes /\ call[t][p].stage = "sent"
    /\ \/ LET new == Fresh
          IN  Move(cookie, With(t, p, [stage |-> "granted", tok |-> new]),
                   (live \ {call[t][p].tok}) \cup {new})
       \/ /\ call[t][p].tok \notin live
          /\ Move(cookie, With(t, p, [stage |-> "cleared", tok |-> NoToken]), live)
    /\ UNCHANGED <<tab, signedOut, orderly>>

\* POST /auth/login, /auth/signup, /tenant/invitations/accept: refused, or a new session.
SignIn(t, p) ==
    /\ p \in SignIns /\ call[t][p].stage = "sent"
    /\ \/ Move(cookie, With(t, p, [stage |-> "failed", tok |-> NoToken]), live)
       \/ LET new == Fresh
          IN  Move(cookie, With(t, p, [stage |-> "granted", tok |-> new]), live \cup {new})
    /\ UNCHANGED <<tab, signedOut, orderly>>

\* POST /auth/logout revokes the token; the handler empties the cookie even
\* when it could not reach the API.
Revoke(t) ==
    /\ call[t]["logout"].stage = "sent"
    /\ \E revoked \in {{call[t]["logout"].tok}} \cup (IF "network" \in Faults THEN {{}} ELSE {}) :
          Move(cookie, With(t, "logout", [stage |-> "cleared", tok |-> NoToken]), live \ revoked)
    /\ UNCHANGED <<tab, signedOut, orderly>>

\* The call gets no answer: the API may or may not have served it.
NetworkFails(t, p) ==
    /\ "network" \in Faults
    /\ call[t][p].stage \in {"sent", "granted", "cleared"}
    /\ Move(cookie, With(t, p, [stage |-> "failed", tok |-> NoToken]), live)
    /\ orderly' = FALSE
    /\ UNCHANGED <<tab, signedOut>>

-----------------------------------------------------------------------------
(* Answers reach the tab: the browser stores the cookie, the promise        *)
(* resolves.                                                                *)

Answered(t, p) == call[t][p].stage \in {"granted", "cleared", "failed"}

\* A handler that empties the cookie for nobody.
CookieAfterKept(c) == IF c.stage = "granted" THEN c.tok ELSE cookie

CookieAfter(c) == CASE c.stage = "granted" -> c.tok
                    [] c.stage = "cleared" -> NoToken
                    [] OTHER -> cookie

Receive(t, p) ==
    /\ Answered(t, p)
    /\ Move(CookieAfter(call[t][p]), With(t, p, Idle), live)

\* The mount effect and refreshInternal: a session, or none at all.  The mount
\* effect leaves a token and a timer that a login has put there meanwhile.
SessionRefreshed(t, p) ==
    /\ p \in {"mount", "timer", "callback"}
    /\ Receive(t, p)
    /\ IF call[t][p].stage = "granted" THEN ApplySession(t)
       ELSE IF p = "mount" THEN status' = [status EXCEPT ![t] = "unauthenticated"] /\ UNCHANGED timer
       ELSE ClearSession(t)
    /\ Guarded(t)
    /\ UNCHANGED <<signedOut, orderly>>

\* apiFetch goes on: with a session it asks the provider to refresh as well
\* (onTokenRefreshed) and retries once; without one it returns the 401.
RequestRefreshed(t) ==
    /\ Answered(t, "request")
    /\ LET c == call[t]["request"]
           idle == With(t, "request", Idle)
       IN  IF c.stage = "granted"
           THEN /\ Move(c.tok, [idle EXCEPT ![t]["callback"] = Sent("callback", c.tok)], live)
                /\ orderly' = (orderly /\ \A u \in Tabs, p \in Purposes : idle[u][p] = Idle)
           ELSE /\ Move(CookieAfter(c), idle, live)
                /\ UNCHANGED orderly
    /\ UNCHANGED <<tab, signedOut>>

LoggedIn(t) ==
    /\ Receive(t, "login")
    /\ IF call[t]["login"].stage = "granted"
       THEN /\ ApplySession(t)
            /\ page' = [page EXCEPT ![t] = "app"]
            /\ signedOut' = signedOut \ {t}
       ELSE UNCHANGED <<tab, signedOut>>
    /\ UNCHANGED orderly

\* The invitation's page goes to /dashboard and leaves the provider as it is.
InviteAccepted(t) ==
    /\ Receive(t, "accept")
    /\ page' = [page EXCEPT ![t] = IF call[t]["accept"].stage = "granted"
                                   THEN Landing("app", cookie', status[t]) ELSE @]
    /\ UNCHANGED <<status, timer, signedOut, orderly>>

LoggedOut(t) ==
    /\ Receive(t, "logout")
    /\ ClearSession(t)
    /\ page' = [page EXCEPT ![t] = "login"]
    /\ signedOut' = signedOut \cup {t}
    /\ UNCHANGED <<orderly>>

\* The answer of an orphan is discarded, its cookie with it.
OrphanEnds(t) ==
    /\ Answered(t, "orphan")
    /\ Move(cookie, With(t, "orphan", Idle), live)
    /\ UNCHANGED <<tab, signedOut, orderly>>

-----------------------------------------------------------------------------
Answer(t) ==
    \/ \E p \in Refreshes : SessionRefreshed(t, p)
    \/ RequestRefreshed(t) \/ LoggedIn(t) \/ InviteAccepted(t) \/ LoggedOut(t) \/ OrphanEnds(t)

User(t) ==
    \/ \E pg \in {"app", "login", "invite"} : Open(t, pg)
    \/ Close(t) \/ SubmitLogin(t) \/ SubmitSignup(t) \/ SubmitInvite(t) \/ ClickLogout(t)

Next == \E t \in Tabs :
    \/ User(t) \/ TimerFires(t) \/ RequestUnauthorized(t)
    \/ Revoke(t)
    \/ \E p \in Purposes : Rotate(t, p) \/ SignIn(t, p) \/ NetworkFails(t, p)
    \/ Answer(t)

Spec == Init /\ [][Next]_vars

\* The next step of a call: the API serves it, or its answer arrives.
CallStep(t, p) ==
    \/ Rotate(t, p) \/ SignIn(t, p) \/ SessionRefreshed(t, p)
    \/ p = "logout" /\ (Revoke(t) \/ LoggedOut(t))
    \/ p = "request" /\ RequestRefreshed(t)
    \/ p = "login" /\ LoggedIn(t)
    \/ p = "accept" /\ InviteAccepted(t)
    \/ p = "orphan" /\ OrphanEnds(t)

\* Timers fire, and each call goes on on its own.  The bounds are not in the
\* code: a timer that is due fires however busy the panel.
Fairness == \A t \in Tabs :
    /\ SF_vars(TimerFires(t))
    /\ \A p \in Purposes : WF_vars(CallStep(t, p))

FairSpec == Spec /\ Fairness

-----------------------------------------------------------------------------
(* Properties.                                                              *)

\* Calls that do not overlap and whose answers arrive leave the browser with a
\* refresh token that still works, or with none: no rotation, login, logout or
\* accepted invitation strands a revoked token in the cookie.
CookieWorks == orderly /\ Quiet => cookie = NoToken \/ cookie \in live

\* A tab that shows a session can always renew it: its timer is armed, or a
\* refresh whose answer arms it (or ends the session) is on its way.
SessionRenews == \A t \in Tabs : status[t] = "authenticated" =>
    timer[t] \/ \E p \in {"timer", "callback"} : call[t][p] # Idle

\* A session that ended in one tab (logout, a refresh refused) ends in every
\* other one, unless somebody signs in first.
TabsFollowCookie == (cookie = NoToken) ~>
    (cookie # NoToken \/ \A t \in Tabs : status[t] # "authenticated")

\* Logging out clears the state of the tab and the cookie (auth-provider.tsx:13):
\* a tab that logged out shows no session before somebody signs in again.
LogoutClears == \A t \in signedOut : status[t] # "authenticated"

\* Accepting an invitation starts a session (accept-invitation/route.ts:11).
AcceptStartsSession == \A t \in Tabs :
    call[t]["accept"].stage = "granted" ~> status[t] = "authenticated"
=============================================================================
