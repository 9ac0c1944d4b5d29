------------------------------- MODULE Login -------------------------------
(***************************************************************************)
(* The browser login (presentation/htmx): several tabs of one browser have *)
(* one state cookie and one session cookie, the server keeps nothing, the  *)
(* identity provider hands out codes that can be exchanged once.           *)
(*                                                                         *)
(* A login is numbered by the state token /login has made for it; its code *)
(* at the identity provider has the same number.  A cookie is read when a  *)
(* request is sent and changes when a response arrives, so that the tabs   *)
(* interleave between the two.  Access has the next-state relation, with   *)
(* the keys, the roles and the admin page.                                 *)
(***************************************************************************)
EXTENDS Naturals

CONSTANTS
  Tabs,        \* the tabs of the browser
  MaxLogins,   \* bound: the logins started in a behaviour
  Faults       \* may the identity provider refuse or time out?

ASSUME LoginAssumption ==
  /\ MaxLogins \in Nat
  /\ Faults \in BOOLEAN

None   == 0                \* no state, no session
Logins == 1 .. MaxLogins

VARIABLES
  logins,        \* how many states have been issued
  state_cookie,  \* the state in the cookie "template_oauth_state", or None
  session,       \* the login the session cookie comes from, or None
  used,          \* the codes that have been exchanged
  pc,            \* where each tab is
  state,         \* the state and code in the URL of the tab's callback page, or
                 \* None: there is no such page or it lacks one of the two
  disturbed      \* history: what makes the login of a tab fail has happened

tabs == <<pc, state>>
vars == <<logins, state_cookie, session, used, tabs, disturbed>>

Init ==
  /\ logins = 0
  /\ state_cookie = None
  /\ session = None
  /\ used = {}
  /\ pc = [t \in Tabs |-> "home"]
  /\ state = [t \in Tabs |-> None]
  /\ disturbed = [t \in Tabs |-> FALSE]

\* The tabs other than t that have a login under way.
Disturb(t) == [u \in Tabs |-> IF u = t THEN disturbed[u] ELSE disturbed[u] \/ pc[u] \in {"provider", "callback"}]

-----------------------------------------------------------------------------
\* GET /login: a fresh state, in the redirect and in the cookie.
LoginCookie == logins + 1

StartLogin(t) ==
  /\ pc[t] \in {"home", "failed"}
  /\ logins < MaxLogins
  /\ logins' = logins + 1
  /\ state_cookie' = LoginCookie
  /\ state' = [state EXCEPT ![t] = logins + 1]
  /\ pc' = [pc EXCEPT ![t] = "provider"]
  /\ disturbed' = [Disturb(t) EXCEPT ![t] = FALSE]
  /\ UNCHANGED <<session, used>>

\* The identity provider redirects to /callback, whose page is rendered
\* whatever its parameters are.
Callback(t) ==
  /\ pc[t] = "provider"
  /\ pc' = [pc EXCEPT ![t] = "callback"]
  /\ UNCHANGED <<logins, state_cookie, session, used, state, disturbed>>

\* It may also redirect with an error and without a code.
CallbackWithoutCode(t) ==
  /\ Faults
  /\ pc[t] = "provider"
  /\ pc' = [pc EXCEPT ![t] = "callback"]
  /\ state' = [state EXCEPT ![t] = None]
  /\ disturbed' = [disturbed EXCEPT ![t] = TRUE]
  /\ UNCHANGED <<logins, state_cookie, session, used>>

\* The page requests /auth/callback/verify, which wants both parameters and
\* compares the states.
ValidState(t) == state[t] # None /\ state_cookie = state[t]

Verify(t) ==
  /\ pc[t] = "callback"
  /\ pc' = [pc EXCEPT ![t] = IF ValidState(t) THEN "exchanging" ELSE "refused"]
  /\ UNCHANGED <<logins, state_cookie, session, used, state, disturbed>>

\* exchange: a code is good for one access token.
Exchange(t) ==
  /\ pc[t] = "exchanging"
  /\ pc' = [pc EXCEPT ![t] = IF state[t] \in used THEN "refused" ELSE "authenticating"]
  /\ used' = used \cup {state[t]}
  /\ UNCHANGED <<logins, state_cookie, session, state, disturbed>>

\* authenticate, which raises AuthFailed for a token it does not trust, and
\* userinfo
Authenticate(t, trusted) ==
  /\ pc[t] = "authenticating"
  /\ pc' = [pc EXCEPT ![t] = IF trusted THEN "accepted" ELSE "refused"]
  /\ UNCHANGED <<logins, state_cookie, session, used, state, disturbed>>

\* An error of the identity provider, whichever of the three asks it, before
\* or after the code has been exchanged.
ProviderFails(t) ==
  /\ Faults
  /\ pc[t] \in {"exchanging", "authenticating"}
  /\ used' \in {used, used \cup {state[t]}}
  /\ pc' = [pc EXCEPT ![t] = "refused"]
  /\ disturbed' = [disturbed EXCEPT ![t] = TRUE]
  /\ UNCHANGED <<logins, state_cookie, session, state>>

\* pop_state in the answer
\* (Mutants: names that begin with Bad, for the mutation tests only.)
BadAnswerCookie == state_cookie
AnswerCookie    == None

\* The page goes on to "/" after a success.
BadNextPage == "login"
NextPage    == "home"

\* The response arrives.  Both outcomes delete the state cookie, whichever
\* login it belongs to.
Succeed(t) ==
  /\ pc[t] = "accepted"
  /\ state_cookie' = AnswerCookie
  /\ session' = state[t]
  /\ pc' = [pc EXCEPT ![t] = NextPage]
  /\ disturbed' = Disturb(t)
  /\ UNCHANGED <<logins, used, state>>

Refuse(t) ==
  /\ pc[t] = "refused"
  /\ state_cookie' = AnswerCookie
  /\ pc' = [pc EXCEPT ![t] = "failed"]
  /\ disturbed' = Disturb(t)
  /\ UNCHANGED <<logins, session, used, state>>

-----------------------------------------------------------------------------
(* The user and time.                                                      *)

\* Reloading the callback page, or going back to it, drops the answer to its
\* request, which the server may have worked on, and sends the same
\* parameters again.
Reload(t) ==
  /\ \/ pc[t] \in {"home", "exchanging", "authenticating", "accepted", "admin"} /\ state[t] # None
     \/ pc[t] \in {"refused", "failed"}
  /\ used' \in IF pc[t] = "exchanging" THEN {used, used \cup {state[t]}} ELSE {used}
  /\ pc' = [pc EXCEPT ![t] = "callback"]
  /\ disturbed' = [disturbed EXCEPT ![t] = TRUE]
  /\ UNCHANGED <<logins, state_cookie, session, state>>

\* The user leaves the login page or the page that reports a failure.
Leave(t) ==
  /\ pc[t] \in {"provider", "failed"}
  /\ pc' = [pc EXCEPT ![t] = "home"]
  /\ state' = [state EXCEPT ![t] = None]
  /\ UNCHANGED <<logins, state_cookie, session, used, disturbed>>

Logout(t) ==
  /\ pc[t] \in {"home", "admin"}
  /\ session # None
  /\ session' = None
  /\ pc' = [pc EXCEPT ![t] = "home"]
  /\ UNCHANGED <<logins, state_cookie, used, state, disturbed>>

\* max_age of the state cookie (300 s) and of the session cookie
StateExpires ==
  /\ state_cookie # None
  /\ state_cookie' = None
  /\ disturbed' = [u \in Tabs |-> disturbed[u] \/ pc[u] \in {"provider", "callback"}]
  /\ UNCHANGED <<logins, session, used, tabs>>

BadSessionExpires ==  \* an open admin page renews the cookie
  /\ session # None
  /\ \A t \in Tabs : pc[t] # "admin"
  /\ session' = None
  /\ UNCHANGED <<logins, state_cookie, used, tabs, disturbed>>
SessionExpires ==
  /\ session # None
  /\ session' = None
  /\ UNCHANGED <<logins, state_cookie, used, tabs, disturbed>>

\* A step that the login alone decides.
Browse(t) ==
  \/ StartLogin(t)
  \/ Callback(t)
  \/ CallbackWithoutCode(t)
  \/ Verify(t)
  \/ ProviderFails(t)
  \/ Succeed(t)
  \/ Refuse(t)
  \/ Reload(t)
  \/ Leave(t)
  \/ Logout(t)

CookieExpires == StateExpires \/ SessionExpires

-----------------------------------------------------------------------------
(* What the variables may hold.                                            *)
TypeOK ==
  /\ logins \in 0 .. MaxLogins
  /\ state_cookie \in {None} \cup Logins
  /\ session \in {None} \cup Logins
  /\ used \in SUBSET Logins
  /\ pc \in [Tabs -> {"home", "provider", "callback", "exchanging", "authenticating",
                      "refused", "accepted", "failed", "admin"}]
  /\ state \in [Tabs -> {None} \cup Logins]
  /\ disturbed \in [Tabs -> BOOLEAN]

\* A login fails only for a cause: while it was under way another tab began
\* or ended a login (which replaces or deletes the shared state cookie), the
\* cookie expired, the page was reloaded, the provider failed or withdrew the
\* key of a token it had just signed.  A cache of keys that is empty or old,
\* or has been overwritten with an older answer, is no cause.
FailuresHaveCauses ==
  \A t \in Tabs : pc[t] = "refused" => disturbed[t]

\* A state is spent with the login it belongs to: the cookie never holds the
\* state of the login the session comes from, so that going back to its
\* callback page starts nothing.
StatesAreSpent == session # None => state_cookie # session
=============================================================================
