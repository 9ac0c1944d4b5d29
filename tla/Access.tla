------------------------------- MODULE Access -------------------------------
(***************************************************************************)
(* What a login is good for: the access token is verified with the signing *)
(* keys that the process has cached (infrastructure/auth/keycloak.py),     *)
(* while the provider replaces them; the roles of the token go into the    *)
(* session cookie, and they alone admit to the admin page and to its       *)
(* request for a heartbeat job (htmx/routes/admin.py), until it expires.   *)
(***************************************************************************)
EXTENDS Login

CONSTANT MaxKeys  \* bound: the signing keys the provider has in turn

ASSUME AccessAssumption == MaxKeys \in Nat \ {0}

Keys == 1 .. MaxKeys

VARIABLES
  key, oldest,  \* the provider signs with key and publishes oldest .. key
  role,         \* the user has ADMIN_ROLE at the provider
  jwks,         \* the keys the verifier's PyJWKClient has cached
  signed,       \* the key of the access token a tab's request has in hand, or None
  roles         \* the token of the login had the role, and so has its session

provider == <<key, oldest, role>>
access   == <<provider, jwks, signed, roles>>
allVars  == <<vars, access>>

AccessInit ==
  /\ Init
  /\ key = 1
  /\ oldest = 1
  /\ role = TRUE
  /\ jwks = {}
  /\ signed = [t \in Tabs |-> None]
  /\ roles = [n \in Logins |-> FALSE]

-----------------------------------------------------------------------------
(* The verifier.                                                           *)

Published == oldest .. key

\* The exchange answers with a token that has the roles of this moment.
TokenExchange(t) ==
  /\ Exchange(t)
  /\ IF state[t] \in used
       THEN UNCHANGED <<signed, roles>>
       ELSE /\ signed' = [signed EXCEPT ![t] = key]
            /\ roles' = [roles EXCEPT ![state[t]] = role]
  /\ UNCHANGED <<provider, jwks>>

\* A key that is not in the cache is asked for, once.
\* (Mutants: names that begin with Bad, for the mutation tests only.)
BadTrusted(k) == IF jwks = {} THEN k \in Published ELSE k \in jwks
Trusted(k) == k \in jwks \/ k \in Published

VerifyToken(t) ==
  /\ Authenticate(t, Trusted(signed[t]))
  /\ jwks' = IF signed[t] \in jwks THEN jwks ELSE Published
  /\ signed' = [signed EXCEPT ![t] = None]
  /\ UNCHANGED <<provider, roles>>

\* A request that fails or is dropped takes its token with it.
Surf(t) ==
  /\ Browse(t)
  /\ signed' = [signed EXCEPT ![t] = None]
  /\ UNCHANGED <<provider, jwks, roles>>

\* Other requests of the process fetch keys, too, in threads of their own, so
\* that an answer may be stored after a newer one; entries expire, and a
\* failed fetch clears them.
KeysCached ==
  /\ jwks' \in {lo .. hi : lo \in 1 .. oldest, hi \in 1 .. key} \cup {{}}
  /\ UNCHANGED <<vars, provider, signed, roles>>

-----------------------------------------------------------------------------
(* The admin page.                                                         *)

\* The session of a request is let in.
Admits(n) == n # None /\ roles[n]

\* GET /admin.  Without a session it redirects to /login (StartLogin), and
\* without the role it answers 403.  The page's POST /admin/heartbeat checks
\* the session it is sent with in the same way and appends a job (Enqueue):
\* it changes nothing here.
OpenAdmin(t) ==
  /\ pc[t] = "home"
  /\ Admits(session)
  /\ pc' = [pc EXCEPT ![t] = "admin"]
  /\ UNCHANGED <<logins, state_cookie, session, used, state, disturbed, access>>

LeaveAdmin(t) ==
  /\ pc[t] = "admin"
  /\ pc' = [pc EXCEPT ![t] = "home"]
  /\ UNCHANGED <<logins, state_cookie, session, used, state, disturbed, access>>

-----------------------------------------------------------------------------
(* The identity provider.                                                  *)

Rotate ==
  /\ key < MaxKeys
  /\ key' = key + 1
  /\ UNCHANGED <<vars, oldest, role, jwks, signed, roles>>

\* Tokens of the oldest key are now good only where it is still cached.
Withdraw ==
  /\ oldest < key
  /\ oldest' = oldest + 1
  /\ disturbed' = [t \in Tabs |-> disturbed[t] \/ signed[t] = oldest]
  /\ UNCHANGED <<logins, state_cookie, session, used, tabs, key, role, jwks, signed, roles>>

GrantOrRevoke ==
  /\ role' = ~role
  /\ UNCHANGED <<vars, key, oldest, jwks, signed, roles>>

AccessNext ==
  \/ \E t \in Tabs :
       \/ Surf(t)
       \/ TokenExchange(t)
       \/ VerifyToken(t)
       \/ OpenAdmin(t)
       \/ LeaveAdmin(t)
  \/ CookieExpires /\ UNCHANGED access
  \/ KeysCached
  \/ Rotate
  \/ Withdraw
  \/ GrantOrRevoke

\* Nobody but time is obliged to do anything: the browser drops the session
\* cookie when its max_age is over.
AccessSpec ==
  /\ AccessInit
  /\ [][AccessNext]_allVars
  /\ WF_allVars(SessionExpires /\ UNCHANGED access)

-----------------------------------------------------------------------------
(* What the variables may hold.                                            *)
AccessTypeOK ==
  /\ TypeOK
  /\ key \in Keys
  /\ oldest \in 1 .. key
  /\ role \in BOOLEAN
  /\ jwks \in SUBSET Keys
  /\ signed \in [Tabs -> {None} \cup Keys]
  /\ roles \in [Logins -> BOOLEAN]

\* A role that has been revoked for good is lost in the end, although the
\* session is never checked with the provider again: logins that had their
\* token before may still end afterwards and bring the role back, each once,
\* in a tab of its own, and only the cookie's max_age takes it away.
RevokedRolesRunOut == <>[]~role => <>[]~Admits(session)
=============================================================================
