---------------------------- MODULE AccessProofs ----------------------------
(***************************************************************************)
(* Proofs about Access for any number of tabs, logins and keys.            *)
(***************************************************************************)
EXTENDS Access, TLAPS

USE LoginAssumption, AccessAssumption DEF None

\* The numbers of logins that have been handed out.
Numbered ==
  /\ used \subseteq 1 .. logins
  /\ session <= logins
  /\ state_cookie <= logins
  /\ \A t \in Tabs : state[t] <= logins

\* Where a tab is, it has a state, has spent its code, has a token in hand.
Stages ==
  \A t \in Tabs :
    /\ pc[t] \in {"provider", "exchanging", "authenticating", "accepted"} => state[t] # None
    /\ pc[t] \in {"authenticating", "accepted"} => state[t] \in used
    /\ signed[t] # None <=> pc[t] = "authenticating"

KeysInOrder == \A t \in Tabs : signed[t] <= key

\* A session comes from a code that has been exchanged.
Earned == session # None => session \in used

OneStateEach ==
  \A t, u \in Tabs : t # u /\ state[t] = state[u] => state[t] = None

\* What a login that nothing has disturbed can rely on.
Undisturbed(t) ==
  /\ pc[t] \in {"provider", "callback"} => state_cookie = state[t] /\ state[t] # None
  /\ pc[t] \in {"provider", "callback", "exchanging"} => state[t] \notin used
  /\ pc[t] = "authenticating" => signed[t] >= oldest
  /\ pc[t] # "refused"

Causes == \A t \in Tabs : disturbed[t] \/ Undisturbed(t)

LoginInv ==
  /\ AccessTypeOK
  /\ Numbered
  /\ Stages
  /\ KeysInOrder
  /\ Earned
  /\ OneStateEach
  /\ Causes
  /\ StatesAreSpent

LEMMA LoginInvInit == AccessInit => LoginInv
BY DEF AccessInit, Init, LoginInv, AccessTypeOK, TypeOK, Logins, Keys, Numbered, Stages, KeysInOrder, Earned,
       OneStateEach, Causes, Undisturbed, StatesAreSpent

\* What a step of the login leaves to Access.
Carried(t) ==
  /\ signed' = [signed EXCEPT ![t] = None]
  /\ UNCHANGED <<provider, jwks, roles>>

LEMMA LoginInvNext == LoginInv /\ [AccessNext]_allVars => LoginInv'
<1> SUFFICES ASSUME LoginInv, [AccessNext]_allVars PROVE LoginInv'
  OBVIOUS
<1> USE DEF LoginInv
<1>1. ASSUME NEW t \in Tabs, StartLogin(t), Carried(t) PROVE LoginInv'
  <2>1. AccessTypeOK'
    <3>1. Disturb(t) \in [Tabs -> BOOLEAN]
      BY DEF Disturb, AccessTypeOK, TypeOK
    <3>2. disturbed' \in [Tabs -> BOOLEAN]
      BY <1>1, <3>1 DEF StartLogin
    <3>3. logins + 1 \in Logins
      BY <1>1 DEF StartLogin, AccessTypeOK, TypeOK, Logins
    <3> QED
      BY <1>1, <3>2, <3>3 DEF AccessTypeOK, TypeOK, Logins, StartLogin, LoginCookie, Carried, provider
  <2>2. Numbered' /\ Stages' /\ Earned' /\ OneStateEach'
    <3>1. Numbered'
      <4>1. logins \in Nat /\ session \in Nat /\ \A u \in Tabs : state[u] \in Nat
        BY DEF AccessTypeOK, TypeOK, Logins
      <4>2. \A u \in Tabs : state'[u] <= logins'
        BY <1>1, <4>1 DEF Numbered, StartLogin, AccessTypeOK, TypeOK
      <4>3. used' \subseteq 1 .. logins'
        BY <1>1, <4>1 DEF Numbered, StartLogin
      <4> QED
        BY <1>1, <4>1, <4>2, <4>3 DEF Numbered, StartLogin, LoginCookie
    <3>2. Stages'
      BY <1>1 DEF Stages, AccessTypeOK, TypeOK, StartLogin, Carried
    <3>3. OneStateEach'
      BY <1>1 DEF OneStateEach, Numbered, AccessTypeOK, TypeOK, Logins, StartLogin
    <3> QED
      BY <1>1, <3>1, <3>2, <3>3 DEF Earned, StartLogin, Carried
  <2>3. Causes'
    <3> SUFFICES ASSUME NEW u \in Tabs PROVE disturbed'[u] \/ Undisturbed(u)'
      BY DEF Causes
    <3>1. CASE u = t
      BY <1>1, <3>1 DEF AccessTypeOK, TypeOK, Numbered, Undisturbed, StartLogin, LoginCookie, Carried, provider
    <3>2. CASE u # t /\ pc[u] \in {"provider", "callback"}
      <4>1. Disturb(t)[u]
        BY <3>2 DEF Disturb
      <4> QED
        BY <1>1, <3>2, <4>1 DEF AccessTypeOK, TypeOK, StartLogin
    <3>3. CASE u # t /\ pc[u] \notin {"provider", "callback"}
      <4>1. disturbed[u] => Disturb(t)[u]
        BY <3>3 DEF Disturb
      <4>2. disturbed[u] => disturbed'[u]
        BY <1>1, <3>3, <4>1 DEF StartLogin, Disturb
      <4> QED
        BY <1>1, <3>3, <4>2 DEF AccessTypeOK, TypeOK, Causes, Undisturbed, StartLogin, Carried, provider
    <3> QED
      BY <3>1, <3>2, <3>3
  <2>4. KeysInOrder'
    BY <1>1 DEF AccessTypeOK, TypeOK, Logins, Keys, Numbered, Stages, KeysInOrder, Earned, OneStateEach, Causes, Undisturbed, StatesAreSpent, StartLogin, LoginCookie, Disturb, Carried, vars, tabs, access, provider
  <2>5. StatesAreSpent'
    BY <1>1 DEF AccessTypeOK, TypeOK, Logins, Keys, Numbered, Stages, KeysInOrder, Earned, OneStateEach, Causes, Undisturbed, StatesAreSpent, StartLogin, LoginCookie, Disturb, Carried, vars, tabs, access, provider
  <2> QED
    BY <2>1, <2>2, <2>3, <2>4, <2>5
<1>2. ASSUME NEW t \in Tabs, TokenExchange(t) PROVE LoginInv'
  <2>1. AccessTypeOK'
    <3>1. state[t] \in Logins
      BY <1>2 DEF TokenExchange, Exchange, Stages, AccessTypeOK, TypeOK
    <3>2. roles' \in [Logins -> BOOLEAN]
      BY <1>2, <3>1 DEF TokenExchange, AccessTypeOK
    <3>3. signed' \in [Tabs -> {None} \cup Keys]
      BY <1>2 DEF TokenExchange, AccessTypeOK
    <3> QED
      BY <1>2, <3>1, <3>2, <3>3 DEF AccessTypeOK, TypeOK, TokenExchange, Exchange, provider
  <2>2. Numbered' /\ Stages' /\ Earned' /\ OneStateEach'
    <3>1. state[t] \in 1 .. logins
      BY <1>2 DEF TokenExchange, Exchange, Numbered, Stages, AccessTypeOK, TypeOK, Logins
    <3>2. key # None
      BY DEF AccessTypeOK, Keys
    <3>3. Numbered'
      BY <1>2, <3>1 DEF Numbered, TokenExchange, Exchange
    <3>4. Stages'
      BY <1>2, <3>1, <3>2 DEF Stages, TokenExchange, Exchange, AccessTypeOK, TypeOK
    <3> QED
      BY <1>2, <3>3, <3>4 DEF Earned, OneStateEach, TokenExchange, Exchange
  <2>3. Causes'
    BY <1>2 DEF AccessTypeOK, TypeOK, Logins, Keys, Numbered, Stages, KeysInOrder, Earned, OneStateEach, Causes, Undisturbed, StatesAreSpent, TokenExchange, Exchange, vars, tabs, access, provider
  <2>4. KeysInOrder'
    BY <1>2 DEF AccessTypeOK, TypeOK, Logins, Keys, Numbered, Stages, KeysInOrder, Earned, OneStateEach, Causes, Undisturbed, StatesAreSpent, TokenExchange, Exchange, vars, tabs, access, provider
  <2>5. StatesAreSpent'
    BY <1>2 DEF AccessTypeOK, TypeOK, Logins, Keys, Numbered, Stages, KeysInOrder, Earned, OneStateEach, Causes, Undisturbed, StatesAreSpent, TokenExchange, Exchange, vars, tabs, access, provider
  <2> QED
    BY <2>1, <2>2, <2>3, <2>4, <2>5
<1>3. ASSUME NEW t \in Tabs, VerifyToken(t) PROVE LoginInv'
  <2>1. AccessTypeOK'
    BY <1>3 DEF AccessTypeOK, TypeOK, Logins, Keys, Numbered, Stages, KeysInOrder, Earned, OneStateEach, Causes, Undisturbed, StatesAreSpent, VerifyToken, Authenticate, Trusted, Published, vars, tabs, access, provider
  <2>2. Numbered' /\ Stages' /\ Earned' /\ OneStateEach'
    BY <1>3 DEF AccessTypeOK, TypeOK, Logins, Keys, Numbered, Stages, KeysInOrder, Earned, OneStateEach, Causes, Undisturbed, StatesAreSpent, VerifyToken, Authenticate, Trusted, Published, vars, tabs, access, provider
  <2>3. Causes'
    <3> SUFFICES ASSUME NEW u \in Tabs PROVE disturbed'[u] \/ Undisturbed(u)'
      BY DEF Causes
    <3>1. CASE u = t
      <4>1. disturbed[t] \/ signed[t] \in Published
        BY <1>3 DEF Causes, Undisturbed, VerifyToken, Authenticate, Stages, KeysInOrder, AccessTypeOK, Keys, Published
      <4> QED
        BY <1>3, <3>1, <4>1 DEF VerifyToken, Authenticate, Trusted, Undisturbed, AccessTypeOK, TypeOK
    <3>2. CASE u # t
      BY <1>3, <3>2 DEF Causes, Undisturbed, VerifyToken, Authenticate, AccessTypeOK, TypeOK, provider
    <3> QED
      BY <3>1, <3>2
  <2>4. KeysInOrder'
    BY <1>3 DEF AccessTypeOK, TypeOK, Logins, Keys, Numbered, Stages, KeysInOrder, Earned, OneStateEach, Causes, Undisturbed, StatesAreSpent, VerifyToken, Authenticate, Trusted, Published, vars, tabs, access, provider
  <2>5. StatesAreSpent'
    BY <1>3 DEF AccessTypeOK, TypeOK, Logins, Keys, Numbered, Stages, KeysInOrder, Earned, OneStateEach, Causes, Undisturbed, StatesAreSpent, VerifyToken, Authenticate, Trusted, Published, vars, tabs, access, provider
  <2> QED
    BY <2>1, <2>2, <2>3, <2>4, <2>5
<1>4. ASSUME CookieExpires, UNCHANGED access PROVE LoginInv'
  <2>1. AccessTypeOK'
    BY <1>4 DEF AccessTypeOK, TypeOK, Logins, Keys, Numbered, Stages, KeysInOrder, Earned, OneStateEach, Causes, Undisturbed, StatesAreSpent, CookieExpires, StateExpires, SessionExpires, vars, tabs, access, provider
  <2>2. Numbered' /\ Stages' /\ Earned' /\ OneStateEach'
    <3>1. ASSUME StateExpires PROVE Numbered'
      BY <1>4, <3>1 DEF Numbered, StateExpires, tabs, AccessTypeOK, TypeOK
    <3>2. ASSUME SessionExpires PROVE Numbered'
      BY <1>4, <3>2 DEF Numbered, SessionExpires, tabs, AccessTypeOK, TypeOK
    <3>3. Numbered'
      BY <1>4, <3>1, <3>2 DEF CookieExpires
    <3> QED
      BY <1>4, <3>3 DEF Stages, Earned, OneStateEach, CookieExpires, StateExpires, SessionExpires, tabs, access
  <2>3. Causes'
    BY <1>4 DEF AccessTypeOK, TypeOK, Logins, Keys, Numbered, Stages, KeysInOrder, Earned, OneStateEach, Causes, Undisturbed, StatesAreSpent, CookieExpires, StateExpires, SessionExpires, vars, tabs, access, provider
  <2>4. KeysInOrder'
    BY <1>4 DEF AccessTypeOK, TypeOK, Logins, Keys, Numbered, Stages, KeysInOrder, Earned, OneStateEach, Causes, Undisturbed, StatesAreSpent, CookieExpires, StateExpires, SessionExpires, vars, tabs, access, provider
  <2>5. StatesAreSpent'
    BY <1>4 DEF AccessTypeOK, TypeOK, Logins, Keys, Numbered, Stages, KeysInOrder, Earned, OneStateEach, Causes, Undisturbed, StatesAreSpent, CookieExpires, StateExpires, SessionExpires, vars, tabs, access, provider
  <2> QED
    BY <2>1, <2>2, <2>3, <2>4, <2>5
<1>5. ASSUME Withdraw PROVE LoginInv'
  <2>1. AccessTypeOK'
    BY <1>5 DEF AccessTypeOK, TypeOK, Logins, Keys, Numbered, Stages, KeysInOrder, Earned, OneStateEach, Causes, Undisturbed, StatesAreSpent, Withdraw, vars, tabs, access, provider
  <2>2. Numbered' /\ Stages' /\ Earned' /\ OneStateEach'
    BY <1>5 DEF AccessTypeOK, TypeOK, Logins, Keys, Numbered, Stages, KeysInOrder, Earned, OneStateEach, Causes, Undisturbed, StatesAreSpent, Withdraw, vars, tabs, access, provider
  <2>3. Causes'
    <3> SUFFICES ASSUME NEW u \in Tabs PROVE disturbed'[u] \/ Undisturbed(u)'
      BY DEF Causes
    <3>1. CASE disturbed[u] \/ signed[u] = oldest
      BY <1>5, <3>1 DEF Withdraw
    <3>2. CASE ~disturbed[u] /\ signed[u] # oldest
      <4>1. Undisturbed(u)
        BY <3>2 DEF Causes
      <4>2. pc[u] = "authenticating" => signed[u] >= oldest + 1
        BY <3>2, <4>1 DEF Undisturbed, AccessTypeOK, Stages, Keys
      <4> QED
        BY <1>5, <4>1, <4>2 DEF Withdraw, Undisturbed, tabs
    <3> QED
      BY <3>1, <3>2
  <2>4. KeysInOrder'
    BY <1>5 DEF AccessTypeOK, TypeOK, Logins, Keys, Numbered, Stages, KeysInOrder, Earned, OneStateEach, Causes, Undisturbed, StatesAreSpent, Withdraw, vars, tabs, access, provider
  <2>5. StatesAreSpent'
    BY <1>5 DEF AccessTypeOK, TypeOK, Logins, Keys, Numbered, Stages, KeysInOrder, Earned, OneStateEach, Causes, Undisturbed, StatesAreSpent, Withdraw, vars, tabs, access, provider
  <2> QED
    BY <2>1, <2>2, <2>3, <2>4, <2>5
<1> USE DEF AccessTypeOK, TypeOK, Logins, Keys, Numbered, Stages, KeysInOrder, Earned, OneStateEach, Causes, Undisturbed,
            StatesAreSpent, Carried, vars, tabs, access, provider
<1>6. ASSUME NEW t \in Tabs, Callback(t), Carried(t) PROVE LoginInv'
  <2>1. AccessTypeOK'
    BY <1>6 DEF Callback
  <2>2. Numbered' /\ Stages' /\ Earned' /\ OneStateEach'
    BY <1>6 DEF Callback
  <2>3. Causes'
    BY <1>6 DEF Callback
  <2>4. KeysInOrder' /\ StatesAreSpent'
    BY <1>6 DEF Callback
  <2> QED
    BY <2>1, <2>2, <2>3, <2>4
<1>7. ASSUME NEW t \in Tabs, CallbackWithoutCode(t), Carried(t) PROVE LoginInv'
  <2>1. AccessTypeOK'
    BY <1>7 DEF CallbackWithoutCode
  <2>2. Numbered' /\ Stages' /\ Earned' /\ OneStateEach'
    BY <1>7 DEF CallbackWithoutCode
  <2>3. Causes'
    BY <1>7 DEF CallbackWithoutCode
  <2>4. KeysInOrder' /\ StatesAreSpent'
    BY <1>7 DEF CallbackWithoutCode
  <2> QED
    BY <2>1, <2>2, <2>3, <2>4
<1>8. ASSUME NEW t \in Tabs, Verify(t), Carried(t) PROVE LoginInv'
  <2>1. AccessTypeOK'
    BY <1>8 DEF Verify, ValidState
  <2>2. Numbered' /\ Stages' /\ Earned' /\ OneStateEach'
    BY <1>8 DEF Verify, ValidState
  <2>3. Causes'
    BY <1>8 DEF Verify, ValidState
  <2>4. KeysInOrder' /\ StatesAreSpent'
    BY <1>8 DEF Verify, ValidState
  <2> QED
    BY <2>1, <2>2, <2>3, <2>4
<1>9. ASSUME NEW t \in Tabs, ProviderFails(t), Carried(t) PROVE LoginInv'
  <2>1. AccessTypeOK'
    BY <1>9 DEF ProviderFails
  <2>2. Numbered' /\ Stages' /\ Earned' /\ OneStateEach'
    BY <1>9 DEF ProviderFails
  <2>3. Causes'
    BY <1>9 DEF ProviderFails
  <2>4. KeysInOrder' /\ StatesAreSpent'
    BY <1>9 DEF ProviderFails
  <2> QED
    BY <2>1, <2>2, <2>3, <2>4
<1>10. ASSUME NEW t \in Tabs, Succeed(t), Carried(t) PROVE LoginInv'
  <2>1. AccessTypeOK'
    BY <1>10 DEF Succeed, AnswerCookie, NextPage, Disturb
  <2>2. Numbered' /\ Stages' /\ Earned' /\ OneStateEach'
    BY <1>10 DEF Succeed, AnswerCookie, NextPage, Disturb
  <2>3. Causes'
    BY <1>10 DEF Succeed, AnswerCookie, NextPage, Disturb
  <2>4. KeysInOrder' /\ StatesAreSpent'
    BY <1>10 DEF Succeed, AnswerCookie, NextPage, Disturb
  <2> QED
    BY <2>1, <2>2, <2>3, <2>4
<1>11. ASSUME NEW t \in Tabs, Refuse(t), Carried(t) PROVE LoginInv'
  <2>1. AccessTypeOK'
    BY <1>11 DEF Refuse, AnswerCookie, Disturb
  <2>2. Numbered' /\ Stages' /\ Earned' /\ OneStateEach'
    BY <1>11 DEF Refuse, AnswerCookie, Disturb
  <2>3. Causes'
    BY <1>11 DEF Refuse, AnswerCookie, Disturb
  <2>4. KeysInOrder' /\ StatesAreSpent'
    BY <1>11 DEF Refuse, AnswerCookie, Disturb
  <2> QED
    BY <2>1, <2>2, <2>3, <2>4
<1>12. ASSUME NEW t \in Tabs, Reload(t), Carried(t) PROVE LoginInv'
  <2>1. AccessTypeOK'
    BY <1>12 DEF Reload
  <2>2. Numbered' /\ Stages' /\ Earned' /\ OneStateEach'
    BY <1>12 DEF Reload
  <2>3. Causes'
    BY <1>12 DEF Reload
  <2>4. KeysInOrder' /\ StatesAreSpent'
    BY <1>12 DEF Reload
  <2> QED
    BY <2>1, <2>2, <2>3, <2>4
<1>13. ASSUME NEW t \in Tabs, Leave(t), Carried(t) PROVE LoginInv'
  <2>1. AccessTypeOK'
    BY <1>13 DEF Leave
  <2>2. Numbered' /\ Stages' /\ Earned' /\ OneStateEach'
    BY <1>13 DEF Leave
  <2>3. Causes'
    BY <1>13 DEF Leave
  <2>4. KeysInOrder' /\ StatesAreSpent'
    BY <1>13 DEF Leave
  <2> QED
    BY <2>1, <2>2, <2>3, <2>4
<1>14. ASSUME NEW t \in Tabs, Logout(t), Carried(t) PROVE LoginInv'
  <2>1. AccessTypeOK'
    BY <1>14 DEF Logout
  <2>2. Numbered' /\ Stages' /\ Earned' /\ OneStateEach'
    BY <1>14 DEF Logout
  <2>3. Causes'
    BY <1>14 DEF Logout
  <2>4. KeysInOrder' /\ StatesAreSpent'
    BY <1>14 DEF Logout
  <2> QED
    BY <2>1, <2>2, <2>3, <2>4
<1>15. ASSUME NEW t \in Tabs, OpenAdmin(t) PROVE LoginInv'
  <2>1. AccessTypeOK'
    BY <1>15 DEF OpenAdmin, Admits
  <2>2. Numbered' /\ Stages' /\ Earned' /\ OneStateEach'
    BY <1>15 DEF OpenAdmin, Admits
  <2>3. Causes'
    BY <1>15 DEF OpenAdmin, Admits
  <2>4. KeysInOrder' /\ StatesAreSpent'
    BY <1>15 DEF OpenAdmin, Admits
  <2> QED
    BY <2>1, <2>2, <2>3, <2>4
<1>16. ASSUME NEW t \in Tabs, LeaveAdmin(t) PROVE LoginInv'
  <2>1. AccessTypeOK'
    BY <1>16 DEF LeaveAdmin
  <2>2. Numbered' /\ Stages' /\ Earned' /\ OneStateEach'
    BY <1>16 DEF LeaveAdmin
  <2>3. Causes'
    BY <1>16 DEF LeaveAdmin
  <2>4. KeysInOrder' /\ StatesAreSpent'
    BY <1>16 DEF LeaveAdmin
  <2> QED
    BY <2>1, <2>2, <2>3, <2>4
<1>17. ASSUME KeysCached PROVE LoginInv'
  <2>1. AccessTypeOK'
    BY <1>17 DEF KeysCached
  <2>2. Numbered' /\ Stages' /\ Earned' /\ OneStateEach'
    BY <1>17 DEF KeysCached
  <2>3. Causes'
    BY <1>17 DEF KeysCached
  <2>4. KeysInOrder' /\ StatesAreSpent'
    BY <1>17 DEF KeysCached
  <2> QED
    BY <2>1, <2>2, <2>3, <2>4
<1>18. ASSUME Rotate PROVE LoginInv'
  <2>1. AccessTypeOK'
    BY <1>18 DEF Rotate
  <2>2. Numbered' /\ Stages' /\ Earned' /\ OneStateEach'
    BY <1>18 DEF Rotate
  <2>3. Causes'
    BY <1>18 DEF Rotate
  <2>4. KeysInOrder' /\ StatesAreSpent'
    BY <1>18 DEF Rotate
  <2> QED
    BY <2>1, <2>2, <2>3, <2>4
<1>19. ASSUME GrantOrRevoke PROVE LoginInv'
  <2>1. AccessTypeOK'
    BY <1>19 DEF GrantOrRevoke
  <2>2. Numbered' /\ Stages' /\ Earned' /\ OneStateEach'
    BY <1>19 DEF GrantOrRevoke
  <2>3. Causes'
    BY <1>19 DEF GrantOrRevoke
  <2>4. KeysInOrder' /\ StatesAreSpent'
    BY <1>19 DEF GrantOrRevoke
  <2> QED
    BY <2>1, <2>2, <2>3, <2>4
<1>20. CASE UNCHANGED allVars
  BY <1>20 DEF allVars
<1> QED
  BY <1>1, <1>2, <1>3, <1>4, <1>5, <1>6, <1>7, <1>8, <1>9, <1>10, <1>11, <1>12, <1>13, <1>14, <1>15, <1>16, <1>17, <1>18, <1>19, <1>20
     DEF AccessNext, Surf, Browse

\* One induction over the steps for all the theorems.
LEMMA LoginInvAlways == AccessSpec => []LoginInv
BY LoginInvInit, LoginInvNext, PTL DEF AccessSpec

\* The variables of Login and Access keep their types.
THEOREM AccessTypeCorrect == AccessSpec => []AccessTypeOK
<1>1. LoginInv => AccessTypeOK
  BY DEF LoginInv
<1> QED
  BY LoginInvAlways, <1>1, PTL

\* The callback fails only for a cause, for any number of tabs that share
\* the state cookie and any keys that the verifier has cached.
THEOREM LoginsFailForCauses == AccessSpec => []FailuresHaveCauses
<1>1. LoginInv => FailuresHaveCauses
  BY DEF LoginInv, Causes, Undisturbed, FailuresHaveCauses
<1> QED
  BY LoginInvAlways, <1>1, PTL

\* pop_state: the state cookie never holds the state of the login that the
\* session comes from.
THEOREM SpentStatesAreGone == AccessSpec => []StatesAreSpent
<1>1. LoginInv => StatesAreSpent
  BY DEF LoginInv
<1> QED
  BY LoginInvAlways, <1>1, PTL

=============================================================================
