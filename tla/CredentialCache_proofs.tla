----------------------- MODULE CredentialCache_proofs -----------------------
(***************************************************************************)
(* That at most one thread obtains a credential at a time, that each one   *)
(* obtained answers a loss of its own, and that a retry never presents the *)
(* credential that was refused, for any number of threads and calls.       *)
(*                                                                         *)
(* The first is inductive with the types; the second needs that nothing    *)
(* usable is held while another is being obtained (ObtainedWhenNeeded);    *)
(* the third that a refused credential is not held again once its thread   *)
(* has dropped it (RefusedIsGone): a renewal could put it back, were the   *)
(* mutex not held across it.                                               *)
(***************************************************************************)
EXTENDS CredentialCache, TLAPS

\* A source nobody has called yet satisfies the invariant.
LEMMA InitInv == Init => IndInv
  BY NoThreadIsNone DEF Init, Empty, AtRest, Fresh, IndInv, TypeOK, CallerType, Tokens,
     SingleFlight, Obtaining, OneObtainPerLoss, RetryPresentsAnother,
     ObtainedWhenNeeded, RefusedIsGone

\* Every step keeps the types.
LEMMA NextTypeOK == TypeOK /\ [Next]_cacheVars => TypeOK'
<1> SUFFICES ASSUME TypeOK, [Next]_cacheVars PROVE TypeOK'
  OBVIOUS
<1> USE DEF TypeOK, CallerType, Tokens, Empty, AtRest, Fresh
<1>1. CASE GoStale
  <2>1. held' \in [token : Tokens, stale : BOOLEAN]
    <3>1. held' = [token |-> held.token, stale |-> TRUE]
      BY <1>1 DEF GoStale
    <3> QED
      BY <3>1
  <2> QED
    BY <1>1, <2>1 DEF GoStale
<1>2. ASSUME NEW token \in live, Revoke(token) PROVE TypeOK'
  BY <1>2 DEF Revoke
<1>3. ASSUME NEW t \in Threads, NEW retries \in BOOLEAN, Call(t, retries) PROVE TypeOK'
  BY <1>3 DEF Call
<1>4. ASSUME NEW t \in Threads, Reuse(t) PROVE TypeOK'
  BY <1>4 DEF Reuse, WithToken
<1>5. ASSUME NEW t \in Threads, ObtainByLogin(t) PROVE TypeOK'
  BY <1>5 DEF ObtainByLogin
<1>6. ASSUME NEW t \in Threads, ObtainByRenewal(t) PROVE TypeOK'
  BY <1>6 DEF ObtainByRenewal
<1>7. ASSUME NEW t \in Threads, Renewed(t) PROVE TypeOK'
  <2>1. held' \in [token : Tokens, stale : BOOLEAN]
    BY <1>7 DEF Renewed, Hold
  <2>2. WithToken(t, held.token) \in CallerType
    BY DEF WithToken
  <2> QED
    BY <1>7, <2>1, <2>2 DEF Renewed, Hold
<1>8. ASSUME NEW t \in Threads, RenewalFails(t) PROVE TypeOK'
  BY <1>8 DEF RenewalFails
<1>9. ASSUME NEW t \in Threads, LoggedIn(t) PROVE TypeOK'
  <2>1. Tokens \subseteq Tokens' /\ issued + 1 \in Tokens' /\ issued + 1 # 0
    BY <1>9 DEF LoggedIn
  <2>2. held' \in [token : Tokens', stale : BOOLEAN]
    BY <1>9, <2>1 DEF LoggedIn, Hold
  <2>3. live' \subseteq Tokens' \ {0}
    BY <1>9, <2>1 DEF LoggedIn
  <2>4. WithToken(t, issued + 1) \in CallerType'
    BY <2>1 DEF WithToken
  <2>5. \A s \in Threads : caller[s] \in CallerType'
    BY <2>1
  <2>6. caller' \in [Threads -> CallerType']
    BY <1>9, <2>4, <2>5 DEF LoggedIn, Hold
  <2> QED
    BY <1>9, <2>2, <2>3, <2>6 DEF LoggedIn, Hold
<1>10. ASSUME NEW t \in Threads, LoginFails(t) PROVE TypeOK'
  BY <1>10 DEF LoginFails
<1>11. ASSUME NEW t \in Threads, Send(t) PROVE TypeOK'
  BY <1>11 DEF Send
<1>12. ASSUME NEW t \in Threads, NotSent(t) PROVE TypeOK'
  BY <1>12 DEF NotSent
<1>13. ASSUME NEW t \in Threads, Answered(t) PROVE TypeOK'
  BY <1>13 DEF Answered
<1>14. ASSUME NEW t \in Threads, Forbidden(t) PROVE TypeOK'
  BY <1>14 DEF Forbidden
<1>15. ASSUME NEW t \in Threads, Invalidate(t) PROVE TypeOK'
  BY <1>15 DEF Invalidate
<1>16. ASSUME NEW t \in Threads, Retry(t) PROVE TypeOK'
  BY <1>16 DEF Retry
<1>17. CASE UNCHANGED cacheVars
  BY <1>17 DEF cacheVars
<1> QED
  BY <1>1, <1>2, <1>3, <1>4, <1>5, <1>6, <1>7, <1>8, <1>9,
     <1>10, <1>11, <1>12, <1>13, <1>14, <1>15, <1>16, <1>17 DEF Next, GetToken, Request

\* Every step keeps one thread at most obtaining, the one that holds the mutex.
LEMMA NextSingleFlight == TypeOK /\ SingleFlight /\ [Next]_cacheVars => SingleFlight'
<1> SUFFICES ASSUME TypeOK, SingleFlight, [Next]_cacheVars PROVE SingleFlight'
  OBVIOUS
<1> USE NoThreadIsNone DEF TypeOK, CallerType, SingleFlight, Obtaining, AtRest
<1>1. CASE GoStale
  BY <1>1 DEF GoStale
<1>2. ASSUME NEW token \in live, Revoke(token) PROVE SingleFlight'
  BY <1>2 DEF Revoke
<1>3. ASSUME NEW t \in Threads, NEW retries \in BOOLEAN, Call(t, retries) PROVE SingleFlight'
  BY <1>3 DEF Call
<1>4. ASSUME NEW t \in Threads, Reuse(t) PROVE SingleFlight'
  BY <1>4 DEF Reuse, WithToken
<1>5. ASSUME NEW t \in Threads, ObtainByLogin(t) PROVE SingleFlight'
  BY <1>5 DEF ObtainByLogin
<1>6. ASSUME NEW t \in Threads, ObtainByRenewal(t) PROVE SingleFlight'
  BY <1>6 DEF ObtainByRenewal
<1>7. ASSUME NEW t \in Threads, Renewed(t) PROVE SingleFlight'
  BY <1>7 DEF Renewed, Hold, WithToken
<1>8. ASSUME NEW t \in Threads, RenewalFails(t) PROVE SingleFlight'
  BY <1>8 DEF RenewalFails
<1>9. ASSUME NEW t \in Threads, LoggedIn(t) PROVE SingleFlight'
  BY <1>9 DEF LoggedIn, Hold, WithToken
<1>10. ASSUME NEW t \in Threads, LoginFails(t) PROVE SingleFlight'
  BY <1>10 DEF LoginFails
<1>11. ASSUME NEW t \in Threads, Send(t) PROVE SingleFlight'
  BY <1>11 DEF Send
<1>12. ASSUME NEW t \in Threads, NotSent(t) PROVE SingleFlight'
  BY <1>12 DEF NotSent
<1>13. ASSUME NEW t \in Threads, Answered(t) PROVE SingleFlight'
  BY <1>13 DEF Answered
<1>14. ASSUME NEW t \in Threads, Forbidden(t) PROVE SingleFlight'
  BY <1>14 DEF Forbidden
<1>15. ASSUME NEW t \in Threads, Invalidate(t) PROVE SingleFlight'
  BY <1>15 DEF Invalidate
<1>16. ASSUME NEW t \in Threads, Retry(t) PROVE SingleFlight'
  BY <1>16 DEF Retry
<1>17. CASE UNCHANGED cacheVars
  BY <1>17 DEF cacheVars
<1> QED
  BY <1>1, <1>2, <1>3, <1>4, <1>5, <1>6, <1>7, <1>8, <1>9,
     <1>10, <1>11, <1>12, <1>13, <1>14, <1>15, <1>16, <1>17 DEF Next, GetToken, Request

\* Every step keeps the count of credentials obtained in step with the losses,
\* and obtains only when what is held will not do.
LEMMA NextObtained ==
    TypeOK /\ SingleFlight /\ OneObtainPerLoss /\ ObtainedWhenNeeded /\ [Next]_cacheVars
        => OneObtainPerLoss' /\ ObtainedWhenNeeded'
<1> SUFFICES ASSUME TypeOK, SingleFlight, OneObtainPerLoss, ObtainedWhenNeeded,
                    [Next]_cacheVars
             PROVE  OneObtainPerLoss' /\ ObtainedWhenNeeded'
  OBVIOUS
<1> USE NoThreadIsNone DEF TypeOK, CallerType, Tokens, SingleFlight, Obtaining, OneObtainPerLoss,
        ObtainedWhenNeeded, Fresh, Empty
<1>1. CASE GoStale
  BY <1>1 DEF GoStale
<1>2. ASSUME NEW token \in live, Revoke(token) PROVE OneObtainPerLoss' /\ ObtainedWhenNeeded'
  BY <1>2 DEF Revoke
<1>3. ASSUME NEW t \in Threads, NEW retries \in BOOLEAN, Call(t, retries)
      PROVE OneObtainPerLoss' /\ ObtainedWhenNeeded'
  BY <1>3 DEF Call
<1>4. ASSUME NEW t \in Threads, Reuse(t) PROVE OneObtainPerLoss' /\ ObtainedWhenNeeded'
  BY <1>4 DEF Reuse, WithToken
<1>5. ASSUME NEW t \in Threads, ObtainByLogin(t) PROVE OneObtainPerLoss' /\ ObtainedWhenNeeded'
  BY <1>5 DEF ObtainByLogin
<1>6. ASSUME NEW t \in Threads, ObtainByRenewal(t) PROVE OneObtainPerLoss' /\ ObtainedWhenNeeded'
  BY <1>6 DEF ObtainByRenewal
<1>7. ASSUME NEW t \in Threads, Renewed(t) PROVE OneObtainPerLoss' /\ ObtainedWhenNeeded'
  BY <1>7 DEF Renewed, Hold, WithToken
<1>8. ASSUME NEW t \in Threads, RenewalFails(t) PROVE OneObtainPerLoss' /\ ObtainedWhenNeeded'
  BY <1>8 DEF RenewalFails
<1>9. ASSUME NEW t \in Threads, LoggedIn(t) PROVE OneObtainPerLoss' /\ ObtainedWhenNeeded'
  BY <1>9 DEF LoggedIn, Hold, WithToken
<1>10. ASSUME NEW t \in Threads, LoginFails(t) PROVE OneObtainPerLoss' /\ ObtainedWhenNeeded'
  BY <1>10 DEF LoginFails
<1>11. ASSUME NEW t \in Threads, Send(t) PROVE OneObtainPerLoss' /\ ObtainedWhenNeeded'
  BY <1>11 DEF Send
<1>12. ASSUME NEW t \in Threads, NotSent(t) PROVE OneObtainPerLoss' /\ ObtainedWhenNeeded'
  BY <1>12 DEF NotSent
<1>13. ASSUME NEW t \in Threads, Answered(t) PROVE OneObtainPerLoss' /\ ObtainedWhenNeeded'
  BY <1>13 DEF Answered
<1>14. ASSUME NEW t \in Threads, Forbidden(t) PROVE OneObtainPerLoss' /\ ObtainedWhenNeeded'
  BY <1>14 DEF Forbidden
<1>15. ASSUME NEW t \in Threads, Invalidate(t) PROVE OneObtainPerLoss' /\ ObtainedWhenNeeded'
  BY <1>15 DEF Invalidate
<1>16. ASSUME NEW t \in Threads, Retry(t) PROVE OneObtainPerLoss' /\ ObtainedWhenNeeded'
  BY <1>16 DEF Retry
<1>17. CASE UNCHANGED cacheVars
  BY <1>17 DEF cacheVars
<1> QED
  BY <1>1, <1>2, <1>3, <1>4, <1>5, <1>6, <1>7, <1>8, <1>9,
     <1>10, <1>11, <1>12, <1>13, <1>14, <1>15, <1>16, <1>17 DEF Next, GetToken, Request

\* Every step keeps a refused credential from being presented again by the call
\* it was refused to.
LEMMA NextRetry ==
    TypeOK /\ RetryPresentsAnother /\ RefusedIsGone /\ [Next]_cacheVars
        => RetryPresentsAnother' /\ RefusedIsGone'
<1> SUFFICES ASSUME TypeOK, RetryPresentsAnother, RefusedIsGone, [Next]_cacheVars
             PROVE  RetryPresentsAnother' /\ RefusedIsGone'
  OBVIOUS
<1> USE DEF TypeOK, CallerType, Tokens, RetryPresentsAnother, RefusedIsGone, Fresh, Empty, AtRest
<1>1. CASE GoStale
  BY <1>1 DEF GoStale
<1>2. ASSUME NEW token \in live, Revoke(token) PROVE RetryPresentsAnother' /\ RefusedIsGone'
  BY <1>2 DEF Revoke
<1>3. ASSUME NEW t \in Threads, NEW retries \in BOOLEAN, Call(t, retries)
      PROVE RetryPresentsAnother' /\ RefusedIsGone'
  BY <1>3 DEF Call
<1>4. ASSUME NEW t \in Threads, Reuse(t) PROVE RetryPresentsAnother' /\ RefusedIsGone'
  BY <1>4 DEF Reuse, WithToken
<1>5. ASSUME NEW t \in Threads, ObtainByLogin(t) PROVE RetryPresentsAnother' /\ RefusedIsGone'
  BY <1>5 DEF ObtainByLogin
<1>6. ASSUME NEW t \in Threads, ObtainByRenewal(t) PROVE RetryPresentsAnother' /\ RefusedIsGone'
  BY <1>6 DEF ObtainByRenewal
<1>7. ASSUME NEW t \in Threads, Renewed(t) PROVE RetryPresentsAnother' /\ RefusedIsGone'
  BY <1>7 DEF Renewed, Hold, WithToken
<1>8. ASSUME NEW t \in Threads, RenewalFails(t) PROVE RetryPresentsAnother' /\ RefusedIsGone'
  BY <1>8 DEF RenewalFails
<1>9. ASSUME NEW t \in Threads, LoggedIn(t) PROVE RetryPresentsAnother' /\ RefusedIsGone'
  BY <1>9 DEF LoggedIn, Hold, WithToken
<1>10. ASSUME NEW t \in Threads, LoginFails(t) PROVE RetryPresentsAnother' /\ RefusedIsGone'
  BY <1>10 DEF LoginFails
<1>11. ASSUME NEW t \in Threads, Send(t) PROVE RetryPresentsAnother' /\ RefusedIsGone'
  BY <1>11 DEF Send
<1>12. ASSUME NEW t \in Threads, NotSent(t) PROVE RetryPresentsAnother' /\ RefusedIsGone'
  BY <1>12 DEF NotSent
<1>13. ASSUME NEW t \in Threads, Answered(t) PROVE RetryPresentsAnother' /\ RefusedIsGone'
  BY <1>13 DEF Answered
<1>14. ASSUME NEW t \in Threads, Forbidden(t) PROVE RetryPresentsAnother' /\ RefusedIsGone'
  BY <1>14 DEF Forbidden
<1>15. ASSUME NEW t \in Threads, Invalidate(t) PROVE RetryPresentsAnother' /\ RefusedIsGone'
  BY <1>15 DEF Invalidate
<1>16. ASSUME NEW t \in Threads, Retry(t) PROVE RetryPresentsAnother' /\ RefusedIsGone'
  BY <1>16 DEF Retry
<1>17. CASE UNCHANGED cacheVars
  BY <1>17 DEF cacheVars
<1> QED
  BY <1>1, <1>2, <1>3, <1>4, <1>5, <1>6, <1>7, <1>8, <1>9,
     <1>10, <1>11, <1>12, <1>13, <1>14, <1>15, <1>16, <1>17 DEF Next, GetToken, Request

\* The invariant holds in every reachable state.
THEOREM Invariance == Spec => []IndInv
<1>1. IndInv /\ [Next]_cacheVars => IndInv'
  BY NextTypeOK, NextSingleFlight, NextObtained, NextRetry DEF IndInv
<1> QED
  BY InitInv, <1>1, PTL DEF Spec

\* Cached::get: whoever is obtaining holds the mutex, so N threads that arrive
\* at an expired credential together make one request and not N.
THEOREM OneThreadObtains == Spec => []SingleFlight
<1>1. IndInv => SingleFlight
  BY DEF IndInv
<1> QED
  BY Invariance, <1>1, PTL

\* Cached::get: every credential obtained answers a loss no other one answered.
THEOREM NoRedundantObtain == Spec => []OneObtainPerLoss
<1>1. IndInv => OneObtainPerLoss
  BY DEF IndInv
<1> QED
  BY Invariance, <1>1, PTL

\* Vault::get, Consul::get: the retry presents another credential than the one
\* refused, whatever the other threads obtain, renew and invalidate meanwhile.
THEOREM RetriesPresentAnother == Spec => []RetryPresentsAnother
<1>1. IndInv => RetryPresentsAnother
  BY DEF IndInv
<1> QED
  BY Invariance, <1>1, PTL
=============================================================================
