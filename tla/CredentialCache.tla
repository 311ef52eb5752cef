-------------------------- MODULE CredentialCache --------------------------
(***************************************************************************)
(* A store's cached credential and the threads that call the store with it *)
(* (Cached<T> in credential.rs; token, get and get_once in Vault, Consul   *)
(* and Firestore).                                                         *)
(*                                                                         *)
(* A credential is the number of the login that issued it, 0 for none.     *)
(* What `near expiry' means is the clock's business: a held credential     *)
(* goes stale at any moment, and the store may stop accepting any of them  *)
(* at any moment, sooner or later than the clock said it would.            *)
(*                                                                         *)
(* `lost' and `obtained' count, for the properties, how often the cache    *)
(* stopped holding a usable credential and how often it was given one.     *)
(***************************************************************************)
EXTENDS Naturals

CONSTANTS
    Threads,      \* the threads calling this store through one source
    NoThread,     \* who holds the mutex when nobody does
    MaxIssued,    \* bound: logins the store answers
    MaxLost,      \* bound: a held credential goes stale up to this many losses
    MaxCalls      \* bound: calls the threads make between them

ASSUME NoThreadIsNone == NoThread \notin Threads

ASSUME CacheBounds == MaxIssued \in Nat /\ MaxLost \in Nat /\ MaxCalls \in Nat

VARIABLES
    lock,         \* who holds the mutex while obtaining, or NoThread
    held,         \* the credential the cache holds, and whether it is stale
    issued,       \* how many the store has issued
    live,         \* those it accepts
    caller,       \* what each thread is doing, and with which credential
    calls,        \* calls made
    lost, obtained

cacheVars == <<lock, held, issued, live, caller, calls, lost, obtained>>

Empty == [token |-> 0, stale |-> FALSE]
Fresh == held.token # 0 /\ ~held.stale
AtRest == [at |-> "idle", token |-> 0, refused |-> 0, retries |-> FALSE]

Init ==
    /\ lock = NoThread
    /\ held = Empty
    /\ issued = 0
    /\ live = {}
    /\ caller = [t \in Threads |-> AtRest]
    /\ calls = 0
    /\ lost = 0
    /\ obtained = 0

-----------------------------------------------------------------------------
(* A call, up to the credential it presents.                               *)

\* A thread calls the store, on a path that trades a refused credential for a
\* new one and tries again (get) or on one that does not (post).
Call(t, retries) ==
    /\ caller[t].at = "idle" /\ calls < MaxCalls
    /\ caller' = [caller EXCEPT ![t] = [at |-> "wanting", token |-> 0, refused |-> 0,
                                        retries |-> retries]]
    /\ calls' = calls + 1
    /\ UNCHANGED <<lock, held, issued, live, lost, obtained>>

WithToken(t, token) ==
    [at |-> "ready", token |-> token, refused |-> caller[t].refused,
     retries |-> caller[t].retries]

\* Cached::get finds a credential that is not near its expiry.
Reuse(t) ==
    /\ caller[t].at = "wanting" /\ lock = NoThread /\ Fresh
    /\ caller' = [caller EXCEPT ![t] = WithToken(t, held.token)]
    /\ UNCHANGED <<lock, held, issued, live, calls, lost, obtained>>

\* Mutant: the mutex is let go before obtaining.
ObtainByLoginUnlocked(t) ==
    /\ caller[t].at = "wanting" /\ lock = NoThread /\ ~Fresh
    /\ caller' = [caller EXCEPT ![t].at = "loggingIn"]
    /\ UNCHANGED <<lock, held, issued, live, calls, lost, obtained>>

\* Mutant: whether what is held will do is not looked at again under the mutex.
ObtainByLoginUnchecked(t) ==
    /\ caller[t].at = "wanting" /\ lock = NoThread
    /\ lock' = t
    /\ caller' = [caller EXCEPT ![t].at = "loggingIn"]
    /\ UNCHANGED <<held, issued, live, calls, lost, obtained>>

\* Cached::get finds none, or a stale one, and obtains another without letting
\* go of the mutex: by a login...
ObtainByLogin(t) ==
    /\ caller[t].at = "wanting" /\ lock = NoThread /\ ~Fresh
    /\ lock' = t
    /\ caller' = [caller EXCEPT ![t].at = "loggingIn"]
    /\ UNCHANGED <<held, issued, live, calls, lost, obtained>>

\* ...or by extending the one it has, if it has one and Vault called it
\* renewable.  Consul and Firestore never do.
ObtainByRenewal(t) ==
    /\ caller[t].at = "wanting" /\ lock = NoThread /\ ~Fresh
    /\ held.token # 0
    /\ lock' = t
    /\ caller' = [caller EXCEPT ![t].at = "renewing"]
    /\ UNCHANGED <<held, issued, live, calls, lost, obtained>>

\* What is obtained is held, and presented by the thread that obtained it.
Hold(t, token) ==
    /\ held' = [token |-> token, stale |-> FALSE]
    /\ lock' = NoThread
    /\ caller' = [caller EXCEPT ![t] = WithToken(t, token)]
    /\ obtained' = obtained + 1
    /\ UNCHANGED <<calls, lost>>

\* Vault::renew: the same credential, with a new lease.
Renewed(t) ==
    /\ caller[t].at = "renewing" /\ held.token \in live
    /\ Hold(t, held.token)
    /\ UNCHANGED <<issued, live>>

\* A renewal that fails, for any reason, falls through to a login.
RenewalFails(t) ==
    /\ caller[t].at = "renewing"
    /\ caller' = [caller EXCEPT ![t].at = "loggingIn"]
    /\ UNCHANGED <<lock, held, issued, live, calls, lost, obtained>>

LoggedIn(t) ==
    /\ caller[t].at = "loggingIn" /\ issued < MaxIssued
    /\ issued' = issued + 1
    /\ live' = live \cup {issued + 1}
    /\ Hold(t, issued + 1)

\* A login that fails fails the call, and what was held survives it.
LoginFails(t) ==
    /\ caller[t].at = "loggingIn"
    /\ lock' = NoThread
    /\ caller' = [caller EXCEPT ![t] = AtRest]
    /\ UNCHANGED <<held, issued, live, calls, lost, obtained>>

-----------------------------------------------------------------------------
(* The request, and what the store makes of the credential.                *)

Send(t) ==
    /\ caller[t].at = "ready"
    /\ caller' = [caller EXCEPT ![t].at = "presenting"]
    /\ UNCHANGED <<lock, held, issued, live, calls, lost, obtained>>

\* A request that never leaves: no client can be built for it, or the ceiling
\* on requests has no room for it or for its retry.
NotSent(t) ==
    /\ caller[t].at \in {"ready", "retrying"}
    /\ caller' = [caller EXCEPT ![t] = AtRest]
    /\ UNCHANGED <<lock, held, issued, live, calls, lost, obtained>>

\* The store answers, or fails for some other reason: the call is over.
Answered(t) ==
    /\ caller[t].at = "presenting"
    /\ caller' = [caller EXCEPT ![t] = AtRest]
    /\ UNCHANGED <<lock, held, issued, live, calls, lost, obtained>>

\* The store refuses the credential, because it no longer accepts it or because
\* its policy does not allow the read.  The first refusal of a call that can
\* log in again is not its last word.
Forbidden(t) ==
    /\ caller[t].at = "presenting"
    /\ caller' = [caller EXCEPT ![t] =
                    IF caller[t].retries /\ caller[t].refused = 0
                    THEN [at |-> "refused", token |-> caller[t].token,
                          refused |-> caller[t].token, retries |-> TRUE]
                    ELSE AtRest]
    /\ UNCHANGED <<lock, held, issued, live, calls, lost, obtained>>

\* Mutant: the cache is not told of the refusal.
InvalidateNothing(t) ==
    /\ caller[t].at = "refused" /\ lock = NoThread
    /\ caller' = [caller EXCEPT ![t].at = "retrying"]
    /\ UNCHANGED <<lock, held, issued, live, calls, lost, obtained>>

\* Cached::invalidate: whatever is held by now is dropped.
Invalidate(t) ==
    /\ caller[t].at = "refused" /\ lock = NoThread
    /\ held' = Empty
    /\ lost' = IF Fresh THEN lost + 1 ELSE lost
    /\ caller' = [caller EXCEPT ![t].at = "retrying"]
    /\ UNCHANGED <<lock, issued, live, calls, obtained>>

\* The one retry.
Retry(t) ==
    /\ caller[t].at = "retrying"
    /\ caller' = [caller EXCEPT ![t].at = "wanting"]
    /\ UNCHANGED <<lock, held, issued, live, calls, lost, obtained>>

-----------------------------------------------------------------------------
(* The clock, and the store.                                               *)

\* The held credential comes within the margin of its expiry.
GoStale ==
    /\ Fresh /\ lost < MaxLost
    /\ held' = [held EXCEPT !.stale = TRUE]
    /\ lost' = lost + 1
    /\ UNCHANGED <<lock, issued, live, caller, calls, obtained>>

\* The store revokes a credential, or its lease was shorter than it said.
Revoke(token) ==
    /\ token \in live
    /\ live' = live \ {token}
    /\ UNCHANGED <<lock, held, issued, caller, calls, lost, obtained>>

GetToken(t) ==
    \/ Reuse(t) \/ ObtainByLogin(t) \/ ObtainByRenewal(t)
    \/ Renewed(t) \/ RenewalFails(t) \/ LoggedIn(t) \/ LoginFails(t)

Request(t) ==
    Send(t) \/ NotSent(t) \/ Answered(t) \/ Forbidden(t) \/ Invalidate(t) \/ Retry(t)

Next ==
    \/ GoStale
    \/ \E token \in live : Revoke(token)
    \/ \E t \in Threads :
          \/ \E retries \in BOOLEAN : Call(t, retries)
          \/ GetToken(t)
          \/ Request(t)

Spec == Init /\ [][Next]_cacheVars

-----------------------------------------------------------------------------
(* Properties.                                                             *)

Tokens == 0 .. issued

CallerType ==
    [at : {"idle", "wanting", "renewing", "loggingIn", "ready", "presenting", "refused",
           "retrying"},
     token : Tokens, refused : Tokens, retries : BOOLEAN]

\* Every variable holds a value of its type.
TypeOK ==
    /\ lock \in Threads \cup {NoThread}
    /\ issued \in Nat /\ calls \in Nat /\ lost \in Nat /\ obtained \in Nat
    /\ held \in [token : Tokens, stale : BOOLEAN]
    /\ live \subseteq Tokens \ {0}
    /\ caller \in [Threads -> CallerType]

Obtaining(t) == caller[t].at \in {"renewing", "loggingIn"}

\* However many threads arrive together at a credential that has run out, one
\* of them is obtaining another and the rest wait for it.
\* (Cached: `one request rather than N'.)
SingleFlight ==
    \A t \in Threads : Obtaining(t) <=> lock = t

\* Every credential obtained answers a different loss: threads that queued
\* behind an obtain use what it brought instead of obtaining again.
OneObtainPerLoss ==
    obtained + (IF Fresh THEN 0 ELSE 1) = lost + 1

\* The retry after a refusal never presents the credential that was refused:
\* no renewal in flight puts it back between the invalidation and the retry.
\* (Vault::get, Consul::get: `One fresh login and one retry'.)
RetryPresentsAnother ==
    \A t \in Threads :
        caller[t].at \in {"ready", "presenting"} => caller[t].token # caller[t].refused

\* What makes the three inductive: nothing usable is held while another is being
\* obtained, a thread that presents presents something, and what was refused is
\* not held by the time its thread asks again.
ObtainedWhenNeeded ==
    lock # NoThread => ~Fresh

RefusedIsGone ==
    \A t \in Threads :
        /\ caller[t].at \in {"ready", "presenting"} => caller[t].token # 0
        /\ caller[t].at \in {"retrying", "wanting", "renewing", "loggingIn"}
              /\ caller[t].refused # 0 => held.token # caller[t].refused

IndInv ==
    /\ TypeOK /\ SingleFlight /\ OneObtainPerLoss
    /\ RetryPresentsAnother /\ ObtainedWhenNeeded /\ RefusedIsGone
=============================================================================
