----------------------------- MODULE VaultCalls -----------------------------
(***************************************************************************)
(* The calls one Vault source makes: its reads (get), its authenticated    *)
(* posts (leases renewed and revoked, transit), the credential they share  *)
(* and the ceiling on requests they share too.                             *)
(*                                                                         *)
(* The credential is CredentialCache, instantiated; the ceiling is one of  *)
(* Permits, a permit being asked for and given or refused in one instant.  *)
(* What is added here is when each call takes a permit: a read before the  *)
(* credential, a post after it, a token renewal for itself on top of the   *)
(* one its call may hold, and a login never.                               *)
(***************************************************************************)
EXTENDS Naturals, FiniteSets

CONSTANTS
    Threads, NoThread, MaxIssued, MaxLost, MaxCalls,
    Limit         \* concurrency.limit(): at least one, as zero is no ceiling

Bounds ==
    /\ Limit \in Nat \ {0}
    /\ IsFiniteSet(Threads) /\ NoThread \notin Threads
    /\ MaxIssued \in Nat /\ MaxLost \in Nat /\ MaxCalls \in Nat

VARIABLES
    lock, held, issued, live, caller, calls, lost, obtained,
    permits       \* how many permits are out, of the source's in_flight

cacheVars == <<lock, held, issued, live, caller, calls, lost, obtained>>
vars == <<cacheVars, permits>>

Cache == INSTANCE CredentialCache

Init ==
    /\ Cache!Init
    /\ permits = 0

Admit == permits < Limit /\ permits' = permits + 1
Release == permits' = permits - 1
NoPermit == UNCHANGED permits

\* A read is the call that trades a refused token for a new one.
IsRead(t) == caller[t].retries

-----------------------------------------------------------------------------
(* The calls.                                                              *)

\* get: a read with no room ends there and then.
BeginRead(t) == Cache!Call(t, TRUE) /\ Admit

\* post_authenticated, a lease's renew and revoke: the token comes first.
BeginPost(t) == Cache!Call(t, FALSE) /\ NoPermit

\* Vault::token, when there is one that will do.
TokenHeld(t) == Cache!Reuse(t) /\ NoPermit

\* Vault::renew is a post, and wants a permit of its own...
BeginRenewal(t) == Cache!ObtainByRenewal(t) /\ Admit

EndRenewal(t) == (Cache!Renewed(t) \/ Cache!RenewalFails(t)) /\ Release

\* Mutant: a renewal that finds no room waits for some.
BeginLoginWhenNothingToRenew(t) ==
    /\ held.token = 0
    /\ Cache!ObtainByLogin(t) /\ NoPermit

\* ...without which it fails like any renewal, and the token is logged in for.
\* Vault::login asks for no permit.
BeginLogin(t) == Cache!ObtainByLogin(t) /\ NoPermit

\* Mutant: a read whose login fails keeps its permit.
EndLoginLeaking(t) ==
    (Cache!LoggedIn(t) \/ Cache!LoginFails(t)) /\ NoPermit

EndLogin(t) ==
    \/ Cache!LoggedIn(t) /\ NoPermit
    \/ Cache!LoginFails(t) /\ IF IsRead(t) THEN Release ELSE NoPermit

\* A read already has its permit; a post asks for it now.
SendRequest(t) ==
    /\ Cache!Send(t)
    /\ IF IsRead(t) THEN NoPermit ELSE Admit

\* A post with no room, or a client that cannot be built, for which a read gives
\* its permit back.
SendFails(t) ==
    /\ caller[t].at = "ready"
    /\ Cache!NotSent(t)
    /\ IF IsRead(t) THEN Release ELSE NoPermit

\* The end of a request returns its permit, before a refused token is dropped.
EndRequest(t) == (Cache!Answered(t) \/ Cache!Forbidden(t)) /\ Release

DropToken(t) == Cache!Invalidate(t) /\ NoPermit

\* The retry asks again, and may find no room where there was some.
RetryRead(t) == Cache!Retry(t) /\ Admit

RetryRefused(t) ==
    /\ caller[t].at = "retrying" /\ permits >= Limit
    /\ Cache!NotSent(t) /\ NoPermit

Work(t) ==
    \/ TokenHeld(t) \/ BeginRenewal(t) \/ EndRenewal(t) \/ BeginLogin(t) \/ EndLogin(t)
    \/ SendRequest(t) \/ SendFails(t) \/ EndRequest(t)
    \/ DropToken(t) \/ RetryRead(t) \/ RetryRefused(t)

Next ==
    \/ Cache!GoStale /\ NoPermit
    \/ \E token \in live : Cache!Revoke(token) /\ NoPermit
    \/ \E t \in Threads : BeginRead(t) \/ BeginPost(t) \/ Work(t)

Spec == Init /\ [][Next]_vars

\* A thread that can go on does, and every request comes back: the HTTP client
\* has a deadline.  Nobody is obliged to call.
Fairness == \A t \in Threads : WF_vars(Work(t))

FairSpec == Spec /\ Fairness

-----------------------------------------------------------------------------
(* Properties.                                                             *)

At(stages) == {t \in Threads : caller[t].at \in stages}
Reads == {t \in Threads : IsRead(t)}

\* Every variable holds a value of its type.
TypeOK == Cache!TypeOK /\ permits \in Nat

RequestsOut == At({"presenting", "renewing", "loggingIn"})

\* The permits that are out are those of the reads under way, of the posts that
\* have been sent and of the renewals, and never more than the ceiling: no path
\* through a refusal, a failed login or a retry leaks one or returns it twice.
\* Logins take no permit, but the credential's mutex lets one happen at a time,
\* so that the requests out exceed the ceiling by one at most.
PermitsBalance ==
    /\ permits = Cardinality(At({"wanting", "renewing", "loggingIn", "ready"}) \cap Reads)
                   + Cardinality(At({"presenting"})) + Cardinality(At({"renewing"}))
    /\ permits <= Limit
    /\ Cardinality(RequestsOut) <= Limit + 1

\* `A ceiling on how many requests one source has out at once', among which the
\* docs name the auth refresh.
RequestsWithinCeiling == Cardinality(RequestsOut) <= Limit

\* Every call ends, whatever the tokens, refusals and ceiling: a thread that
\* waits for the mutex with a permit in hand never waits for one that waits for
\* a permit, as a permit is refused and never waited for.
CallsEnd ==
    \A t \in Threads : caller[t].at # "idle" ~> caller[t].at = "idle"

\* Whose permits are out: a call that holds one, and a renewal, which has one more.
Admitted ==
    (At({"wanting", "renewing", "loggingIn", "ready"}) \cap Reads) \cup At({"presenting"})
Renewing == At({"renewing"})

IndInv ==
    /\ TypeOK /\ Cache!SingleFlight
    /\ permits = Cardinality(Admitted) + Cardinality(Renewing)
    /\ permits <= Limit
    /\ At({"refused", "retrying"}) \subseteq Reads
=============================================================================
