----------------------------- MODULE Calls_proofs -----------------------------
(***************************************************************************)
(* That the calls of a Vault source give back every permit they take, on   *)
(* every path, and exceed their ceiling by no more than the one login that *)
(* may be under way, for any number of threads and calls, any ceiling.     *)
(*                                                                         *)
(* A permit is one of two things: that of a call that holds one, and that  *)
(* of a renewal on top of it (Admitted, Renewing); every action changes    *)
(* each of the two sets by its own thread at most.  That one login is      *)
(* under way at most is CredentialCache's SingleFlight, which is proved    *)
(* in CredentialCache_proofs and instantiated here, as the cache is; that  *)
(* a policy without a ceiling counts nothing is InFlight_proofs', likewise *)
(* instantiated.                                                           *)
(***************************************************************************)
EXTENDS Calls, FiniteSetTheorems, TLAPS

Proved == INSTANCE CredentialCache_proofs

-----------------------------------------------------------------------------
(* The credential, under its two names.                                    *)

LEMMA SameCache ==
    /\ Vault!Cache!TypeOK = Proved!TypeOK /\ Vault!Cache!SingleFlight = Proved!SingleFlight
    /\ (Vault!Cache!TypeOK)' = (Proved!TypeOK)'
    /\ (Vault!Cache!SingleFlight)' = (Proved!SingleFlight)'
  BY DEF Vault!Cache!TypeOK, Proved!TypeOK, Vault!Cache!Tokens, Proved!Tokens,
     Vault!Cache!CallerType, Proved!CallerType, Vault!Cache!SingleFlight, Proved!SingleFlight,
     Vault!Cache!Obtaining, Proved!Obtaining

LEMMA SameSteps == Vault!Cache!Next = Proved!Next
  BY DEF Vault!Cache!Next, Proved!Next, Vault!Cache!GoStale, Proved!GoStale, Vault!Cache!Fresh,
    Proved!Fresh,
     Vault!Cache!Revoke, Proved!Revoke, Vault!Cache!Call, Proved!Call,
     Vault!Cache!GetToken, Proved!GetToken, Vault!Cache!Reuse, Proved!Reuse,
     Vault!Cache!WithToken, Proved!WithToken, Vault!Cache!ObtainByLogin, Proved!ObtainByLogin,
     Vault!Cache!ObtainByRenewal, Proved!ObtainByRenewal, Vault!Cache!Renewed, Proved!Renewed,
     Vault!Cache!Hold, Proved!Hold, Vault!Cache!RenewalFails, Proved!RenewalFails,
     Vault!Cache!LoggedIn, Proved!LoggedIn, Vault!Cache!LoginFails, Proved!LoginFails,
     Vault!Cache!Request, Proved!Request, Vault!Cache!Send, Proved!Send,
     Vault!Cache!NotSent, Proved!NotSent, Vault!Cache!Answered, Proved!Answered,
     Vault!Cache!Forbidden, Proved!Forbidden, Vault!Cache!Invalidate, Proved!Invalidate,
     Vault!Cache!Retry, Proved!Retry, Vault!Cache!AtRest, Proved!AtRest, Vault!Cache!Empty,
       Proved!Empty

\* Every call is a call of the cache's, and takes no step that the cache does not.
LEMMA StepOfCache == Vault!Next => Vault!Cache!Next
  BY DEF Vault!Next, Vault!Work, Vault!BeginRead, Vault!BeginPost, Vault!TokenHeld,
    Vault!BeginRenewal, Vault!EndRenewal, Vault!BeginLogin,
     Vault!EndLogin, Vault!SendRequest, Vault!SendFails, Vault!EndRequest, Vault!DropToken,
       Vault!RetryRead, Vault!RetryRefused,
     Vault!Cache!Next, Vault!Cache!GetToken, Vault!Cache!Request

\* What CredentialCache_proofs shows of a step of the cache.
LEMMA CacheKeeps ==
    Vault!Bounds /\ Vault!Cache!TypeOK /\ Vault!Cache!SingleFlight /\ Vault!Next
        => (Vault!Cache!TypeOK)' /\ (Vault!Cache!SingleFlight)'
<1> SUFFICES ASSUME Vault!Bounds, Vault!Cache!TypeOK, Vault!Cache!SingleFlight, Vault!Next
             PROVE  (Vault!Cache!TypeOK)' /\ (Vault!Cache!SingleFlight)'
  OBVIOUS
<1>1. Proved!NoThreadIsNone /\ Proved!CacheBounds
  BY DEF Vault!Bounds, Proved!NoThreadIsNone, Proved!CacheBounds
<1>2. Proved!Next
  BY StepOfCache, SameSteps
<1> QED
  BY <1>1, <1>2, Proved!NextTypeOK, Proved!NextSingleFlight, SameCache

-----------------------------------------------------------------------------
(* The permits.                                                            *)

Change(before, after) == (IF after THEN 1 ELSE 0) - (IF before THEN 1 ELSE 0)

\* A set that at most t joins or leaves.
LEMMA OneMember ==
    ASSUME NEW S, IsFiniteSet(S), NEW T, NEW t, T \ {t} = S \ {t}
    PROVE  /\ IsFiniteSet(T) /\ Cardinality(S) \in Nat /\ Cardinality(T) \in Nat
           /\ Cardinality(T) = Cardinality(S) + Change(t \in S, t \in T)
<1>1. Cardinality(S) \in Nat
  BY FS_CardinalityType
<1>2. CASE (t \in S) = (t \in T)
  BY <1>1, <1>2 DEF Change
<1>3. CASE t \in S /\ t \notin T
  <2>1. T = S \ {t}
    BY <1>3
  <2> QED
    BY <1>1, <1>3, <2>1, FS_RemoveElement, FS_CardinalityType DEF Change
<1>4. CASE t \notin S /\ t \in T
  <2>1. T = S \cup {t}
    BY <1>4
  <2> QED
    BY <1>1, <1>4, <2>1, FS_AddElement, FS_CardinalityType DEF Change
<1> QED
  BY <1>2, <1>3, <1>4

\* Two sets that share nothing.
LEMMA Apart ==
    ASSUME NEW S, IsFiniteSet(S), NEW T, IsFiniteSet(T), S \cap T = {}
    PROVE  /\ IsFiniteSet(S \cup T)
           /\ Cardinality(S \cup T) = Cardinality(S) + Cardinality(T)
<1>1. Cardinality(S \cap T) = 0
  BY FS_EmptySet
<1>2. Cardinality(S) \in Nat /\ Cardinality(T) \in Nat
  BY FS_CardinalityType
<1>3. IsFiniteSet(S \cup T)
  BY FS_Union
<1>4. Cardinality(S \cup T) = Cardinality(S) + Cardinality(T) - Cardinality(S \cap T)
  BY FS_Union, Zenon
<1> QED
  BY <1>1, <1>2, <1>3, <1>4

\* Counting means the same there as here.
LEMMA SameCounting ==
    /\ \A S : Vault!IsFiniteSet(S) = IsFiniteSet(S)
    /\ \A S : Vault!Cardinality(S) = Cardinality(S)
<1>1. \A S : Vault!IsFiniteSet(S) = IsFiniteSet(S)
  BY DEF Vault!IsFiniteSet, IsFiniteSet
<1>2. \A S : Vault!Cardinality(S) = Cardinality(S)
  BY DEF Vault!Cardinality, Cardinality
<1> QED
  BY <1>1, <1>2

\* The callers of any kind are finitely many.
LEMMA VaultCallersAreFinite ==
    ASSUME Vault!Bounds
    PROVE  /\ \A stages : IsFiniteSet(Vault!At(stages)) /\ Cardinality(Vault!At(stages)) \in Nat
           /\ IsFiniteSet(Vault!Admitted) /\ IsFiniteSet(Vault!Renewing)
  BY SameCounting, FS_Subset, FS_CardinalityType DEF Vault!Bounds, Vault!At, Vault!Admitted,
    Vault!Renewing

\* A step of one caller, by which the permits out change as what it holds does.
LEMMA OneCaller ==
    ASSUME Vault!Bounds, Vault!IndInv, (Vault!Cache!TypeOK)', (Vault!Cache!SingleFlight)',
      NEW t \in Threads,
           \A s \in Threads \ {t} : caller'[s] = caller[s],
           permits' = permits + Change(t \in Vault!Admitted, t \in Vault!Admitted')
                              + Change(t \in Vault!Renewing, t \in Vault!Renewing'),
           permits' > permits => permits < VaultLimit /\ permits' = permits + 1,
           caller'[t].at \in {"refused", "retrying"} => caller'[t].retries
    PROVE  Vault!IndInv'
<1>1. Vault!Admitted' \ {t} = Vault!Admitted \ {t} /\ Vault!Renewing' \ {t} = Vault!Renewing \ {t}
  BY DEF Vault!Admitted, Vault!Renewing, Vault!At, Vault!Reads, Vault!IsRead
<1>2. /\ Cardinality(Vault!Admitted) \in Nat /\ Cardinality(Vault!Admitted') \in Nat
      /\ Cardinality(Vault!Admitted') = Cardinality(Vault!Admitted)
            + Change(t \in Vault!Admitted, t \in Vault!Admitted')
  BY <1>1, VaultCallersAreFinite, OneMember
<1>3. /\ Cardinality(Vault!Renewing) \in Nat /\ Cardinality(Vault!Renewing') \in Nat
      /\ Cardinality(Vault!Renewing') = Cardinality(Vault!Renewing)
            + Change(t \in Vault!Renewing, t \in Vault!Renewing')
  BY <1>1, VaultCallersAreFinite, OneMember
<1>4. permits' = Cardinality(Vault!Admitted') + Cardinality(Vault!Renewing')
  BY SameCounting, <1>2, <1>3 DEF Vault!IndInv, Change
<1>5. permits' <= VaultLimit
  BY <1>2, <1>3, <1>4 DEF Vault!IndInv, Vault!Bounds
<1>6. Vault!At({"refused", "retrying"})' \subseteq Vault!Reads'
  BY DEF Vault!IndInv, Vault!At, Vault!Reads, Vault!IsRead
<1> QED
  BY SameCounting, <1>2, <1>3, <1>4, <1>5, <1>6 DEF Vault!IndInv, Vault!TypeOK

\* A source nobody has called has every permit.
LEMMA VaultInit == Vault!Bounds /\ Vault!Init => Vault!IndInv
<1> SUFFICES ASSUME Vault!Bounds, Vault!Init PROVE Vault!IndInv
  OBVIOUS
<1>1. Vault!Cache!TypeOK /\ Vault!Cache!SingleFlight
  BY DEF Vault!Bounds, Vault!Init, Vault!Cache!Init, Vault!Cache!Empty, Vault!Cache!AtRest,
    Vault!Cache!TypeOK, Vault!Cache!CallerType,
     Vault!Cache!Tokens, Vault!Cache!SingleFlight, Vault!Cache!Obtaining
<1>2. Vault!Admitted = {} /\ Vault!Renewing = {} /\ Vault!At({"refused", "retrying"}) = {}
  BY DEF Vault!Init, Vault!Cache!Init, Vault!Cache!AtRest, Vault!Admitted, Vault!Renewing,
    Vault!At
<1> QED
  BY SameCounting, <1>1, <1>2, FS_EmptySet DEF Vault!Bounds, Vault!Init, Vault!IndInv,
    Vault!TypeOK

\* Every step of a call takes or gives back what the call holds more or less after it.
LEMMA VaultNext == Vault!Bounds /\ Vault!IndInv /\ [Vault!Next]_(Vault!vars) => Vault!IndInv'
<1> SUFFICES ASSUME Vault!Bounds, Vault!IndInv, [Vault!Next]_(Vault!vars) PROVE Vault!IndInv'
  OBVIOUS
<1>a. caller \in [Threads -> Vault!Cache!CallerType] /\ permits \in Nat
  BY DEF Vault!IndInv, Vault!TypeOK, Vault!Cache!TypeOK
<1>b. Vault!Next => (Vault!Cache!TypeOK)' /\ (Vault!Cache!SingleFlight)'
  BY CacheKeeps DEF Vault!IndInv, Vault!TypeOK
<1> USE DEF Vault!Cache!CallerType, Vault!Admitted, Vault!Renewing, Vault!At, Vault!Reads,
      Vault!IsRead, Change, Vault!Admit, Vault!Release,
        Vault!NoPermit
<1>1. ASSUME NEW t \in Threads, Vault!BeginRead(t) PROVE Vault!IndInv'
  <2>1. \A s \in Threads \ {t} : caller'[s] = caller[s]
    BY <1>1, <1>a DEF Vault!BeginRead, Vault!Cache!Call
  <2>2. /\ permits' = permits + Change(t \in Vault!Admitted, t \in Vault!Admitted')
                              + Change(t \in Vault!Renewing, t \in Vault!Renewing')
        /\ permits' > permits => permits < VaultLimit /\ permits' = permits + 1
        /\ caller'[t].at \in {"refused", "retrying"} => caller'[t].retries
    BY <1>1, <1>a DEF Vault!BeginRead, Vault!Cache!Call
  <2> QED
    BY <1>1, <1>b, <2>1, <2>2, OneCaller DEF Vault!Next, Vault!Work
<1>2. ASSUME NEW t \in Threads, Vault!BeginPost(t) PROVE Vault!IndInv'
  <2>1. \A s \in Threads \ {t} : caller'[s] = caller[s]
    BY <1>2, <1>a DEF Vault!BeginPost, Vault!Cache!Call
  <2>2. /\ permits' = permits + Change(t \in Vault!Admitted, t \in Vault!Admitted')
                              + Change(t \in Vault!Renewing, t \in Vault!Renewing')
        /\ permits' > permits => permits < VaultLimit /\ permits' = permits + 1
        /\ caller'[t].at \in {"refused", "retrying"} => caller'[t].retries
    BY <1>2, <1>a DEF Vault!BeginPost, Vault!Cache!Call
  <2> QED
    BY <1>2, <1>b, <2>1, <2>2, OneCaller DEF Vault!Next, Vault!Work
<1>3. ASSUME NEW t \in Threads, Vault!TokenHeld(t) PROVE Vault!IndInv'
  <2>1. \A s \in Threads \ {t} : caller'[s] = caller[s]
    BY <1>3, <1>a DEF Vault!TokenHeld, Vault!Cache!Reuse, Vault!Cache!WithToken
  <2>2. /\ permits' = permits + Change(t \in Vault!Admitted, t \in Vault!Admitted')
                              + Change(t \in Vault!Renewing, t \in Vault!Renewing')
        /\ permits' > permits => permits < VaultLimit /\ permits' = permits + 1
        /\ caller'[t].at \in {"refused", "retrying"} => caller'[t].retries
    BY <1>3, <1>a DEF Vault!TokenHeld, Vault!Cache!Reuse, Vault!Cache!WithToken
  <2> QED
    BY <1>3, <1>b, <2>1, <2>2, OneCaller DEF Vault!Next, Vault!Work
<1>4. ASSUME NEW t \in Threads, Vault!BeginRenewal(t) PROVE Vault!IndInv'
  <2>1. \A s \in Threads \ {t} : caller'[s] = caller[s]
    BY <1>4, <1>a DEF Vault!BeginRenewal, Vault!Cache!ObtainByRenewal
  <2>2. /\ permits' = permits + Change(t \in Vault!Admitted, t \in Vault!Admitted')
                              + Change(t \in Vault!Renewing, t \in Vault!Renewing')
        /\ permits' > permits => permits < VaultLimit /\ permits' = permits + 1
        /\ caller'[t].at \in {"refused", "retrying"} => caller'[t].retries
    BY <1>4, <1>a DEF Vault!BeginRenewal, Vault!Cache!ObtainByRenewal
  <2> QED
    BY <1>4, <1>b, <2>1, <2>2, OneCaller DEF Vault!Next, Vault!Work
<1>5. ASSUME NEW t \in Threads, Vault!EndRenewal(t) PROVE Vault!IndInv'
  <2>1. \A s \in Threads \ {t} : caller'[s] = caller[s]
    BY <1>5, <1>a DEF Vault!EndRenewal, Vault!Cache!Renewed, Vault!Cache!RenewalFails,
      Vault!Cache!Hold, Vault!Cache!WithToken
  <2>2. /\ permits' = permits + Change(t \in Vault!Admitted, t \in Vault!Admitted')
                              + Change(t \in Vault!Renewing, t \in Vault!Renewing')
        /\ permits' > permits => permits < VaultLimit /\ permits' = permits + 1
        /\ caller'[t].at \in {"refused", "retrying"} => caller'[t].retries
    BY <1>5, <1>a DEF Vault!EndRenewal, Vault!Cache!Renewed, Vault!Cache!RenewalFails,
      Vault!Cache!Hold, Vault!Cache!WithToken
  <2> QED
    BY <1>5, <1>b, <2>1, <2>2, OneCaller DEF Vault!Next, Vault!Work
<1>6. ASSUME NEW t \in Threads, Vault!BeginLogin(t) PROVE Vault!IndInv'
  <2>1. \A s \in Threads \ {t} : caller'[s] = caller[s]
    BY <1>6, <1>a DEF Vault!BeginLogin, Vault!Cache!ObtainByLogin
  <2>2. /\ permits' = permits + Change(t \in Vault!Admitted, t \in Vault!Admitted')
                              + Change(t \in Vault!Renewing, t \in Vault!Renewing')
        /\ permits' > permits => permits < VaultLimit /\ permits' = permits + 1
        /\ caller'[t].at \in {"refused", "retrying"} => caller'[t].retries
    BY <1>6, <1>a DEF Vault!BeginLogin, Vault!Cache!ObtainByLogin
  <2> QED
    BY <1>6, <1>b, <2>1, <2>2, OneCaller DEF Vault!Next, Vault!Work
<1>7. ASSUME NEW t \in Threads, Vault!EndLogin(t) PROVE Vault!IndInv'
  <2>1. \A s \in Threads \ {t} : caller'[s] = caller[s]
    BY <1>7, <1>a DEF Vault!EndLogin, Vault!Cache!LoggedIn, Vault!Cache!LoginFails,
      Vault!Cache!Hold, Vault!Cache!WithToken, Vault!Cache!AtRest
  <2>2. /\ permits' = permits + Change(t \in Vault!Admitted, t \in Vault!Admitted')
                              + Change(t \in Vault!Renewing, t \in Vault!Renewing')
        /\ permits' > permits => permits < VaultLimit /\ permits' = permits + 1
        /\ caller'[t].at \in {"refused", "retrying"} => caller'[t].retries
    BY <1>7, <1>a DEF Vault!EndLogin, Vault!Cache!LoggedIn, Vault!Cache!LoginFails,
      Vault!Cache!Hold, Vault!Cache!WithToken, Vault!Cache!AtRest
  <2> QED
    BY <1>7, <1>b, <2>1, <2>2, OneCaller DEF Vault!Next, Vault!Work
<1>8. ASSUME NEW t \in Threads, Vault!SendRequest(t) PROVE Vault!IndInv'
  <2>1. \A s \in Threads \ {t} : caller'[s] = caller[s]
    BY <1>8, <1>a DEF Vault!SendRequest, Vault!Cache!Send
  <2>2. /\ permits' = permits + Change(t \in Vault!Admitted, t \in Vault!Admitted')
                              + Change(t \in Vault!Renewing, t \in Vault!Renewing')
        /\ permits' > permits => permits < VaultLimit /\ permits' = permits + 1
        /\ caller'[t].at \in {"refused", "retrying"} => caller'[t].retries
    BY <1>8, <1>a DEF Vault!SendRequest, Vault!Cache!Send
  <2> QED
    BY <1>8, <1>b, <2>1, <2>2, OneCaller DEF Vault!Next, Vault!Work
<1>9. ASSUME NEW t \in Threads, Vault!SendFails(t) PROVE Vault!IndInv'
  <2>1. \A s \in Threads \ {t} : caller'[s] = caller[s]
    BY <1>9, <1>a DEF Vault!SendFails, Vault!Cache!NotSent, Vault!Cache!AtRest
  <2>2. /\ permits' = permits + Change(t \in Vault!Admitted, t \in Vault!Admitted')
                              + Change(t \in Vault!Renewing, t \in Vault!Renewing')
        /\ permits' > permits => permits < VaultLimit /\ permits' = permits + 1
        /\ caller'[t].at \in {"refused", "retrying"} => caller'[t].retries
    BY <1>9, <1>a DEF Vault!SendFails, Vault!Cache!NotSent, Vault!Cache!AtRest
  <2> QED
    BY <1>9, <1>b, <2>1, <2>2, OneCaller DEF Vault!Next, Vault!Work
<1>10. ASSUME NEW t \in Threads, Vault!EndRequest(t) PROVE Vault!IndInv'
  <2>1. \A s \in Threads \ {t} : caller'[s] = caller[s]
    BY <1>10, <1>a DEF Vault!EndRequest, Vault!Cache!Answered, Vault!Cache!Forbidden,
      Vault!Cache!AtRest
  <2>2. /\ permits' = permits + Change(t \in Vault!Admitted, t \in Vault!Admitted')
                              + Change(t \in Vault!Renewing, t \in Vault!Renewing')
        /\ permits' > permits => permits < VaultLimit /\ permits' = permits + 1
        /\ caller'[t].at \in {"refused", "retrying"} => caller'[t].retries
    BY <1>10, <1>a DEF Vault!EndRequest, Vault!Cache!Answered, Vault!Cache!Forbidden,
      Vault!Cache!AtRest, Vault!IndInv
  <2> QED
    BY <1>10, <1>b, <2>1, <2>2, OneCaller DEF Vault!Next, Vault!Work
<1>11. ASSUME NEW t \in Threads, Vault!DropToken(t) PROVE Vault!IndInv'
  <2>1. \A s \in Threads \ {t} : caller'[s] = caller[s]
    BY <1>11, <1>a DEF Vault!DropToken, Vault!Cache!Invalidate
  <2>2. /\ permits' = permits + Change(t \in Vault!Admitted, t \in Vault!Admitted')
                              + Change(t \in Vault!Renewing, t \in Vault!Renewing')
        /\ permits' > permits => permits < VaultLimit /\ permits' = permits + 1
        /\ caller'[t].at \in {"refused", "retrying"} => caller'[t].retries
    BY <1>11, <1>a DEF Vault!DropToken, Vault!Cache!Invalidate, Vault!IndInv
  <2> QED
    BY <1>11, <1>b, <2>1, <2>2, OneCaller DEF Vault!Next, Vault!Work
<1>12. ASSUME NEW t \in Threads, Vault!RetryRead(t) PROVE Vault!IndInv'
  <2>1. \A s \in Threads \ {t} : caller'[s] = caller[s]
    BY <1>12, <1>a DEF Vault!RetryRead, Vault!Cache!Retry
  <2>2. /\ permits' = permits + Change(t \in Vault!Admitted, t \in Vault!Admitted')
                              + Change(t \in Vault!Renewing, t \in Vault!Renewing')
        /\ permits' > permits => permits < VaultLimit /\ permits' = permits + 1
        /\ caller'[t].at \in {"refused", "retrying"} => caller'[t].retries
    BY <1>12, <1>a DEF Vault!RetryRead, Vault!Cache!Retry, Vault!IndInv
  <2> QED
    BY <1>12, <1>b, <2>1, <2>2, OneCaller DEF Vault!Next, Vault!Work
<1>13. ASSUME NEW t \in Threads, Vault!RetryRefused(t) PROVE Vault!IndInv'
  <2>1. \A s \in Threads \ {t} : caller'[s] = caller[s]
    BY <1>13, <1>a DEF Vault!RetryRefused, Vault!Cache!NotSent, Vault!Cache!AtRest
  <2>2. /\ permits' = permits + Change(t \in Vault!Admitted, t \in Vault!Admitted')
                              + Change(t \in Vault!Renewing, t \in Vault!Renewing')
        /\ permits' > permits => permits < VaultLimit /\ permits' = permits + 1
        /\ caller'[t].at \in {"refused", "retrying"} => caller'[t].retries
    BY <1>13, <1>a DEF Vault!RetryRefused, Vault!Cache!NotSent, Vault!Cache!AtRest, Vault!IndInv
  <2> QED
    BY <1>13, <1>b, <2>1, <2>2, OneCaller DEF Vault!Next, Vault!Work
<1>14. ASSUME Vault!Next, UNCHANGED <<caller, permits>> PROVE Vault!IndInv'
  BY <1>14, <1>b DEF Vault!IndInv, Vault!TypeOK
<1>15. CASE UNCHANGED Vault!vars
  BY <1>15 DEF Vault!vars, Vault!cacheVars, Vault!IndInv, Vault!TypeOK, Vault!Cache!TypeOK,
    Vault!Cache!Tokens, Vault!Cache!SingleFlight,
     Vault!Cache!Obtaining
<1>16. CASE Vault!Cache!GoStale /\ Vault!NoPermit
  BY <1>14, <1>16 DEF Vault!Next, Vault!Cache!GoStale
<1>17. ASSUME NEW token \in live, Vault!Cache!Revoke(token), Vault!NoPermit PROVE Vault!IndInv'
  BY <1>14, <1>17 DEF Vault!Next, Vault!Cache!Revoke
<1> QED
  BY <1>1, <1>2, <1>3, <1>4, <1>5, <1>6, <1>7, <1>8, <1>9, <1>10, <1>11, <1>12, <1>13,
     <1>14, <1>15, <1>16, <1>17
     DEF Vault!Next, Vault!Work

\* What the permits count for, and the one login the credential's mutex lets happen.
LEMMA Balance == Vault!Bounds /\ Vault!IndInv => Vault!PermitsBalance
<1> SUFFICES ASSUME Vault!Bounds, Vault!IndInv PROVE Vault!PermitsBalance
  OBVIOUS
<1> DEFINE WithPermit == Vault!At({"wanting", "renewing", "loggingIn", "ready"}) \cap Vault!Reads
           Presenting == Vault!At({"presenting"})
           LoggingIn == Vault!At({"loggingIn"})
<1>1. /\ IsFiniteSet(WithPermit) /\ IsFiniteSet(Presenting) /\ IsFiniteSet(Vault!Renewing)
      /\ IsFiniteSet(LoggingIn)
  BY VaultCallersAreFinite, FS_Subset DEF Vault!Admitted, Vault!Renewing
<1>2. /\ Cardinality(WithPermit) \in Nat /\ Cardinality(Presenting) \in Nat
      /\ Cardinality(Vault!Renewing) \in Nat /\ Cardinality(LoggingIn) \in Nat
  BY <1>1, FS_CardinalityType
<1>3. Cardinality(Vault!Admitted) = Cardinality(WithPermit) + Cardinality(Presenting)
  <2>1. WithPermit \cap Presenting = {}
    BY DEF Vault!At
  <2> QED
    BY <1>1, <2>1, Apart DEF Vault!Admitted
<1>4. Cardinality(LoggingIn) <= 1
  <2>1. LoggingIn \subseteq {lock}
    BY DEF Vault!IndInv, Vault!Cache!SingleFlight, Vault!Cache!Obtaining, Vault!At
  <2>2. IsFiniteSet({lock}) /\ Cardinality({lock}) = 1
    BY FS_Singleton
  <2>3. Cardinality(LoggingIn) <= Cardinality({lock})
    BY <2>1, <2>2, FS_Subset
  <2> QED
    BY <2>2, <2>3
<1>5. Cardinality(Vault!RequestsOut) <=
          Cardinality(Presenting) + Cardinality(Vault!Renewing) + Cardinality(LoggingIn)
  <2>1. Vault!RequestsOut = (Presenting \cup Vault!Renewing) \cup LoggingIn
    BY DEF Vault!RequestsOut, Vault!Renewing, Vault!At
  <2>2. Presenting \cap Vault!Renewing = {}
          /\ (Presenting \cup Vault!Renewing) \cap LoggingIn = {}
    BY DEF Vault!Renewing, Vault!At
  <2>3. /\ IsFiniteSet(Presenting \cup Vault!Renewing)
        /\ Cardinality(Presenting \cup Vault!Renewing)
               = Cardinality(Presenting) + Cardinality(Vault!Renewing)
    BY <1>1, <2>2, Apart
  <2>4. Cardinality(Vault!RequestsOut)
            = Cardinality(Presenting \cup Vault!Renewing) + Cardinality(LoggingIn)
    BY <1>1, <2>1, <2>2, <2>3, Apart
  <2> QED
    BY <1>2, <2>3, <2>4
<1>6. Cardinality(Vault!RequestsOut) \in Nat
  BY VaultCallersAreFinite DEF Vault!RequestsOut
<1> QED
  BY SameCounting, <1>2, <1>3, <1>4, <1>5, <1>6 DEF Vault!IndInv, Vault!PermitsBalance,
    Vault!Bounds, Vault!Renewing

-----------------------------------------------------------------------------
(* The policy without a ceiling.                                           *)

FreeProved == INSTANCE InFlight_proofs WITH
    Callers <- FreeCallers, Limit <- 0, ZeroIsUnbounded <- TRUE,
    in_flight <- free_in_flight, thread <- free_thread

\* It keeps the loop's invariant, in which nobody who is counted has a permit.
LEMMA NothingIsCounted ==
    Free!Spec => [](Free!CountIsExact /\ Free!UncountedIffUnbounded)
<1>1. FreeProved!CallersAreFinite /\ FreeProved!LimitIsNatural
  BY Instances DEF FreeProved!CallersAreFinite, FreeProved!LimitIsNatural,
     FreeProved!IsFiniteSet, IsFiniteSet
<1>2. FreeProved!Spec => []FreeProved!IndInv
  BY <1>1, FreeProved!Invariance
<1>3. Free!Init => FreeProved!Init
  BY DEF Free!Init, FreeProved!Init, Free!Out, FreeProved!Out
<1>4. [Free!Next]_(Free!vars) => [FreeProved!Next]_(FreeProved!vars)
  BY DEF Free!Next, FreeProved!Next, Free!vars, FreeProved!vars, Free!Out, FreeProved!Out,
     Free!Unbounded, FreeProved!Unbounded, Free!AdmitUncounted, FreeProved!AdmitUncounted,
     Free!Load, FreeProved!Load, Free!TurnedAway, FreeProved!TurnedAway,
     Free!Exchange, FreeProved!Exchange, Free!ExchangeFails, FreeProved!ExchangeFails,
     Free!Drop, FreeProved!Drop
<1>5. FreeProved!IndInv => Free!CountIsExact /\ Free!UncountedIffUnbounded
  BY DEF FreeProved!IndInv, FreeProved!CountIsExact, Free!CountIsExact,
     FreeProved!UncountedIffUnbounded, Free!UncountedIffUnbounded,
     FreeProved!Unbounded, Free!Unbounded, FreeProved!Holding, Free!Holding,
     FreeProved!Cardinality, Free!Cardinality
<1> QED
  BY <1>2, <1>3, <1>4, <1>5, PTL DEF Free!Spec, FreeProved!Spec

\* The permits that are out are those of the calls that hold one, on every path, and
\* the requests exceed the ceiling by one login at most (get, post_authenticated, renew,
\* login); a permit of a policy without a ceiling counts for nothing
\* (StoreRuntimePolicy::admit).
THEOREM PermitsAreGivenBack == Free!Spec /\ Vault!Spec => []PermitsBalance
<1>1. Vault!Bounds
  BY Instances
<1>2. Vault!Init => Vault!IndInv
  BY <1>1, VaultInit
<1>3. Vault!IndInv /\ [Vault!Next]_(Vault!vars) => Vault!IndInv'
  BY <1>1, VaultNext
<1>4. Vault!IndInv => Vault!PermitsBalance
  BY <1>1, Balance
<1>5. Vault!Spec => []Vault!PermitsBalance
  BY <1>2, <1>3, <1>4, PTL DEF Vault!Spec
<1> QED
  BY <1>5, NothingIsCounted, PTL DEF PermitsBalance
=============================================================================
