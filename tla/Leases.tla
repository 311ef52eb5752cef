-------------------------------- MODULE Leases --------------------------------
(***************************************************************************)
(* Dynamic secrets.  Every read of a dynamic engine of Vault mints a       *)
(* credential, and the answer says under which lease; the lease a source   *)
(* hands over with the document is what its credential is renewed,         *)
(* replaced and revoked by.  What is renewed when is decided by the engine *)
(* that the program loads its configuration with, outside of this          *)
(* repository: here it may ask at any time for a lease that says it is     *)
(* renewable, one call after the other.                                    *)
(*                                                                         *)
(* There are two clocks: Vault's, which the model counts, and the          *)
(* program's, which is off by `skew'.  Durations are the same on both.     *)
(***************************************************************************)
EXTENDS Integers, Sequences

CONSTANTS
    Durations,  \* the lease_durations that Vault may grant; zero is for ever
    Lifetimes,  \* how long the certificates of a PKI engine are good for
    Skews,      \* how far the program's clock may be ahead of Vault's
    MaxTime,    \* bound: when the model's clock stops
    MaxIssued,  \* bound: how many credentials are minted
    MaxRenewals \* bound: how often Vault extends a lease

Bounds ==
    /\ Durations \subseteq Nat /\ Lifetimes \subseteq Nat \ {0} /\ Skews \subseteq Int
    /\ MaxTime \in Nat /\ MaxIssued \in Nat /\ MaxRenewals \in Nat

Never == MaxTime + 100
NoLease == 0

VARIABLES
    now,      \* Vault's clock
    skew,     \* what the program's clock adds to it
    several,  \* whether the source was given a list of paths
    minted,   \* the credentials, in order: what Vault knows of each
    at,       \* what the source is doing
    token,    \* whether the session's token is good: "good", "revoked"
    answer,   \* the answer on its way
    held,     \* the lease the engine holds: which, since when, until when
    handed,   \* the credentials whose lease was handed over
    lost,     \* the credentials an answer about which was lost
    renewals  \* how often a lease was extended

clocks == <<now, skew>>
vars == <<clocks, several, minted, at, token, answer, held, handed, lost, renewals>>

NoAnswer == [credential |-> 0, duration |-> 0, expiration |-> Never, sent |-> 0]
NothingHeld == [credential |-> NoLease, since |-> 0, sent |-> 0, until |-> Never]

Init ==
    /\ now = 0 /\ skew \in Skews
    /\ several \in BOOLEAN
    /\ minted = << >>
    /\ at = "idle" /\ token = "good"
    /\ answer = NoAnswer
    /\ held = NothingHeld
    /\ handed = {} /\ lost = {} /\ renewals = 0

-----------------------------------------------------------------------------
(* Vault, and time.                                                        *)

Tick ==
    /\ now < MaxTime
    /\ now' = now + 1
    /\ UNCHANGED <<skew, several, minted, at, token, answer, held, handed, lost, renewals>>

RevokeToken ==
    /\ token' = "revoked"
    /\ UNCHANGED <<clocks, several, minted, at, answer, held, handed, lost, renewals>>

\* A credential of a database, leased or not; or a certificate, whose lease does not
\* renew.
Credentials ==
    [ends : {IF d = 0 THEN Never ELSE now + d : d \in Durations},
     expiration : {Never}, leased : BOOLEAN, renewable : BOOLEAN]
    \cup
    [ends : {IF d = 0 THEN Never ELSE now + d : d \in Durations},
     expiration : {now + l : l \in Lifetimes}, leased : BOOLEAN, renewable : {FALSE}]

Duration(end) == IF end = Never THEN 0 ELSE end - now

Mint ==
    /\ at = "reading" /\ token = "good" /\ Len(minted) < MaxIssued
    /\ \E credential \in Credentials :
          /\ minted' = Append(minted, credential)
          /\ answer' = [credential |-> Len(minted) + 1, duration |-> Duration(credential.ends),
                        expiration |-> credential.expiration, sent |-> now]
    /\ at' = "minted"
    /\ UNCHANGED <<clocks, several, token, held, handed, lost, renewals>>

\* What is granted may be less than what was asked for.  The answer is the lease at the
\* top level, and has no `data'.
Extend ==
    /\ at = "renewing" /\ token = "good"
    /\ now < minted[held.credential].ends /\ renewals < MaxRenewals
    /\ \E d \in Durations \ {0} :
          /\ minted' = [minted EXCEPT ![held.credential].ends = now + d]
          /\ answer' = [credential |-> held.credential, duration |-> d,
                        expiration |-> Never, sent |-> now]
    /\ renewals' = renewals + 1
    /\ at' = "extended"
    /\ UNCHANGED <<clocks, several, token, held, handed, lost>>

-----------------------------------------------------------------------------
(* The parser of both answers.                                             *)

\* certificate_life: the certificate's clock is the other machine's, and one that
\* looks over already is taken for skew.
CertificateLife(expiration) ==
    IF expiration = Never \/ expiration - (now + skew) <= 0
    THEN Never ELSE expiration - (now + skew)

\* Mutant: a certificate is not looked at when the lease says how long it is.
LeaseOfDurationFirst(body) ==
    LET ttl == IF body.duration = 0 THEN CertificateLife(body.expiration) ELSE body.duration
    IN  [credential |-> IF minted[body.credential].leased THEN body.credential ELSE NoLease,
         since |-> now, sent |-> body.sent,
         until |-> IF ttl = Never THEN Never ELSE now + ttl]

\* lease_of: whichever runs out first; zero is never.
LeaseOf(body) ==
    LET life == CertificateLife(body.expiration)
        ttl == IF body.duration = 0 THEN life
               ELSE IF life < body.duration THEN life ELSE body.duration
    IN  [credential |-> IF minted[body.credential].leased THEN body.credential ELSE NoLease,
         since |-> now, sent |-> body.sent,
         until |-> IF ttl = Never THEN Never ELSE now + ttl]

-----------------------------------------------------------------------------
(* The source.                                                             *)

\* A list of paths is refused before anything is asked for.
RefuseSeveral ==
    /\ at = "idle" /\ several
    /\ at' = "refused"
    /\ UNCHANGED <<clocks, several, minted, token, answer, held, handed, lost, renewals>>

\* Mutant: every path of a list is read.
FetchAny ==
    /\ at = "idle"
    /\ at' = "reading"
    /\ UNCHANGED <<clocks, several, minted, token, answer, held, handed, lost, renewals>>

Fetch ==
    /\ at = "idle" /\ ~several
    /\ at' = "reading"
    /\ UNCHANGED <<clocks, several, minted, token, answer, held, handed, lost, renewals>>

\* A read that is forbidden logs in again, and asks again.
Relogin ==
    /\ at = "reading" /\ token = "revoked"
    /\ token' = "good"
    /\ UNCHANGED <<clocks, several, minted, at, answer, held, handed, lost, renewals>>

\* A document with its lease, when there is one: fetch goes straight through read.
ReadAnswer ==
    /\ at = "minted"
    /\ held' = LeaseOf(answer)
    /\ handed' = handed \cup ({held'.credential} \ {NoLease})
    /\ at' = "idle"
    /\ answer' = NoAnswer
    /\ UNCHANGED <<clocks, several, minted, token, lost, renewals>>

Renew ==
    /\ at = "idle" /\ held.credential # NoLease /\ minted[held.credential].renewable
    /\ at' = "renewing"
    /\ UNCHANGED <<clocks, several, minted, token, answer, held, handed, lost, renewals>>

\* The next renewal is scheduled from what came back.
ReadRenewal ==
    /\ at = "extended"
    /\ held' = LeaseOf(answer)
    /\ at' = "idle"
    /\ answer' = NoAnswer
    /\ UNCHANGED <<clocks, several, minted, token, handed, lost, renewals>>

\* An answer that is lost, or that no parser reads.
Lose ==
    /\ at \in {"minted", "extended"}
    /\ lost' = lost \cup {answer.credential}
    /\ at' = "idle"
    /\ answer' = NoAnswer
    /\ UNCHANGED <<clocks, several, minted, token, held, handed, renewals>>

\* No answer, or a refusal: a post of a token that was revoked fails, and leaves the
\* session as it is.
FailCall ==
    /\ at \in {"reading", "renewing"}
    /\ at' = "idle"
    /\ UNCHANGED <<clocks, several, minted, token, answer, held, handed, lost, renewals>>

Revoke ==
    /\ at = "idle" /\ held.credential # NoLease /\ token = "good"
    /\ minted' = [minted EXCEPT ![held.credential].ends = now]
    /\ held' = NothingHeld
    /\ UNCHANGED <<clocks, several, at, token, answer, handed, lost, renewals>>

Next ==
    \/ Tick \/ RevokeToken \/ Mint \/ Extend
    \/ RefuseSeveral \/ Fetch \/ Relogin \/ ReadAnswer \/ Renew \/ ReadRenewal
    \/ Lose \/ FailCall \/ Revoke

Spec == Init /\ [][Next]_vars

-----------------------------------------------------------------------------
(* Properties.                                                             *)

\* Every variable holds a value of its type.
TypeOK ==
    /\ now \in 0 .. MaxTime /\ skew \in Skews /\ several \in BOOLEAN
    /\ at \in {"idle", "reading", "minted", "renewing", "extended", "refused"}
    /\ token \in {"good", "revoked"}
    /\ answer.credential \in 0 .. Len(minted) /\ held.credential \in 0 .. Len(minted)
    /\ handed \subseteq DOMAIN minted /\ lost \subseteq DOMAIN minted
    /\ renewals \in 0 .. MaxRenewals

Holding == held.credential # NoLease
Held == minted[held.credential]
Latency == held.since - held.sent

\* The lease that is held ends no later than Vault's, by more than its answer took; and
\* no later than its certificate, by more than the clocks differ, unless the certificate
\* looked over from here.
\* (`Whichever runs out first'; `a credential re-issued after its certificate stopped
\* verifying is an outage that looks like a network fault'; `the next renewal is
\* scheduled from what came back, never from what was requested'.)
HeldNoLongerThanItLives ==
    Holding /\ at # "extended" =>
        /\ Held.ends # Never /\ held.credential \notin lost =>
               held.until <= Held.ends + Latency
        /\ Held.expiration > held.since + skew /\ Held.expiration # Never =>
               held.until <= Held.expiration - skew

\* A lease that was just handed over is not over: whatever the clocks say, the next
\* credential is not asked for at once.
\* (`a zero TTL would schedule the next re-issue immediately, which is the fetch storm
\* this guard exists to prevent'.)
NothingIsReissuedAtOnce == Holding => held.until > held.since

\* A credential that Vault leased and whose answer arrived is one whose lease is, or
\* was, held; a list of paths mints none.
\* (`a credential nobody can renew or revoke is worse than one that was never read'.)
NoLeaseIsDropped ==
    /\ several => minted = << >>
    /\ \A c \in DOMAIN minted :
          minted[c].leased /\ c \notin lost /\ c # answer.credential => c \in handed

-----------------------------------------------------------------------------
(* What makes them inductive.                                              *)

UnderWay == at \in {"minted", "extended"}

\* What Vault knows of a credential: one with a certificate does not renew.
Known ==
    {c \in [ends : Int, expiration : Int, leased : BOOLEAN, renewable : BOOLEAN] :
        c.expiration # Never => ~c.renewable}

NumbersAreInOrder ==
    /\ now \in 0 .. MaxTime /\ skew \in Int
    /\ minted \in Seq(Known)
    /\ answer \in [credential : Nat, duration : Nat, expiration : Int, sent : Nat]
    /\ held \in [credential : Nat, since : Nat, sent : Nat, until : Int]
    /\ answer.credential \in {NoLease} \cup DOMAIN minted
    /\ held.credential \in {NoLease} \cup DOMAIN minted
    /\ held.since <= now

\* An answer under way is about the last credential, or extends the one that is held; it
\* says what Vault knew when it was sent.
AnswersAreTrue ==
    /\ UnderWay => answer.credential # NoLease
    /\ ~UnderWay => answer = NoAnswer
    /\ UnderWay =>
        LET c == minted[answer.credential] IN
        /\ c.ends # Never => answer.duration # 0 /\ c.ends = answer.sent + answer.duration
        /\ at = "minted" => answer.expiration = c.expiration
        /\ at = "extended" => answer.expiration = Never /\ c.expiration = Never
    /\ at \in {"renewing", "extended"} => Holding /\ Held.expiration = Never
    /\ at = "extended" => answer.credential = held.credential /\ answer.duration # 0

\* A lease that is held was handed over.
HeldIsHanded == Holding => Held.leased /\ held.credential \in handed

\* The certificate's part of HeldNoLongerThanItLives, which holds during a renewal too.
CertificateIsHeeded ==
    Holding /\ Held.expiration > held.since + skew /\ Held.expiration # Never =>
        held.until <= Held.expiration - skew

\* Nothing is read of a list of paths.
NothingIsReadOfSeveral == several => at \in {"idle", "refused"} /\ ~Holding

IndInv ==
    /\ NumbersAreInOrder /\ AnswersAreTrue /\ HeldIsHanded /\ CertificateIsHeeded
    /\ NothingIsReadOfSeveral
    /\ HeldNoLongerThanItLives /\ NothingIsReissuedAtOnce /\ NoLeaseIsDropped
=============================================================================
