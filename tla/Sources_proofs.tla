----------------------------- MODULE Sources_proofs -----------------------------
(***************************************************************************)
(* That a lease is over no later than what it is a lease of, and dropped   *)
(* by nobody; that a fetch is made with the options set last; that a fetch *)
(* of several keys leaves none out, reads one state of the store where     *)
(* that is promised, and folds what it read in the caller's order; and     *)
(* that the ciphertexts of a document, replaced one after another, read as *)
(* if all of them were opened at once.                                     *)
(*                                                                         *)
(* Of a lease, the invariant says what an answer under way knows: the      *)
(* duration that Vault granted and when, so that the lease read from it    *)
(* ends when Vault's does, later by what the answer took.                  *)
(***************************************************************************)
EXTENDS Sources, FiniteSetTheorems, WellFoundedInduction, SequenceTheorems, TLAPS

-----------------------------------------------------------------------------
(* Leases.                                                                 *)

LEMMA LeasesBounds ==
    /\ Durations \subseteq Nat /\ Lifetimes \subseteq Nat \ {0} /\ Skews \subseteq Int
    /\ MaxTime \in Nat /\ MaxMinted \in Nat /\ MaxRenewals \in Nat
  BY SourcesBounds DEF Leasing!Bounds

\* lease_of: a lease that is read ends after now, and no later than the duration and the
\* certificate say.
LEMMA LeaseIsShort ==
    ASSUME Leasing!NumbersAreInOrder,
           NEW body \in [credential : Nat, duration : Nat, expiration : Int, sent : Nat],
           body.credential \in DOMAIN minted
    PROVE  LET lease == Leasing!LeaseOf(body) IN
           /\ lease \in [credential : Nat, since : Nat, sent : Nat, until : Int]
           /\ lease.credential = IF minted[body.credential].leased THEN body.credential ELSE 0
           /\ lease.since = now /\ lease.sent = body.sent
           /\ lease.until > now
           /\ body.duration # 0 => lease.until <= now + body.duration
           /\ body.expiration > now + skew /\ body.expiration # Leasing!Never =>
                lease.until <= body.expiration - skew
<1> DEFINE life == Leasing!CertificateLife(body.expiration)
           ttl == IF body.duration = 0 THEN life
                  ELSE IF life < body.duration THEN life ELSE body.duration
           lease == Leasing!LeaseOf(body)
<1>1. now \in 0 .. MaxTime /\ skew \in Int /\ MaxTime \in Nat
  BY LeasesBounds DEF Leasing!NumbersAreInOrder
<1>2. Leasing!Never \in Nat /\ Leasing!Never > now
  BY <1>1 DEF Leasing!Never
<1>3. /\ life \in Int /\ life > 0
      /\ body.expiration > now + skew /\ body.expiration # Leasing!Never =>
             life = body.expiration - (now + skew)
  BY <1>1, <1>2 DEF Leasing!CertificateLife
<1>4. /\ ttl \in Int /\ ttl > 0
      /\ body.duration # 0 => ttl <= body.duration
      /\ ttl <= life
  BY <1>3
<1>5. lease = [credential |-> IF minted[body.credential].leased THEN body.credential ELSE 0,
               since |-> now, sent |-> body.sent,
               until |-> IF ttl = Leasing!Never THEN Leasing!Never ELSE now + ttl]
  BY DEF Leasing!LeaseOf, Leasing!NoLease
<1> HIDE DEF life, ttl, lease
<1> QED
  BY <1>1, <1>2, <1>3, <1>4, <1>5 DEF lease

LEMMA LeasesInit == Leasing!Init => Leasing!IndInv
<1> SUFFICES ASSUME Leasing!Init PROVE Leasing!IndInv
  OBVIOUS
<1> USE LeasesBounds
    DEF Leasing!Init, Leasing!NothingHeld, Leasing!NoAnswer, Leasing!NoLease, Leasing!Never,
        Leasing!Holding
<1>1. Leasing!NumbersAreInOrder
  BY DEF Leasing!NumbersAreInOrder
<1>2. Leasing!AnswersAreTrue
  BY DEF Leasing!AnswersAreTrue, Leasing!UnderWay
<1>3. Leasing!HeldIsHanded /\ Leasing!CertificateIsHeeded /\ Leasing!NothingIsReadOfSeveral
  BY DEF Leasing!HeldIsHanded, Leasing!CertificateIsHeeded, Leasing!NothingIsReadOfSeveral
<1>4. Leasing!HeldNoLongerThanItLives /\ Leasing!NothingIsReissuedAtOnce
  BY DEF Leasing!HeldNoLongerThanItLives, Leasing!NothingIsReissuedAtOnce
<1>5. Leasing!NoLeaseIsDropped
  BY DEF Leasing!NoLeaseIsDropped
<1> QED
  BY <1>1, <1>2, <1>3, <1>4, <1>5 DEF Leasing!IndInv

\* What is held is known to Vault.
LEMMA HeldIsKnown ==
    ASSUME Leasing!NumbersAreInOrder, Leasing!Holding
    PROVE  leaseHeld.credential \in DOMAIN minted /\ Leasing!Held \in Leasing!Known
<1>1. minted \in Seq(Leasing!Known) /\ leaseHeld.credential \in DOMAIN minted
  BY DEF Leasing!NumbersAreInOrder, Leasing!Holding, Leasing!NoLease
<1> QED
  BY <1>1 DEF Leasing!Held

\* Nothing changes but what the source is doing, its token, or the time.
LEMMA WaitingKeepsLeases ==
    ASSUME Leasing!IndInv, UNCHANGED <<skew, several, minted, handed, leaseHeld>>,
           now' \in 0 .. MaxTime, now' >= now,
           \/ leaseLost' = leaseLost /\ UNCHANGED <<leaseAt, answer>>
           \/ /\ leaseLost' = leaseLost /\ UNCHANGED answer
              /\ leaseAt \in {"idle", "reading", "renewing"}
              /\ leaseAt' \in {"idle", "reading", "refused"}
              /\ several => leaseAt' \in {"idle", "refused"}
           \/ /\ leaseLost' = leaseLost /\ UNCHANGED answer
              /\ leaseAt = "idle" /\ leaseAt' = "renewing"
              /\ Leasing!Holding /\ minted[leaseHeld.credential].renewable
           \/ /\ leaseAt \in {"minted", "extended"} /\ leaseAt' = "idle"
              /\ leaseLost' = leaseLost \cup {answer.credential}
              /\ answer' = Leasing!NoAnswer
    PROVE  Leasing!IndInv'
<1> USE LeasesBounds
    DEF Leasing!IndInv, Leasing!NoAnswer, Leasing!NoLease, Leasing!Holding, Leasing!Held
<1>1. Leasing!NumbersAreInOrder'
  BY DEF Leasing!NumbersAreInOrder, Leasing!Never
<1>2. Leasing!AnswersAreTrue'
  <2>1. Leasing!Holding /\ minted[leaseHeld.credential].renewable =>
            Leasing!Held.expiration = Leasing!Never
    BY HeldIsKnown DEF Leasing!Known
  <2>2. Leasing!Never' = Leasing!Never
    BY DEF Leasing!Never
  <2> QED
    BY <2>1, <2>2 DEF Leasing!AnswersAreTrue, Leasing!UnderWay
<1>3. Leasing!HeldIsHanded' /\ Leasing!NothingIsReissuedAtOnce'
  BY DEF Leasing!HeldIsHanded, Leasing!NothingIsReissuedAtOnce
<1>4. Leasing!CertificateIsHeeded'
  BY DEF Leasing!CertificateIsHeeded, Leasing!Never
<1>5. Leasing!NothingIsReadOfSeveral'
  BY DEF Leasing!NothingIsReadOfSeveral
<1>6. Leasing!HeldNoLongerThanItLives'
  BY DEF Leasing!HeldNoLongerThanItLives, Leasing!CertificateIsHeeded, Leasing!AnswersAreTrue,
     Leasing!Latency, Leasing!Never
<1>7. Leasing!NoLeaseIsDropped'
  BY DEF Leasing!NoLeaseIsDropped, Leasing!AnswersAreTrue, Leasing!UnderWay
<1> QED
  BY <1>1, <1>2, <1>3, <1>4, <1>5, <1>6, <1>7 DEF Leasing!IndInv

\* Every credential is one that Vault can know of, and its lease is as long as it says.
LEMMA MintedIsKnown ==
    ASSUME Leasing!NumbersAreInOrder, NEW credential \in Leasing!Credentials
    PROVE  /\ credential \in Leasing!Known
           /\ Leasing!Duration(credential.ends) \in Nat
           /\ credential.ends # Leasing!Never =>
                /\ Leasing!Duration(credential.ends) # 0
                /\ credential.ends = now + Leasing!Duration(credential.ends)
<1> DEFINE ends == {IF d = 0 THEN Leasing!Never ELSE now + d : d \in Durations}
<1>1. now \in Nat /\ Leasing!Never \in Nat
  BY LeasesBounds DEF Leasing!NumbersAreInOrder, Leasing!Never
<1>2. \A e \in ends : e \in Int /\ (e = Leasing!Never \/ e > now)
  BY <1>1, LeasesBounds
<1>3. \/ credential \in [ends : ends, expiration : {Leasing!Never}, leased : BOOLEAN,
                         renewable : BOOLEAN]
      \/ credential \in [ends : ends, expiration : {now + l : l \in Lifetimes},
                         leased : BOOLEAN, renewable : {FALSE}]
  BY DEF Leasing!Credentials
<1>4. {now + l : l \in Lifetimes} \subseteq Int
  BY <1>1, LeasesBounds
<1>5. credential.ends \in ends
  BY <1>3
<1> HIDE DEF ends
<1>6. credential.ends \in Int /\ (credential.ends = Leasing!Never \/ credential.ends > now)
  BY <1>2, <1>5
<1>7. credential \in Leasing!Known
  <2>1. CASE credential \in [ends : ends, expiration : {Leasing!Never}, leased : BOOLEAN,
                             renewable : BOOLEAN]
    BY <1>1, <1>2, <2>1 DEF Leasing!Known
  <2>2. CASE credential \in [ends : ends, expiration : {now + l : l \in Lifetimes},
                             leased : BOOLEAN, renewable : {FALSE}]
    BY <1>2, <1>4, <2>2 DEF Leasing!Known
  <2> QED
    BY <1>3, <2>1, <2>2
<1> QED
  BY <1>1, <1>6, <1>7 DEF Leasing!Duration

LEMMA MintKeepsLeases == ASSUME Leasing!IndInv, Leasing!Mint PROVE Leasing!IndInv'
<1> USE LeasesBounds
    DEF Leasing!IndInv, Leasing!NoLease, Leasing!Holding
<1>1. PICK credential \in Leasing!Credentials :
          /\ minted' = Append(minted, credential)
          /\ answer' = [credential |-> Len(minted) + 1,
                        duration |-> Leasing!Duration(credential.ends),
                        expiration |-> credential.expiration, sent |-> now]
  BY DEF Leasing!Mint
<1>2. /\ leaseAt = "reading" /\ leaseAt' = "minted"
      /\ UNCHANGED <<now, skew, several, token, leaseHeld, handed, leaseLost, renewals>>
  BY DEF Leasing!Mint, Leasing!clocks
<1>3. /\ now \in Nat /\ minted \in Seq(Leasing!Known) /\ Leasing!Never' = Leasing!Never
      /\ leaseHeld.credential \in {0} \cup DOMAIN minted
  BY DEF Leasing!NumbersAreInOrder, Leasing!Never
<1>4. /\ credential \in Leasing!Known /\ Leasing!Duration(credential.ends) \in Nat
      /\ credential.ends # Leasing!Never =>
           /\ Leasing!Duration(credential.ends) # 0
           /\ credential.ends = now + Leasing!Duration(credential.ends)
  BY MintedIsKnown
<1>5. /\ minted' \in Seq(Leasing!Known) /\ DOMAIN minted = 1 .. Len(minted)
      /\ DOMAIN minted' = 1 .. Len(minted) + 1 /\ Len(minted) \in Nat
      /\ \A c \in DOMAIN minted : minted'[c] = minted[c]
      /\ minted'[Len(minted) + 1] = credential
  BY <1>1, <1>3, <1>4
<1>6. /\ credential.expiration \in Int
      /\ answer'.credential = Len(minted) + 1
      /\ answer'.duration = Leasing!Duration(credential.ends)
      /\ answer'.expiration = credential.expiration /\ answer'.sent = now
  BY <1>1, <1>4 DEF Leasing!Known
<1>7. answer' \in [credential : Nat, duration : Nat, expiration : Int, sent : Nat]
  BY <1>1, <1>3, <1>4, <1>5, <1>6
<1>8. leaseHeld.credential # 0 => minted'[leaseHeld.credential] = minted[leaseHeld.credential]
  BY <1>3, <1>5
<1>9. Leasing!NumbersAreInOrder'
  <2>1. Leasing!Known' = Leasing!Known
    BY DEF Leasing!Known, Leasing!Never
  <2> QED
    BY <1>2, <1>3, <1>5, <1>6, <1>7, <2>1 DEF Leasing!NumbersAreInOrder
<1>10. Leasing!AnswersAreTrue'
  BY <1>2, <1>3, <1>4, <1>5, <1>6 DEF Leasing!AnswersAreTrue, Leasing!UnderWay
<1>11. Leasing!HeldIsHanded' /\ Leasing!NothingIsReissuedAtOnce'
  BY <1>2, <1>8 DEF Leasing!HeldIsHanded, Leasing!NothingIsReissuedAtOnce, Leasing!Held
<1>12. Leasing!CertificateIsHeeded'
  BY <1>2, <1>3, <1>8 DEF Leasing!CertificateIsHeeded, Leasing!Held
<1>13. Leasing!NothingIsReadOfSeveral'
  BY <1>2 DEF Leasing!NothingIsReadOfSeveral
<1>14. Leasing!HeldNoLongerThanItLives'
  BY <1>2, <1>3, <1>8 DEF Leasing!HeldNoLongerThanItLives, Leasing!Held, Leasing!Latency
<1>15. Leasing!NoLeaseIsDropped'
  <2>1. answer.credential = 0
    BY <1>2 DEF Leasing!AnswersAreTrue, Leasing!UnderWay, Leasing!NoAnswer
  <2> QED
    BY <1>2, <1>5, <1>6, <2>1 DEF Leasing!NoLeaseIsDropped, Leasing!NothingIsReadOfSeveral
<1> QED
  BY <1>9, <1>10, <1>11, <1>12, <1>13, <1>14, <1>15 DEF Leasing!IndInv

LEMMA ExtendKeepsLeases == ASSUME Leasing!IndInv, Leasing!Extend PROVE Leasing!IndInv'
<1> USE LeasesBounds
    DEF Leasing!IndInv, Leasing!NoLease, Leasing!Holding
<1> DEFINE c == leaseHeld.credential
<1>1. PICK d \in Durations \ {0} :
          /\ minted' = [minted EXCEPT ![c].ends = now + d]
          /\ answer' = [credential |-> c, duration |-> d,
                        expiration |-> Leasing!Never, sent |-> now]
  BY DEF Leasing!Extend
<1>2. /\ leaseAt = "renewing" /\ leaseAt' = "extended"
      /\ UNCHANGED <<now, skew, several, token, leaseHeld, handed, leaseLost>>
  BY DEF Leasing!Extend, Leasing!clocks
<1>3. /\ now \in Nat /\ minted \in Seq(Leasing!Known) /\ Leasing!Never' = Leasing!Never
      /\ Leasing!Never \in Nat
      /\ leaseHeld \in [credential : Nat, since : Nat, sent : Nat, until : Int]
  BY DEF Leasing!NumbersAreInOrder, Leasing!Never
<1>4. c # 0 /\ c \in DOMAIN minted /\ minted[c].expiration = Leasing!Never
  BY <1>2, HeldIsKnown DEF Leasing!AnswersAreTrue, Leasing!Held
<1>5. /\ DOMAIN minted' = DOMAIN minted /\ minted' \in Seq(Leasing!Known)
      /\ \A k \in DOMAIN minted :
            /\ minted'[k].expiration = minted[k].expiration
            /\ minted'[k].leased = minted[k].leased
      /\ minted'[c].ends = now + d
  <2> DEFINE more == [minted[c] EXCEPT !.ends = now + d]
  <2>1. minted' = [minted EXCEPT ![c] = more]
    BY <1>1
  <2>2. minted[c] \in Leasing!Known
    BY <1>3, <1>4
  <2>3. /\ more \in Leasing!Known /\ more.ends = now + d
        /\ more.expiration = minted[c].expiration /\ more.leased = minted[c].leased
    <3>1. now + d \in Int
      BY <1>1, <1>3
    <3> QED
      BY <2>2, <3>1 DEF Leasing!Known
  <2> HIDE DEF more
  <2> QED
    BY <1>3, <1>4, <2>1, <2>3
<1>6. answer' \in [credential : Nat, duration : Nat, expiration : Int, sent : Nat]
  BY <1>1, <1>3
<1>7. Leasing!NumbersAreInOrder'
  <2>1. Leasing!Known' = Leasing!Known
    BY DEF Leasing!Known, Leasing!Never
  <2> QED
    BY <1>1, <1>2, <1>3, <1>4, <1>5, <1>6, <2>1 DEF Leasing!NumbersAreInOrder
<1>8. Leasing!AnswersAreTrue'
  BY <1>1, <1>2, <1>3, <1>4, <1>5 DEF Leasing!AnswersAreTrue, Leasing!UnderWay, Leasing!Held
<1>9. Leasing!HeldIsHanded' /\ Leasing!NothingIsReissuedAtOnce'
  BY <1>2, <1>4, <1>5 DEF Leasing!HeldIsHanded, Leasing!NothingIsReissuedAtOnce, Leasing!Held
<1>10. Leasing!CertificateIsHeeded'
  BY <1>2, <1>3, <1>4, <1>5 DEF Leasing!CertificateIsHeeded, Leasing!Held
<1>11. Leasing!NothingIsReadOfSeveral'
  BY <1>2 DEF Leasing!NothingIsReadOfSeveral
<1>12. Leasing!HeldNoLongerThanItLives'
  BY <1>2 DEF Leasing!HeldNoLongerThanItLives
<1>13. Leasing!NoLeaseIsDropped'
  <2>1. answer.credential = 0 /\ answer'.credential = c
    BY <1>1, <1>2 DEF Leasing!AnswersAreTrue, Leasing!UnderWay, Leasing!NoAnswer
  <2> QED
    BY <1>2, <1>4, <1>5, <2>1
       DEF Leasing!NoLeaseIsDropped, Leasing!NothingIsReadOfSeveral, Leasing!HeldIsHanded
<1> QED
  BY <1>7, <1>8, <1>9, <1>10, <1>11, <1>12, <1>13 DEF Leasing!IndInv

\* The lease that is read is the credential's, and its answer is done with.
LEMMA ReadingKeepsLeases ==
    ASSUME Leasing!IndInv, Leasing!UnderWay,
           leaseHeld' = Leasing!LeaseOf(answer), leaseAt' = "idle",
           answer' = Leasing!NoAnswer,
           UNCHANGED <<now, skew, several, minted, leaseLost>>,
           \/ leaseAt = "minted" /\ handed' = handed \cup ({leaseHeld'.credential} \ {0})
           \/ leaseAt = "extended" /\ handed' = handed
    PROVE  Leasing!IndInv'
<1> USE LeasesBounds
    DEF Leasing!IndInv, Leasing!NoLease, Leasing!Holding, Leasing!Held
<1> DEFINE c == answer.credential
           lease == leaseHeld'
<1>1. /\ now \in Nat /\ skew \in Int /\ minted \in Seq(Leasing!Known)
      /\ Leasing!Never' = Leasing!Never /\ Leasing!Never \in Nat
      /\ answer \in [credential : Nat, duration : Nat, expiration : Int, sent : Nat]
  BY DEF Leasing!NumbersAreInOrder, Leasing!Never
<1>2. c \in DOMAIN minted /\ c # 0
  BY DEF Leasing!NumbersAreInOrder, Leasing!AnswersAreTrue
<1>3. /\ lease \in [credential : Nat, since : Nat, sent : Nat, until : Int]
      /\ lease.credential = IF minted[c].leased THEN c ELSE 0
      /\ lease.since = now /\ lease.sent = answer.sent
      /\ lease.until > now
      /\ answer.duration # 0 => lease.until <= now + answer.duration
      /\ answer.expiration > now + skew /\ answer.expiration # Leasing!Never =>
            lease.until <= answer.expiration - skew
  BY <1>1, <1>2, LeaseIsShort
<1>4. /\ minted[c].ends # Leasing!Never =>
             answer.duration # 0 /\ minted[c].ends = answer.sent + answer.duration
      /\ minted[c].expiration = answer.expiration
  BY DEF Leasing!AnswersAreTrue, Leasing!UnderWay
<1>5. lease.credential # 0 =>
          lease.credential = c /\ minted[c].leased
  BY <1>3
<1> HIDE DEF lease
<1>6. Leasing!NumbersAreInOrder'
  <2>1. Leasing!Known' = Leasing!Known
    BY <1>1 DEF Leasing!Known
  <2>2. lease.credential \in {0} \cup DOMAIN minted
    BY <1>2, <1>5
  <2> QED
    BY <1>1, <1>3, <2>1, <2>2 DEF Leasing!NumbersAreInOrder, Leasing!NoAnswer, lease
<1>7. Leasing!AnswersAreTrue'
  BY DEF Leasing!AnswersAreTrue, Leasing!UnderWay
<1>8. Leasing!HeldIsHanded'
  BY <1>5 DEF Leasing!HeldIsHanded, Leasing!AnswersAreTrue, lease
<1>9. Leasing!NothingIsReissuedAtOnce'
  BY <1>3 DEF Leasing!NothingIsReissuedAtOnce, lease
<1>10. Leasing!CertificateIsHeeded'
  BY <1>1, <1>3, <1>4, <1>5 DEF Leasing!CertificateIsHeeded, lease
<1>11. Leasing!NothingIsReadOfSeveral'
  BY DEF Leasing!NothingIsReadOfSeveral, Leasing!UnderWay
<1>12. Leasing!HeldNoLongerThanItLives'
  <2>1. lease.credential # 0 /\ minted[c].ends # Leasing!Never =>
            lease.until <= minted[c].ends + (lease.since - lease.sent)
    BY <1>1, <1>3, <1>4
  <2>2. lease.credential # 0 /\ minted[c].expiration > lease.since + skew
            /\ minted[c].expiration # Leasing!Never =>
            lease.until <= minted[c].expiration - skew
    BY <1>1, <1>3, <1>4
  <2> QED
    BY <1>1, <1>5, <2>1, <2>2 DEF Leasing!HeldNoLongerThanItLives, Leasing!Latency, lease
<1>13. Leasing!NoLeaseIsDropped'
  <2>1. minted[c].leased => c \in handed'
    BY <1>2, <1>3 DEF Leasing!AnswersAreTrue, Leasing!HeldIsHanded, lease
  <2> QED
    BY <2>1 DEF Leasing!NoLeaseIsDropped
<1> QED
  BY <1>6, <1>7, <1>8, <1>9, <1>10, <1>11, <1>12, <1>13 DEF Leasing!IndInv

LEMMA RevokeKeepsLeases == ASSUME Leasing!IndInv, Leasing!Revoke PROVE Leasing!IndInv'
<1> USE LeasesBounds
    DEF Leasing!IndInv, Leasing!NoLease, Leasing!Holding
<1> DEFINE c == leaseHeld.credential
<1>1. /\ leaseAt = "idle" /\ c # 0
      /\ minted' = [minted EXCEPT ![c].ends = now]
      /\ leaseHeld' = Leasing!NothingHeld
      /\ UNCHANGED <<now, skew, several, leaseAt, token, answer, handed, leaseLost>>
  BY DEF Leasing!Revoke, Leasing!clocks
<1>2. /\ now \in Nat /\ minted \in Seq(Leasing!Known) /\ Leasing!Never' = Leasing!Never
      /\ Leasing!Never \in Nat
  BY DEF Leasing!NumbersAreInOrder, Leasing!Never
<1>3. c \in DOMAIN minted /\ minted[c] \in Leasing!Known
  BY <1>1, HeldIsKnown DEF Leasing!Held
<1>4. /\ DOMAIN minted' = DOMAIN minted /\ minted' \in Seq(Leasing!Known)
      /\ \A k \in DOMAIN minted : minted'[k].leased = minted[k].leased
  <2> DEFINE less == [minted[c] EXCEPT !.ends = now]
  <2>1. minted' = [minted EXCEPT ![c] = less]
    BY <1>1
  <2>2. less \in Leasing!Known /\ less.leased = minted[c].leased
    BY <1>2, <1>3 DEF Leasing!Known
  <2> HIDE DEF less
  <2> QED
    BY <1>2, <1>3, <2>1, <2>2
<1>5. Leasing!NumbersAreInOrder'
  <2>1. Leasing!Known' = Leasing!Known
    BY <1>2 DEF Leasing!Known
  <2> QED
    BY <1>1, <1>2, <1>4, <2>1 DEF Leasing!NumbersAreInOrder, Leasing!NothingHeld
<1>6. Leasing!AnswersAreTrue'
  BY <1>1 DEF Leasing!AnswersAreTrue, Leasing!UnderWay, Leasing!NoAnswer
<1>7. ~Leasing!Holding'
  BY <1>1 DEF Leasing!NothingHeld
<1>8. /\ Leasing!HeldIsHanded' /\ Leasing!NothingIsReissuedAtOnce'
      /\ Leasing!CertificateIsHeeded' /\ Leasing!HeldNoLongerThanItLives'
  BY <1>7 DEF Leasing!HeldIsHanded, Leasing!NothingIsReissuedAtOnce,
     Leasing!CertificateIsHeeded, Leasing!HeldNoLongerThanItLives
<1>9. Leasing!NothingIsReadOfSeveral'
  BY <1>1, <1>7 DEF Leasing!NothingIsReadOfSeveral
<1>10. Leasing!NoLeaseIsDropped'
  BY <1>1, <1>4 DEF Leasing!NoLeaseIsDropped, Leasing!NothingIsReadOfSeveral
<1> QED
  BY <1>5, <1>6, <1>8, <1>9, <1>10 DEF Leasing!IndInv

LEMMA LeasesNext == Leasing!IndInv /\ [Leasing!Next]_(Leasing!vars) => Leasing!IndInv'
<1> SUFFICES ASSUME Leasing!IndInv, [Leasing!Next]_(Leasing!vars) PROVE Leasing!IndInv'
  OBVIOUS
<1> USE DEF Leasing!clocks
<1>1. now \in 0 .. MaxTime /\ MaxTime \in Nat
  BY LeasesBounds DEF Leasing!IndInv, Leasing!NumbersAreInOrder
<1>2. Leasing!IndInv
  OBVIOUS
<1>3. CASE Leasing!Tick
  BY <1>1, <1>2, <1>3, WaitingKeepsLeases DEF Leasing!Tick
<1>4. CASE Leasing!RevokeToken
  BY <1>1, <1>2, <1>4, WaitingKeepsLeases DEF Leasing!RevokeToken
<1>5. CASE Leasing!RefuseSeveral
  BY <1>1, <1>2, <1>5, WaitingKeepsLeases DEF Leasing!RefuseSeveral
<1>6. CASE Leasing!Fetch
  BY <1>1, <1>2, <1>6, WaitingKeepsLeases DEF Leasing!Fetch
<1>7. CASE Leasing!Relogin
  BY <1>1, <1>2, <1>7, WaitingKeepsLeases DEF Leasing!Relogin
<1>8. CASE Leasing!Renew
  BY <1>1, <1>2, <1>8, WaitingKeepsLeases DEF Leasing!Renew, Leasing!Holding
<1>9. CASE Leasing!Lose
  BY <1>1, <1>2, <1>9, WaitingKeepsLeases DEF Leasing!Lose
<1>10. CASE Leasing!FailCall
  BY <1>1, <1>2, <1>10, WaitingKeepsLeases DEF Leasing!FailCall
<1>11. CASE UNCHANGED Leasing!vars
  BY <1>1, <1>2, <1>11, WaitingKeepsLeases DEF Leasing!vars
<1>12. CASE Leasing!ReadAnswer
  BY <1>2, <1>12, ReadingKeepsLeases DEF Leasing!ReadAnswer, Leasing!UnderWay, Leasing!NoLease
<1>13. CASE Leasing!ReadRenewal
  BY <1>2, <1>13, ReadingKeepsLeases DEF Leasing!ReadRenewal, Leasing!UnderWay
<1> QED
  BY <1>2, <1>3, <1>4, <1>5, <1>6, <1>7, <1>8, <1>9, <1>10, <1>11, <1>12, <1>13,
     MintKeepsLeases, ExtendKeepsLeases, RevokeKeepsLeases DEF Leasing!Next

LEMMA LeasesAreKept == Leasing!Spec => []Leasing!IndInv
  BY LeasesInit, LeasesNext, PTL DEF Leasing!Spec

\* lease_of, certificate_life: a lease that is held ends no later than what it is a lease
\* of, by more than its answer took or the clocks differ, and is not over when it is
\* handed over.
THEOREM LeasesEndInTime == Leasing!Spec => []LeaseIsAsLongAsItLives
<1>1. Leasing!IndInv => LeaseIsAsLongAsItLives
  BY DEF Leasing!IndInv, LeaseIsAsLongAsItLives
<1> QED
  BY LeasesAreKept, <1>1, PTL

\* read, fetch, and the refusal of a list of paths: a credential that Vault leased and
\* whose answer arrived is one whose lease was handed over.
THEOREM LeasesAreHandedOver == Leasing!Spec => []NoLeaseIsDropped
<1>1. Leasing!IndInv => NoLeaseIsDropped
  BY DEF Leasing!IndInv, NoLeaseIsDropped
<1> QED
  BY LeasesAreKept, <1>1, PTL

-----------------------------------------------------------------------------
(* Options.                                                                *)

LEMMA OptionsBounds ==
    /\ Configs \subseteq Options!TlsConfigs /\ IsFiniteSet(Formats)
    /\ Default \notin Deadlines /\ "none" \notin Deadlines \cup Formats \cup {Default}
    /\ MaxRotations \in Nat
    /\ Options!NoTls \notin Options!TlsConfigs
    /\ Options!Empty \in Options!TlsConfigs
<1>1. IsFiniteSet(Formats)
  BY SourcesBounds DEF Options!Bounds, Options!IsFiniteSet, IsFiniteSet
<1>2. Options!NoTls \notin Options!TlsConfigs /\ Options!Empty \in Options!TlsConfigs
  BY DEF Options!NoTls, Options!TlsConfigs, Options!None, Options!Empty
<1> QED
  BY <1>1, <1>2, SourcesBounds DEF Options!Bounds, Options!None

AllTls == Options!TlsConfigs \cup {Options!NoTls}
AllDeadlines == Deadlines \cup {Default, "none"}

\* A client that is built of a configuration is the one it asks for, or refused.
LEMMA ClientIsWhatIsAskedFor ==
    ASSUME Options!TypeOK, NEW config \in AllTls, NEW deadline \in AllDeadlines
    PROVE  LET client == Options!Client(config, deadline)
               own == Options!Own(config, deadline) IN
           /\ client \in {Options!Refused, own}
           /\ own \in Options!Clients /\ Options!Refused \in Options!Clients
           /\ own.is = "own" /\ own.tls = config /\ own.deadline = deadline
           /\ own.read = IF Options!FromFiles(config) THEN file ELSE 0
           /\ Options!Refused.is = "refused" /\ Options!Refused.deadline = "none"
<1> USE DEF Options!TypeOK, Options!Clients, Options!Own, Options!Refused, Options!Nothing,
        Options!None, Options!Missing, Options!FirstMaterial, AllTls, AllDeadlines
<1>1. file \in Nat
  BY OptionsBounds
<1>2. Options!Client(config, deadline) \in {Options!Refused, Options!Own(config, deadline)}
  BY DEF Options!Client
<1>3. Options!Own(config, deadline) \in Options!Clients
  BY <1>1
<1>4. Options!Refused \in Options!Clients
  BY OptionsBounds
<1> QED
  BY <1>2, <1>3, <1>4

Asked == Options!SettingsAreAppliedOrRefused /\ Options!DeadlineIsTheLastOneSet
             /\ Options!FormatIsNobodysGuess
Made == Options!OptionsAreTyped /\ Options!KeptIsCurrent /\ Options!ComplaintIsOfTheNames

\* A source that is told something has sent nothing since.
LEMMA NothingSentYet == ASSUME sent' = Options!Unsent PROVE Asked'
  BY DEF Asked, Options!Unsent, Options!SettingsAreAppliedOrRefused, Options!Applied,
     Options!Sent, Options!DeadlineIsTheLastOneSet, Options!FormatIsNobodysGuess

LEMMA OptionsInit == Options!Init => Options!IndInv
<1> SUFFICES ASSUME Options!Init PROVE Options!IndInv
  OBVIOUS
<1> USE OptionsBounds DEF Options!Init
<1>1. Options!OptionsAreTyped
  <2>1. Options!Nothing \in Options!Clients
    BY DEF Options!Clients, Options!Nothing, Options!None, Options!Missing
  <2>2. complaint \in BOOLEAN /\ secure \in BOOLEAN
    OBVIOUS
  <2>3. file \in 0 .. 2 + MaxRotations
    BY DEF Options!Missing, Options!Malformed, Options!FirstMaterial
  <2> QED
    BY <2>1, <2>2, <2>3 DEF Options!OptionsAreTyped, Options!TypeOK, Options!Nothing,
      Options!Unsent,
       Options!None, Options!Missing, Options!Malformed, Options!FirstMaterial
<1>2. Options!KeptIsCurrent
  BY DEF Options!KeptIsCurrent, Options!Nothing, Options!None, Options!Eager, Options!Keeping
<1>3. Options!ComplaintIsOfTheNames
  BY DEF Options!ComplaintIsOfTheNames
<1>4. /\ Options!SettingsAreAppliedOrRefused /\ Options!DeadlineIsTheLastOneSet
      /\ Options!FormatIsNobodysGuess
  BY DEF Options!Unsent, Options!SettingsAreAppliedOrRefused, Options!Applied,
     Options!Sent, Options!DeadlineIsTheLastOneSet, Options!FormatIsNobodysGuess
<1> QED
  BY <1>1, <1>2, <1>3, <1>4 DEF Options!IndInv

\* A constructor keeps what it was given, or refuses it.
LEMMA ConstructingIsCurrent ==
    ASSUME Made, store \in Options!Eager,
           NEW client \in Options!Clients, Options!Constructed(client),
           tls' \in AllTls, timeout' \in AllDeadlines, agent' \in BOOLEAN,
           client # Options!Refused =>
               /\ client.tls = tls'
               /\ tls' # Options!NoTls =>
                    ~agent' /\ (Options!ChecksTheAddress => secure \/ tls' = Options!Empty),
           store = "s3" /\ client.is = "own" => client.deadline = timeout',
           store = "redis" => client.deadline \in {"none", timeout'}
    PROVE  Made' /\ Asked'
<1> USE DEF Made, Options!Constructed, Options!address, Options!None
<1>1. Options!OptionsAreTyped'
  BY DEF Options!OptionsAreTyped, Options!TypeOK, AllTls, AllDeadlines, Options!Unsent,
     Options!Clients
<1>2. Options!KeptIsCurrent'
  BY DEF Options!KeptIsCurrent, Options!Eager, Options!Keeping, Options!ChecksTheAddress
<1>3. Options!ComplaintIsOfTheNames'
  BY DEF Options!ComplaintIsOfTheNames
<1> QED
  BY <1>1, <1>2, <1>3, NothingSentYet

\* A source that exists is told something: what it kept is kept if it is still of use.
LEMMA TellingIsCurrent ==
    ASSUME Made, at # "constructing", sent' = Options!Unsent,
           UNCHANGED <<store, secure, named, at, chosen, complaint, file>>,
           tls' \in AllTls, timeout' \in AllDeadlines, agent' \in BOOLEAN,
           kept' \in Options!Clients,
           store \in Options!Eager => UNCHANGED <<tls, agent>> /\ kept'.tls = kept.tls,
           store = "s3" /\ kept'.is = "own" => kept'.deadline = timeout',
           store = "redis" => kept'.deadline \in {"none", timeout'},
           store \in Options!Keeping =>
               kept' = Options!Nothing \/ UNCHANGED <<kept, tls, timeout>>,
           store = "git" => agent' = agent /\ at # "built"
    PROVE  Made' /\ Asked'
<1> USE DEF Made, Options!None
<1>1. Options!OptionsAreTyped'
  BY DEF Options!OptionsAreTyped, Options!TypeOK, AllTls, AllDeadlines, Options!Unsent,
     Options!Clients
<1>2. Options!KeptIsCurrent'
  BY DEF Options!KeptIsCurrent, Options!Eager, Options!Keeping, Options!ChecksTheAddress,
     Options!Nothing
<1>3. Options!ComplaintIsOfTheNames'
  BY DEF Options!ComplaintIsOfTheNames
<1> QED
  BY <1>1, <1>2, <1>3, NothingSentYet

LEMMA ConstructorsAreCurrent ==
    ASSUME Made, NEW config \in AllTls,
           \/ Options!EtcdNew \/ Options!NatsNew \/ Options!RedisNew \/ Options!S3WithConfig
           \/ Options!FromClient
           \/ Options!EtcdWithTls(config) \/ Options!RedisWithTls(config)
           \/ Options!NatsWithTls(config) \/ Options!S3WithTls(config)
    PROVE  Made' /\ Asked'
<1>1. /\ at = "constructing" => store \in Options!Eager /\ tls = Options!NoTls /\ ~agent
      /\ tls \in AllTls /\ timeout \in AllDeadlines /\ agent \in BOOLEAN /\ Options!TypeOK
  BY DEF Made, Options!KeptIsCurrent, Options!OptionsAreTyped, Options!TypeOK, AllTls,
     AllDeadlines, Options!None
<1>2. Options!NoTls \in AllTls /\ "none" \in AllDeadlines
  BY OptionsBounds DEF AllTls, AllDeadlines
<1>3. /\ Options!Nothing \in Options!Clients /\ Options!Nothing.tls = Options!NoTls
      /\ Options!Nothing.is = "nothing" /\ Options!Nothing.deadline = "none"
      /\ Options!Foreign \in Options!Clients /\ Options!Foreign.tls = Options!NoTls
      /\ Options!Foreign.is = "foreign" /\ Options!Foreign.deadline = "none"
  BY DEF Options!Clients, Options!Nothing, Options!Foreign, Options!None, Options!Missing
<1>4. ASSUME NEW client, Options!Constructed(client) PROVE at = "constructing"
  BY <1>4 DEF Options!Constructed
<1>5. CASE Options!EtcdNew
  BY <1>1, <1>2, <1>4, <1>5, ClientIsWhatIsAskedFor, ConstructingIsCurrent
     DEF Options!EtcdNew
<1>6. CASE Options!NatsNew
  BY <1>1, <1>2, <1>4, <1>6, ClientIsWhatIsAskedFor, ConstructingIsCurrent
     DEF Options!NatsNew
<1>7. CASE Options!RedisNew
  BY <1>1, <1>3, <1>4, <1>7, ConstructingIsCurrent DEF Options!RedisNew
<1>8. CASE Options!S3WithConfig
  <2>1. timeout' \in AllDeadlines /\ UNCHANGED <<tls, agent>>
        /\ Options!Constructed(Options!Own(Options!NoTls, timeout')) /\ store = "s3"
    BY <1>8 DEF Options!S3WithConfig, AllDeadlines
  <2> QED
    BY <1>1, <1>2, <1>4, <2>1, ClientIsWhatIsAskedFor, ConstructingIsCurrent
<1>9. CASE Options!FromClient
  BY <1>1, <1>3, <1>4, <1>9, ConstructingIsCurrent DEF Options!FromClient
<1>10. CASE Options!EtcdWithTls(config)
  BY <1>1, <1>2, <1>4, <1>10, ClientIsWhatIsAskedFor, ConstructingIsCurrent
     DEF Options!EtcdWithTls, Options!ChecksTheAddress
<1>11. CASE Options!RedisWithTls(config)
  <2> DEFINE client == IF secure THEN Options!Client(config, Options!None) ELSE Options!Refused
  <2>1. /\ store = "redis" /\ tls' = config /\ Options!Constructed(client)
        /\ UNCHANGED <<agent, timeout>>
    BY <1>11 DEF Options!RedisWithTls
  <2>2. /\ client \in Options!Clients /\ client.deadline = "none"
        /\ client # Options!Refused => secure /\ client.tls = config
    BY <1>1, <1>2, ClientIsWhatIsAskedFor DEF Options!None
  <2> HIDE DEF client
  <2> QED
    BY <1>1, <1>2, <1>4, <2>1, <2>2, ConstructingIsCurrent
<1>12. CASE Options!NatsWithTls(config)
  <2> DEFINE client == IF config = Options!Empty \/ secure
                       THEN Options!Client(config, timeout) ELSE Options!Refused
  <2>1. /\ store = "nats" /\ tls' = config /\ Options!Constructed(client)
        /\ UNCHANGED <<agent, timeout>>
    BY <1>12 DEF Options!NatsWithTls
  <2>2. /\ client \in Options!Clients
        /\ client # Options!Refused =>
              client.tls = config /\ (secure \/ config = Options!Empty)
    BY <1>1, <1>2, ClientIsWhatIsAskedFor
  <2> HIDE DEF client
  <2> QED
    BY <1>1, <1>2, <1>4, <2>1, <2>2, ConstructingIsCurrent
<1>13. CASE Options!S3WithTls(config)
  <2> DEFINE client == Options!Client(config, timeout')
  <2>1. /\ store = "s3" /\ tls' = config /\ Options!Constructed(client)
        /\ agent' = agent /\ timeout' \in AllDeadlines
    BY <1>13 DEF Options!S3WithTls, AllDeadlines, Options!None
  <2>2. /\ client \in Options!Clients
        /\ client.is = "own" => client.deadline = timeout'
        /\ client # Options!Refused => client.tls = config
    BY <1>1, <1>2, <2>1, ClientIsWhatIsAskedFor
  <2> HIDE DEF client
  <2> QED
    BY <1>1, <1>2, <1>4, <2>1, <2>2, ConstructingIsCurrent DEF Options!ChecksTheAddress
<1> QED
  BY <1>5, <1>6, <1>7, <1>8, <1>9, <1>10, <1>11, <1>12, <1>13

LEMMA TellingKeeps ==
    ASSUME Made, NEW config \in AllTls, NEW t \in AllDeadlines,
           \/ Options!ConsulWithTls(config) \/ Options!GitWithTls(config)
           \/ Options!VaultWithTls(config) \/ Options!FirestoreWithTls(config)
           \/ Options!ServerWithTls(config)
           \/ Options!ConsulWithAgent \/ Options!VaultWithAgent \/ Options!FirestoreWithAgent
           \/ Options!TellAboutTimeout(t)
    PROVE  Made' /\ Asked'
<1>1. /\ tls \in AllTls /\ timeout \in AllDeadlines /\ agent \in BOOLEAN
      /\ kept \in Options!Clients /\ store \in Options!Stores
      /\ Options!Nothing \in Options!Clients /\ TRUE \in BOOLEAN
  BY DEF Made, Options!OptionsAreTyped, Options!TypeOK, AllTls,
     AllDeadlines, Options!None, Options!Nothing, Options!Missing, Options!Clients
<1>2. \A d \in AllDeadlines :
          /\ [kept EXCEPT !.deadline = d] \in Options!Clients
          /\ [kept EXCEPT !.deadline = d].tls = kept.tls
          /\ [kept EXCEPT !.deadline = d].deadline = d
          /\ [kept EXCEPT !.deadline = d].is = kept.is
  BY <1>1 DEF Options!Clients, AllDeadlines, Options!None
<1>3. "none" \in AllDeadlines
  BY DEF AllDeadlines
<1> USE DEF Options!Eager, Options!Keeping, Options!address
<1>4. ASSUME NEW client, Options!WithTls(config, client), client \in {kept, Options!Nothing},
             store \notin Options!Eager,
             store \in Options!Keeping => client = Options!Nothing
      PROVE  Made' /\ Asked'
  BY <1>1, <1>4, TellingIsCurrent DEF Options!WithTls
<1>5. CASE \/ Options!ConsulWithTls(config) \/ Options!GitWithTls(config)
           \/ Options!VaultWithTls(config) \/ Options!FirestoreWithTls(config)
           \/ Options!ServerWithTls(config)
  BY <1>4, <1>5 DEF Options!ConsulWithTls, Options!GitWithTls, Options!VaultWithTls,
     Options!FirestoreWithTls, Options!ServerWithTls
<1>6. CASE Options!ConsulWithAgent \/ Options!VaultWithAgent \/ Options!FirestoreWithAgent
  BY <1>1, <1>6, TellingIsCurrent DEF Options!ConsulWithAgent, Options!VaultWithAgent,
     Options!FirestoreWithAgent, Options!WithAgent
<1>7. ASSUME NEW client, Options!WithTimeout(t, client), client \in Options!Clients,
             store \in Options!Eager => client.tls = kept.tls,
             store = "s3" /\ client.is = "own" => client.deadline = t,
             store = "redis" => client.deadline \in {"none", t},
             store \in Options!Keeping => client = Options!Nothing
      PROVE  Made' /\ Asked'
  BY <1>1, <1>7, TellingIsCurrent DEF Options!WithTimeout, Options!Configurable
<1>8. CASE \/ Options!EtcdWithTimeout(t) \/ Options!NatsWithTimeout(t)
           \/ Options!ConsulWithTimeout(t) \/ Options!GitWithTimeout(t)
           \/ Options!ServerWithTimeout(t)
  BY <1>1, <1>7, <1>8 DEF Options!EtcdWithTimeout, Options!NatsWithTimeout,
     Options!ConsulWithTimeout, Options!GitWithTimeout, Options!ServerWithTimeout
<1>9. CASE Options!VaultWithTimeout(t) \/ Options!FirestoreWithTimeout(t)
  BY <1>1, <1>7, <1>9 DEF Options!VaultWithTimeout, Options!FirestoreWithTimeout
<1>10. CASE Options!S3WithTimeout(t)
  <2>1. store = "s3" /\ Options!WithTimeout(t, [kept EXCEPT !.deadline = t])
    BY <1>10 DEF Options!S3WithTimeout
  <2> QED
    BY <1>2, <1>7, <2>1
<1>11. CASE Options!RedisWithTimeout(t)
  <2>1. store = "redis" /\ Options!WithTimeout(t, [kept EXCEPT !.deadline = "none"])
    BY <1>11 DEF Options!RedisWithTimeout, Options!None
  <2> QED
    BY <1>2, <1>3, <1>7, <2>1
<1> QED
  BY <1>5, <1>6, <1>8, <1>9, <1>10, <1>11 DEF Options!TellAboutTimeout

\* A format, a file, and a builder that is done.
LEMMA SettlingKeeps ==
    ASSUME Made,
           \/ \E f \in Formats : Options!WithFormat(f)
           \/ Options!Rotate \/ Options!GitBuild
    PROVE  Made' /\ Asked'
<1> USE DEF Made, Options!address, Options!options, Options!None
<1>1. ASSUME NEW f \in Formats, Options!WithFormat(f) PROVE Made' /\ Asked'
  <2>1. /\ chosen' = f /\ f # "none" /\ complaint' = FALSE /\ sent' = Options!Unsent
        /\ UNCHANGED <<store, secure, named, at, tls, agent, timeout, file, kept>>
        /\ ~(store = "git" /\ at = "built")
    BY <1>1, OptionsBounds DEF Options!WithFormat, Options!Configurable
  <2>2. Options!OptionsAreTyped'
    <3>1. Options!Clients' = Options!Clients
      BY DEF Options!Clients
    <3> QED
      BY <2>1, <3>1 DEF Options!OptionsAreTyped, Options!TypeOK, Options!Unsent
  <2>3. Options!KeptIsCurrent'
    BY <2>1 DEF Options!KeptIsCurrent, Options!ChecksTheAddress
  <2>4. Options!ComplaintIsOfTheNames'
    BY <2>1 DEF Options!ComplaintIsOfTheNames
  <2> QED
    BY <2>1, <2>2, <2>3, <2>4, NothingSentYet
<1>2. CASE Options!Rotate
  <2>1. /\ file' \in 0 .. 2 + MaxRotations /\ sent' = Options!Unsent
        /\ UNCHANGED <<store, secure, named, at, tls, agent, timeout, chosen, complaint, kept>>
    BY <1>2 DEF Options!Rotate, Options!Missing, Options!FirstMaterial
  <2>2. Options!OptionsAreTyped'
    BY <2>1 DEF Options!OptionsAreTyped, Options!TypeOK, Options!Unsent, Options!Clients,
       Options!Missing, Options!FirstMaterial
  <2>3. Options!KeptIsCurrent'
    BY <2>1 DEF Options!KeptIsCurrent, Options!ChecksTheAddress, Options!Format,
       Options!AgreedFormat
  <2>4. Options!ComplaintIsOfTheNames'
    BY <2>1 DEF Options!ComplaintIsOfTheNames
  <2> QED
    BY <2>1, <2>2, <2>3, <2>4, NothingSentYet
<1>3. CASE Options!GitBuild
  <2>1. /\ store = "git" /\ sent' = Options!Unsent /\ at' \in {"built", "refused"}
        /\ UNCHANGED <<store, secure, named, tls, agent, timeout, chosen, complaint, file, kept>>
        /\ at' = "built" =>
              /\ tls \notin {Options!NoTls, Options!Empty} => secure
              /\ Options!Format # "none"
    BY <1>3 DEF Options!GitBuild
  <2>2. Options!OptionsAreTyped'
    BY <2>1 DEF Options!OptionsAreTyped, Options!TypeOK, Options!Unsent, Options!Clients
  <2>3. Options!KeptIsCurrent'
    BY <2>1 DEF Options!KeptIsCurrent, Options!ChecksTheAddress, Options!Eager,
       Options!Keeping, Options!Format, Options!AgreedFormat
  <2>4. Options!ComplaintIsOfTheNames'
    BY <2>1 DEF Options!ComplaintIsOfTheNames
  <2> QED
    BY <2>1, <2>2, <2>3, <2>4, NothingSentYet
<1> QED
  BY <1>1, <1>2, <1>3

LEMMA SameCounting == Options!Cardinality(named) = Cardinality(named)
  BY DEF Options!Cardinality, Cardinality

\* A format is the caller's or the one all extensions name; there is none exactly if
\* nobody chose one and they do not agree.
LEMMA FormatIsSettled ==
    ASSUME Made
    PROVE  LET format == Options!Format IN
           IF format = "none" THEN chosen = "none" /\ Options!Cardinality(named) # 1
           ELSE format = chosen \/ (chosen = "none" /\ named = {format})
<1> USE DEF Options!None
<1>1. /\ chosen \in Formats \cup {"none"} /\ named \subseteq Formats /\ IsFiniteSet(Formats)
      /\ "none" \notin Formats /\ complaint \in BOOLEAN
  BY OptionsBounds DEF Made, Options!OptionsAreTyped, Options!TypeOK
<1>2. IsFiniteSet(named) /\ Cardinality(named) \in Nat
  BY <1>1, FS_Subset, FS_CardinalityType
<1>3. chosen = "none" => (complaint <=> Cardinality(named) > 1)
  BY <1>1, SameCounting DEF Made, Options!ComplaintIsOfTheNames
<1>4. CASE chosen # "none"
  BY <1>4 DEF Options!Format
<1>5. CASE chosen = "none" /\ Cardinality(named) = 1
  <2>1. PICK f : named = {f}
    BY <1>2, <1>5, FS_Singleton
  <2>2. Options!AgreedFormat = f
    BY <1>5, <2>1, SameCounting DEF Options!AgreedFormat
  <2>3. Options!Format = f
    BY <1>2, <1>3, <1>5, <2>2 DEF Options!Format
  <2> QED
    BY <1>1, <1>5, <2>1, <2>3
<1>6. CASE chosen = "none" /\ Cardinality(named) # 1
  <2>1. Options!Format = "none"
    BY <1>6, SameCounting DEF Options!Format, Options!AgreedFormat
  <2> QED
    BY <1>6, <2>1, SameCounting
<1> QED
  BY <1>4, <1>5, <1>6

\* What is sent is what was asked for, if the client is.
LEMMA SendingIsAsAsked ==
    ASSUME Made, NEW client, Options!Send(client),
           UNCHANGED <<store, secure, named, tls, agent, timeout, chosen, complaint, file>>,
           Options!HasAFormat => Options!Format # "none",
           client.is # "refused" /\ store # "server" =>
               /\ client.tls = tls
               /\ tls # Options!NoTls =>
                    /\ ~agent
                    /\ Options!ChecksTheAddress => secure \/ tls = Options!Empty
                    /\ store \in {"consul", "git"} /\ Options!FromFiles(tls) =>
                           client.read = file,
           client.is = "own" /\ ~Options!UngovernedGit => client.deadline = timeout
    PROVE  Asked'
<1> USE DEF Options!None
<1>1. /\ sent'.outcome = (IF client.is = "refused" THEN "refused" ELSE "sent")
      /\ sent'.client = client
      /\ sent'.format = IF Options!HasAFormat THEN Options!Format ELSE "none"
  BY DEF Options!Send
<1>2. Options!SettingsAreAppliedOrRefused'
  BY <1>1 DEF Options!SettingsAreAppliedOrRefused, Options!Applied, Options!Sent,
     Options!ChecksTheAddress, Options!FromFiles
<1>3. Options!DeadlineIsTheLastOneSet'
  BY <1>1 DEF Options!DeadlineIsTheLastOneSet, Options!Sent, Options!UngovernedGit
<1>4. Options!FormatIsNobodysGuess'
  BY <1>1, FormatIsSettled DEF Options!FormatIsNobodysGuess, Options!HasAFormat
<1> QED
  BY <1>2, <1>3, <1>4 DEF Asked

\* A fetch that changes nothing but what it sent, and the client that is kept.
LEMMA FetchingIsCurrent ==
    ASSUME Made, kept' \in Options!Clients,
           UNCHANGED <<store, secure, named, at, tls, agent, timeout, chosen, complaint, file>>,
           sent'.outcome \in {"unsent", "refused", "unformatted", "sent"},
           kept'.is = "own" =>
               /\ store = "s3" => kept'.deadline = timeout
               /\ store \in Options!Keeping => kept'.tls = tls /\ kept'.deadline = timeout,
           store \in Options!Eager => kept'.tls = kept.tls,
           store = "redis" => kept'.deadline \in {"none", timeout},
           store \in Options!Keeping =>
               /\ kept'.is # "foreign"
               /\ kept'.is = "nothing" => kept' = Options!Nothing
    PROVE  Made'
<1> USE DEF Made, Options!None
<1>1. Options!OptionsAreTyped'
  BY DEF Options!OptionsAreTyped, Options!TypeOK, Options!Clients
<1>2. Options!KeptIsCurrent'
  BY DEF Options!KeptIsCurrent, Options!Eager, Options!Keeping, Options!ChecksTheAddress,
     Options!Format, Options!AgreedFormat, Options!Nothing
<1>3. Options!ComplaintIsOfTheNames'
  BY DEF Options!ComplaintIsOfTheNames
<1> QED
  BY <1>1, <1>2, <1>3

LEMMA FetchesAreCurrent ==
    ASSUME Made,
           \/ Options!RefuseFormat \/ Options!ConsulFetch \/ Options!VaultFetch
           \/ Options!FirestoreFetch \/ Options!ServerFetch \/ Options!EtcdFetch
           \/ Options!NatsFetch \/ Options!S3Fetch \/ Options!RedisFetch \/ Options!GitFetch
    PROVE  Made' /\ Asked'
<1> USE DEF Options!None, Options!options, Options!address
<1>1. /\ Options!TypeOK /\ kept \in Options!Clients /\ Options!KeptIsCurrent
      /\ tls \in AllTls /\ timeout \in AllDeadlines
  BY DEF Made, Options!OptionsAreTyped, Options!TypeOK, AllTls, AllDeadlines
<1>2. LET client == Options!Client(tls, timeout) IN
      /\ client \in Options!Clients /\ client.is \in {"own", "refused"}
      /\ client.is = "own" =>
           /\ client.tls = tls /\ client.deadline = timeout
           /\ Options!FromFiles(tls) => client.read = file
  BY <1>1, ClientIsWhatIsAskedFor
<1>3. /\ Options!Refused.is = "refused" /\ Options!Refused.deadline = "none"
      /\ Options!Foreign.is = "foreign" /\ Options!Foreign.tls = Options!NoTls
      /\ Options!Nothing.is = "nothing" /\ Options!Nothing.tls = Options!NoTls
      /\ Options!Foreign \in Options!Clients /\ Options!Refused \in Options!Clients
  BY DEF Options!Refused, Options!Foreign, Options!Nothing, Options!Clients, Options!Missing
<1>4. ASSUME NEW client, Options!Send(client)
      PROVE  sent'.outcome \in {"unsent", "refused", "unformatted", "sent"}
  BY <1>4 DEF Options!Send
<1>5. ASSUME NEW d \in AllDeadlines, NEW k \in Options!Clients
      PROVE  /\ [k EXCEPT !.deadline = d] \in Options!Clients
             /\ [k EXCEPT !.deadline = d].tls = k.tls
             /\ [k EXCEPT !.deadline = d].is = k.is
             /\ [k EXCEPT !.deadline = d].deadline = d
  BY <1>5 DEF Options!Clients, AllDeadlines
<1>6. ASSUME Options!Unformatted => FALSE PROVE Options!HasAFormat => Options!Format # "none"
  BY <1>6 DEF Options!Unformatted
<1>7. kept' = kept /\ store # "server" /\
      UNCHANGED <<store, secure, named, at, tls, agent, timeout, chosen, complaint, file>> /\
      sent'.outcome \in {"unsent", "refused", "unformatted", "sent"} => Made'
  BY <1>1, FetchingIsCurrent DEF Options!KeptIsCurrent
<1>8. CASE Options!RefuseFormat
  <2>1. sent' = [outcome |-> "unformatted", client |-> Options!Nothing, format |-> "none"]
    BY <1>8 DEF Options!RefuseFormat, Options!Unsent
  <2>2. /\ UNCHANGED <<store, secure, named, at, tls, agent, timeout, chosen, complaint, file>>
        /\ kept' = kept /\ Options!HasAFormat /\ Options!Format = "none"
    BY <1>8 DEF Options!RefuseFormat, Options!Unformatted
  <2>3. Asked'
    BY <2>1, <2>2, FormatIsSettled DEF Asked, Options!SettingsAreAppliedOrRefused,
       Options!Applied, Options!Sent, Options!DeadlineIsTheLastOneSet,
       Options!FormatIsNobodysGuess, Options!HasAFormat
  <2>4. store # "server"
    BY <2>2 DEF Options!HasAFormat
  <2> QED
    BY <1>7, <2>1, <2>2, <2>3, <2>4
<1>9. CASE Options!ConsulFetch
  <2> DEFINE client == IF agent THEN Options!AgentOf ELSE Options!Client(tls, timeout)
  <2>1. /\ store = "consul" /\ Options!Send(client)
        /\ Options!HasAFormat => Options!Format # "none"
        /\ UNCHANGED <<store, secure, named, at, tls, agent, timeout, chosen, complaint, file,
                       kept>>
    BY <1>6, <1>9 DEF Options!ConsulFetch
  <2>2. /\ client.is # "refused" =>
             /\ client.tls = tls
             /\ tls # Options!NoTls => ~agent
             /\ tls # Options!NoTls /\ Options!FromFiles(tls) => client.read = file
        /\ client.is = "own" => client.deadline = timeout
    BY <1>2, <1>3 DEF Options!AgentOf
  <2> HIDE DEF client
  <2> QED
    BY <1>4, <1>7, <2>1, <2>2, SendingIsAsAsked DEF Options!ChecksTheAddress
<1>10. ASSUME store \in Options!Keeping,
              kept' = IF agent THEN kept ELSE Options!Keep,
              Options!Send(IF agent THEN Options!AgentOf ELSE Options!Keep),
              UNCHANGED <<store, secure, named, at, tls, agent, timeout, chosen, complaint,
                          file>>
       PROVE  Made' /\ Asked'
  <2> DEFINE client == IF agent THEN Options!AgentOf ELSE Options!Keep
  <2>1. /\ Options!Keep \in Options!Clients /\ Options!Keep.is \in {"own", "refused"}
        /\ Options!Keep.is = "own" => Options!Keep.tls = tls /\ Options!Keep.deadline = timeout
    BY <1>1, <1>2, <1>10 DEF Options!Keep, Options!KeptIsCurrent, Options!Clients
  <2>2. /\ kept' \in Options!Clients /\ kept'.is # "foreign"
        /\ kept'.is = "nothing" => kept' = Options!Nothing
        /\ kept'.is = "own" => kept'.tls = tls /\ kept'.deadline = timeout
    BY <1>1, <1>10, <2>1 DEF Options!KeptIsCurrent
  <2>3. /\ client.is # "refused" => client.tls = tls /\ (tls # Options!NoTls => ~agent)
        /\ client.is = "own" => client.deadline = timeout
    BY <1>3, <2>1 DEF Options!AgentOf
  <2>4. Options!Send(client)
    BY <1>10
  <2>5. /\ store \notin {"redis", "nats", "git", "s3", "consul"} \cup Options!Eager
        /\ ~Options!HasAFormat /\ ~Options!ChecksTheAddress
    BY <1>10 DEF Options!Keeping, Options!Eager, Options!HasAFormat, Options!ChecksTheAddress
  <2> HIDE DEF client
  <2>6. Asked'
    BY <1>10, <2>3, <2>4, <2>5, SendingIsAsAsked
  <2>7. Made'
    BY <1>4, <1>10, <2>2, <2>4, <2>5, FetchingIsCurrent
  <2> QED
    BY <2>6, <2>7
<1>11. CASE Options!VaultFetch
  BY <1>10, <1>11 DEF Options!VaultFetch, Options!Keeping
<1>12. CASE Options!FirestoreFetch
  BY <1>10, <1>12 DEF Options!FirestoreFetch, Options!Keeping
<1>13. CASE Options!ServerFetch
  <2> DEFINE client == IF Options!Keep = Options!Refused THEN Options!Refused
                       ELSE [Options!Keep EXCEPT !.deadline = timeout, !.tls.name = tls.name]
  <2>1. /\ store = "server" /\ Options!Send(client) /\ kept' \in {kept, Options!Keep}
        /\ UNCHANGED <<store, secure, named, at, tls, agent, timeout, chosen, complaint, file>>
    BY <1>13 DEF Options!ServerFetch
  <2>2. Options!Keep \in Options!Clients
    BY <1>1, <1>2 DEF Options!Keep
  <2>3. client.is = "own" => client.deadline = timeout
    BY <1>3, <2>2 DEF Options!Clients
  <2>4. ~Options!HasAFormat /\ store \notin Options!Eager \cup Options!Keeping
    BY <2>1 DEF Options!HasAFormat, Options!Eager, Options!Keeping
  <2> HIDE DEF client
  <2>5. Asked'
    BY <2>1, <2>3, <2>4, SendingIsAsAsked
  <2>6. Made'
    BY <1>1, <1>4, <2>1, <2>2, <2>4, FetchingIsCurrent
  <2> QED
    BY <2>5, <2>6
<1>14. CASE Options!EtcdFetch \/ Options!NatsFetch
  <2> DEFINE client == [kept EXCEPT !.deadline = timeout]
  <2>1. /\ store \in {"etcd", "nats"} /\ at = "built" /\ Options!Send(client)
        /\ Options!HasAFormat => Options!Format # "none"
        /\ UNCHANGED <<store, secure, named, at, tls, agent, timeout, chosen, complaint, file,
                       kept>>
    BY <1>6, <1>14 DEF Options!EtcdFetch, Options!NatsFetch
  <2>2. client.tls = kept.tls /\ client.deadline = timeout
    BY <1>1, <1>5
  <2>3. /\ kept.tls = tls
        /\ tls # Options!NoTls =>
             ~agent /\ (Options!ChecksTheAddress => secure \/ tls = Options!Empty)
    BY <1>1, <2>1 DEF Options!KeptIsCurrent, Options!Eager
  <2> HIDE DEF client
  <2> QED
    BY <1>4, <1>7, <2>1, <2>2, <2>3, SendingIsAsAsked
<1>15. CASE Options!S3Fetch
  <2>1. /\ store = "s3" /\ at = "built" /\ Options!Send(kept)
        /\ Options!HasAFormat => Options!Format # "none"
        /\ UNCHANGED <<store, secure, named, at, tls, agent, timeout, chosen, complaint, file,
                       kept>>
    BY <1>6, <1>15 DEF Options!S3Fetch
  <2>2. /\ kept.tls = tls /\ (kept.is = "own" => kept.deadline = timeout)
        /\ tls # Options!NoTls =>
             ~agent /\ (Options!ChecksTheAddress => secure \/ tls = Options!Empty)
    BY <1>1, <2>1 DEF Options!KeptIsCurrent, Options!Eager
  <2> QED
    BY <1>4, <1>7, <2>1, <2>2, SendingIsAsAsked
<1>16. CASE Options!RedisFetch
  <2> DEFINE client == IF kept = Options!Nothing
                       THEN Options!Own(Options!NoTls, Options!None) ELSE kept
             connection == IF client.deadline # Options!None THEN client
                           ELSE [client EXCEPT !.deadline = timeout]
  <2>1. /\ store = "redis" /\ at = "built" /\ Options!Send(connection)
        /\ kept' \in {connection, [connection EXCEPT !.deadline = "none"]}
        /\ Options!HasAFormat => Options!Format # "none"
        /\ UNCHANGED <<store, secure, named, at, tls, agent, timeout, chosen, complaint, file>>
    BY <1>6, <1>16 DEF Options!RedisFetch
  <2>2. /\ kept.tls = tls /\ kept.deadline \in {"none", timeout}
        /\ tls # Options!NoTls =>
             ~agent /\ (Options!ChecksTheAddress => secure \/ tls = Options!Empty)
    BY <1>1, <2>1 DEF Options!KeptIsCurrent, Options!Eager
  <2>3. Options!NoTls \in AllTls /\ "none" \in AllDeadlines
    BY DEF AllTls, AllDeadlines
  <2>4. client \in Options!Clients /\ client.tls = tls /\ client.deadline \in {"none", timeout}
    BY <1>1, <1>3, <2>2, <2>3, ClientIsWhatIsAskedFor
  <2> HIDE DEF client
  <2>5. connection \in Options!Clients /\ connection.tls = tls /\ connection.deadline = timeout
    BY <1>1, <1>5, <2>4
  <2> HIDE DEF connection
  <2>6. Asked'
    BY <2>1, <2>2, <2>5, SendingIsAsAsked
  <2>7. /\ kept' \in Options!Clients /\ kept'.tls = tls /\ kept'.deadline \in {"none", timeout}
    <3>1. CASE kept' = connection
      BY <2>5, <3>1
    <3>2. CASE kept' = [connection EXCEPT !.deadline = "none"]
      BY <1>5, <2>3, <2>5, <3>2
    <3> QED
      BY <2>1, <3>1, <3>2
  <2>8. store \notin Options!Keeping
    BY <2>1 DEF Options!Keeping
  <2>9. Made'
    BY <1>4, <2>1, <2>2, <2>7, <2>8, FetchingIsCurrent
  <2> QED
    BY <2>6, <2>9
<1>17. CASE Options!GitFetch
  <2> DEFINE client == IF tls \in {Options!NoTls, Options!Empty}
                       THEN Options!Own(tls, Options!None) ELSE Options!Client(tls, timeout)
  <2>1. /\ store = "git" /\ at = "built" /\ Options!Send(client)
        /\ UNCHANGED <<store, secure, named, at, tls, agent, timeout, chosen, complaint, file,
                       kept>>
    BY <1>17 DEF Options!GitFetch
  <2>2. /\ ~agent /\ Options!Format # "none"
        /\ tls \notin {Options!NoTls, Options!Empty} => secure
    BY <1>1, <2>1 DEF Options!KeptIsCurrent
  <2>3. "none" \in AllDeadlines
    BY DEF AllDeadlines
  <2>4. /\ client.is # "refused" =>
             client.tls = tls /\ (Options!FromFiles(tls) => client.read = file)
        /\ client.is = "own" /\ tls \notin {Options!NoTls, Options!Empty} =>
             client.deadline = timeout
    BY <1>1, <1>2, <2>3, ClientIsWhatIsAskedFor
  <2> HIDE DEF client
  <2> QED
    BY <1>4, <1>7, <2>1, <2>2, <2>4, SendingIsAsAsked DEF Options!UngovernedGit
<1> QED
  BY <1>8, <1>9, <1>11, <1>12, <1>13, <1>14, <1>15, <1>16, <1>17

LEMMA OptionsNext == Options!IndInv /\ [Options!Next]_(Options!vars) => Options!IndInv'
<1> SUFFICES ASSUME Options!IndInv, [Options!Next]_(Options!vars) PROVE Options!IndInv'
  OBVIOUS
<1>1. Made
  BY DEF Options!IndInv, Made
<1>2. Configs \subseteq AllTls /\ Deadlines \subseteq AllDeadlines
      /\ Options!NoTls \in AllTls /\ "none" \in AllDeadlines
  BY OptionsBounds DEF AllTls, AllDeadlines
<1>3. CASE UNCHANGED Options!vars
  BY <1>3 DEF Options!vars, Options!address, Options!options, Options!IndInv,
     Options!OptionsAreTyped, Options!TypeOK, Options!KeptIsCurrent,
     Options!ComplaintIsOfTheNames, Options!SettingsAreAppliedOrRefused,
     Options!DeadlineIsTheLastOneSet, Options!FormatIsNobodysGuess, Options!Applied,
     Options!Sent, Options!ChecksTheAddress, Options!UngovernedGit, Options!HasAFormat,
     Options!Format, Options!AgreedFormat
<1>4. CASE Options!Next
  <2>1. Made' /\ Asked'
    <3>1. CASE \/ Options!EtcdNew \/ Options!NatsNew \/ Options!RedisNew
               \/ Options!S3WithConfig \/ Options!FromClient
      BY <1>1, <1>2, <3>1, ConstructorsAreCurrent
    <3>2. CASE Options!ConsulWithAgent \/ Options!VaultWithAgent \/ Options!FirestoreWithAgent
      BY <1>1, <1>2, <3>2, TellingKeeps
    <3>3. ASSUME NEW config \in Configs, Options!TellAboutTls(config) PROVE Made' /\ Asked'
      BY <1>1, <1>2, <3>3, ConstructorsAreCurrent, TellingKeeps DEF Options!TellAboutTls
    <3>4. ASSUME NEW t \in Deadlines, Options!TellAboutTimeout(t) PROVE Made' /\ Asked'
      BY <1>1, <1>2, <3>4, TellingKeeps
    <3>5. CASE \/ \E f \in Formats : Options!WithFormat(f)
               \/ Options!Rotate \/ Options!GitBuild
      BY <1>1, <3>5, SettlingKeeps
    <3>6. CASE \/ Options!RefuseFormat \/ Options!ConsulFetch \/ Options!VaultFetch
               \/ Options!FirestoreFetch \/ Options!ServerFetch \/ Options!EtcdFetch
               \/ Options!NatsFetch \/ Options!S3Fetch \/ Options!RedisFetch
               \/ Options!GitFetch
      BY <1>1, <3>6, FetchesAreCurrent
    <3> QED
      BY <1>4, <3>1, <3>2, <3>3, <3>4, <3>5, <3>6 DEF Options!Next
  <2> QED
    BY <2>1 DEF Made, Asked, Options!IndInv
<1> QED
  BY <1>3, <1>4

\* with_tls, with_timeout, with_format, with_agent and the constructors of all sources: a
\* fetch is made with the TLS, the timeout and the format that were set last, or refused.
THEOREM FetchesAreAsConfigured == Options!Spec => []OptionsAreTheLastOnesSet
<1>1. Options!IndInv => OptionsAreTheLastOnesSet
  BY DEF Options!IndInv, OptionsAreTheLastOnesSet
<1> QED
  BY OptionsInit, OptionsNext, <1>1, PTL DEF Options!Spec

-----------------------------------------------------------------------------
(* Induction over the naturals, and functions that are defined by it.       *)

\* A set of naturals has a least one.
LEMMA Least ==
    ASSUME NEW T, T \subseteq Nat, T # {}
    PROVE  \E m \in T : \A n \in T : m <= n
<1>1. IsWellFoundedOn({ss \in Nat \X Nat : ss[1] < ss[2]}, Nat)
  BY NatLessThanWellFounded DEF OpToRel
<1>2. PICK m \in T : \A n \in T : <<n, m>> \notin {ss \in Nat \X Nat : ss[1] < ss[2]}
  BY <1>1, WFMin
<1>3. ASSUME NEW n \in T PROVE m <= n
  <2>1. <<n, m>> \in Nat \X Nat /\ <<n, m>>[1] = n /\ <<n, m>>[2] = m
    OBVIOUS
  <2>2. ~(n < m)
    BY <1>2, <2>1
  <2> QED
    BY <2>2
<1> QED
  BY <1>3

\* What holds of zero, and of one more than whatever it holds of, holds of all.
LEMMA Upwards ==
    ASSUME NEW S, 0 \in S, \A n \in Nat : n \in S => n + 1 \in S
    PROVE  Nat \subseteq S
<1> SUFFICES ASSUME Nat \ S # {} PROVE FALSE
  OBVIOUS
<1>1. PICK m \in Nat \ S : \A n \in Nat \ S : m <= n
  BY Least
<1>2. m # 0 /\ m - 1 \in Nat
  BY <1>1
<1>3. m - 1 \in S
  BY <1>1, <1>2
<1> QED
  BY <1>1, <1>2, <1>3

\* f is what `base' becomes, one step of `next' after the other.
Iteration(f, V, base, n, next) ==
    /\ f \in [0 .. n -> V]
    /\ f[0] = base /\ \A i \in 1 .. n : f[i] = next[i][f[i - 1]]

\* There is such a function.
LEMMA Iterates ==
    ASSUME NEW V, NEW base \in V, NEW n \in Nat, NEW next \in [1 .. n -> [V -> V]]
    PROVE  \E f : Iteration(f, V, base, n, next)
<1> DEFINE Is(f, m) ==
        /\ f \in [0 .. m -> V]
        /\ f[0] = base /\ \A i \in 1 .. m : f[i] = next[i][f[i - 1]]
           S == {m \in Nat : m <= n => \E f \in [0 .. m -> V] : Is(f, m)}
<1>1. 0 \in S
  <2>1. Is([i \in 0 .. 0 |-> base], 0)
    OBVIOUS
  <2> QED
    BY <2>1
<1>2. ASSUME NEW m \in Nat, m \in S PROVE m + 1 \in S
  <2> SUFFICES ASSUME m + 1 <= n PROVE \E f \in [0 .. m + 1 -> V] : Is(f, m + 1)
    OBVIOUS
  <2>1. PICK f \in [0 .. m -> V] : Is(f, m)
    BY <1>2
  <2> DEFINE g == [i \in 0 .. m + 1 |-> IF i = m + 1 THEN next[m + 1][f[m]] ELSE f[i]]
  <2>2. next[m + 1][f[m]] \in V
    BY <2>1
  <2>3. g \in [0 .. m + 1 -> V]
    BY <2>1, <2>2
  <2>4. g[0] = base
    BY <2>1
  <2>5. ASSUME NEW i \in 1 .. m + 1 PROVE g[i] = next[i][g[i - 1]]
    <3>1. i - 1 \in 0 .. m /\ g[i - 1] = f[i - 1]
      OBVIOUS
    <3>2. CASE i = m + 1
      <4>1. i - 1 = m /\ g[m + 1] = next[m + 1][f[m]]
        BY <3>2
      <4> HIDE DEF g
      <4> QED
        BY <3>1, <3>2, <4>1
    <3>3. CASE i \in 1 .. m
      BY <2>1, <3>1, <3>3
    <3>4. i = m + 1 \/ i \in 1 .. m
      OBVIOUS
    <3> HIDE DEF g
    <3> QED
      BY <3>2, <3>3, <3>4
  <2> QED
    BY <2>3, <2>4, <2>5
<1> HIDE DEF S
<1>3. n \in S
  BY <1>1, <1>2, Upwards
<1>4. \E f \in [0 .. n -> V] : Is(f, n)
  <2> HIDE DEF Is
  <2> QED
    BY <1>3 DEF S
<1> QED
  BY <1>4 DEF Iteration

-----------------------------------------------------------------------------
(* Keys in key order, and the fold of what was read.                        *)

LEMMA SameSize == ASSUME NEW S PROVE Fetching!Cardinality(S) = Cardinality(S)
  BY DEF Fetching!Cardinality, Cardinality

LEMMA FetchBounds ==
    /\ InKeyOrder \in Seq(Fetching!Keys)
    /\ \A i, j \in DOMAIN InKeyOrder : InKeyOrder[i] = InKeyOrder[j] => i = j
    /\ \A l \in Lists :
           l \in Seq(Fetching!Keys) /\ \A i, j \in DOMAIN l : l[i] = l[j] => i = j
    /\ MostKeys \in Nat \ {0} /\ MostRounds \in Nat \ {0} /\ FetchWrites \in Nat
  BY SourcesBounds DEF Fetching!Bounds, Fetching!IsInjective

\* One key is not before itself.
LEMMA OrderIsStrict == \A k : ~Fetching!Precedes(k, k)
  BY FetchBounds DEF Fetching!Precedes

\* Some of the first n keys can be put in key order.
LEMMA FirstKeysInOrder ==
    ASSUME NEW n \in Nat, n <= Len(InKeyOrder),
           NEW keys \in SUBSET {InKeyOrder[i] : i \in 1 .. n}
    PROVE  /\ IsFiniteSet(keys)
           /\ \E s \in [1 .. Cardinality(keys) -> keys] :
                  \A i, j \in 1 .. Cardinality(keys) :
                      i < j => Fetching!Precedes(s[i], s[j])
<1> DEFINE First(m) == {InKeyOrder[i] : i \in 1 .. m}
           Ordered(K, s) == \A i, j \in 1 .. Cardinality(K) :
               i < j => Fetching!Precedes(s[i], s[j])
           Ok(K) == IsFiniteSet(K) /\ \E s \in [1 .. Cardinality(K) -> K] : Ordered(K, s)
           S == {m \in Nat : m <= Len(InKeyOrder) => \A K \in SUBSET First(m) : Ok(K)}
<1>1. 0 \in S
  <2> SUFFICES ASSUME NEW K \in SUBSET First(0) PROVE Ok(K)
    OBVIOUS
  <2>1. K = {}
    OBVIOUS
  <2>2. IsFiniteSet(K) /\ Cardinality(K) = 0
    BY <2>1, FS_EmptySet
  <2>3. [i \in 1 .. 0 |-> 0] \in [1 .. Cardinality(K) -> K]
    BY <2>2
  <2>4. Ordered(K, [i \in 1 .. 0 |-> 0])
    BY <2>2
  <2> QED
    BY <2>2, <2>3, <2>4
<1>2. ASSUME NEW m \in Nat, m \in S PROVE m + 1 \in S
  <2> SUFFICES ASSUME m + 1 <= Len(InKeyOrder), NEW K \in SUBSET First(m + 1)
               PROVE  Ok(K)
    OBVIOUS
  <2> DEFINE last == InKeyOrder[m + 1]
             rest == K \ {last}
  <2>1. rest \in SUBSET First(m)
    <3> SUFFICES ASSUME NEW k \in rest PROVE k \in First(m)
      OBVIOUS
    <3>1. PICK i \in 1 .. m + 1 : k = InKeyOrder[i]
      OBVIOUS
    <3>2. i \in 1 .. m
      BY <3>1
    <3> QED
      BY <3>1, <3>2
  <2>2. Ok(rest)
    <3>1. m <= Len(InKeyOrder)
      BY FetchBounds
    <3> HIDE DEF Ok, rest
    <3> QED
      BY <1>2, <2>1, <3>1
  <2>3. CASE last \notin K
    <3>1. rest = K
      BY <2>3
    <3> QED
      BY <2>2, <3>1
  <2>4. CASE last \in K
    <3> HIDE DEF rest
    <3>1. IsFiniteSet(rest) /\ Cardinality(rest) \in Nat
      BY <2>2, FS_CardinalityType
    <3>2. K = rest \cup {last} /\ last \notin rest
      BY <2>4 DEF rest
    <3>3. IsFiniteSet(K) /\ Cardinality(K) = Cardinality(rest) + 1
      BY <3>1, <3>2, FS_AddElement
    <3> DEFINE c == Cardinality(rest)
    <3>4. PICK s \in [1 .. c -> rest] : Ordered(rest, s)
      BY <2>2
    <3> DEFINE t == [i \in 1 .. c + 1 |-> IF i = c + 1 THEN last ELSE s[i]]
    <3> HIDE DEF c
    <3>5. c \in Nat /\ Cardinality(K) = c + 1
      BY <3>1, <3>3 DEF c
    <3>6. t \in [1 .. c + 1 -> K]
      BY <3>2, <3>4, <3>5
    <3>7. ASSUME NEW k \in rest PROVE Fetching!Precedes(k, last)
      <4>1. PICK i \in 1 .. m : k = InKeyOrder[i]
        BY <2>1 DEF rest
      <4>2. /\ i \in DOMAIN InKeyOrder /\ m + 1 \in DOMAIN InKeyOrder
            /\ i < m + 1
        BY <4>1, FetchBounds
      <4> QED
        BY <4>1, <4>2 DEF Fetching!Precedes
    <3>8. ASSUME NEW i \in 1 .. c + 1, NEW j \in 1 .. c + 1, i < j
          PROVE  Fetching!Precedes(t[i], t[j])
      <4>1. i \in 1 .. c /\ t[i] = s[i] /\ s[i] \in rest
        BY <3>4, <3>5, <3>8
      <4>2. CASE j = c + 1
        BY <3>7, <4>1, <4>2
      <4>3. CASE j \in 1 .. c
        <5>1. t[j] = s[j]
          BY <3>5, <4>3
        <5> QED
          BY <3>4, <3>8, <4>1, <4>3, <5>1 DEF c
      <4> QED
        BY <3>5, <4>2, <4>3
    <3>9. Ordered(K, t)
      BY <3>5, <3>8
    <3> QED
      BY <3>3, <3>5, <3>6, <3>9
  <2> QED
    BY <2>3, <2>4
<1> HIDE DEF S
<1>3. n \in S
  BY <1>1, <1>2, Upwards
<1> QED
  BY <1>3 DEF S

\* Keys in key order are all of them, each once.
LEMMA InOrderIsAll ==
    ASSUME NEW keys \in SUBSET Fetching!Keys
    PROVE  LET s == Fetching!InOrder(keys) IN
           /\ IsFiniteSet(keys) /\ Cardinality(keys) \in Nat
           /\ s \in Seq(keys) /\ Len(s) = Cardinality(keys)
           /\ \A i, j \in DOMAIN s : s[i] = s[j] => i = j
           /\ {s[i] : i \in DOMAIN s} = keys
<1> DEFINE n == Cardinality(keys)
           s == Fetching!InOrder(keys)
           Ordered(t) == \A i, j \in 1 .. n : i < j => Fetching!Precedes(t[i], t[j])
<1>1. Fetching!Keys = {InKeyOrder[i] : i \in 1 .. Len(InKeyOrder)}
  BY FetchBounds DEF Fetching!Keys, Fetching!ToSet
<1>2. Len(InKeyOrder) \in Nat
  BY FetchBounds
<1>3. IsFiniteSet(keys) /\ \E t \in [1 .. n -> keys] : Ordered(t)
  BY <1>1, <1>2, FirstKeysInOrder
<1>4. n \in Nat
  BY <1>3, FS_CardinalityType
<1>5. s = CHOOSE t \in [1 .. n -> keys] : Ordered(t)
  BY SameSize DEF Fetching!InOrder
<1> HIDE DEF n, s
<1>6. s \in [1 .. n -> keys] /\ Ordered(s)
  BY <1>3, <1>5
<1>7. ASSUME NEW i \in 1 .. n, NEW j \in 1 .. n, s[i] = s[j] PROVE i = j
  BY <1>4, <1>6, <1>7, OrderIsStrict
<1>8. s \in Injection(1 .. n, keys)
  BY <1>6, <1>7 DEF Injection, IsInjective
<1>9. IsFiniteSet(1 .. n) /\ Cardinality(1 .. n) = n
  BY <1>4, FS_Interval
<1>10. s \in Surjection(1 .. n, keys)
  BY <1>3, <1>8, <1>9, FS_Injection DEF n
<1>11. s \in Seq(keys) /\ Len(s) = n /\ DOMAIN s = 1 .. n
  BY <1>4, <1>6
<1>12. {s[i] : i \in DOMAIN s} = keys
  BY <1>6, <1>10, <1>11 DEF Surjection
<1> QED
  BY <1>3, <1>4, <1>7, <1>11, <1>12 DEF n, s

\* The fold, one document at a time.
LEMMA FoldedStepByStep ==
    ASSUME NEW pairs \in Seq(Fetching!Keys \X ({Fetching!Nothing} \cup Fetching!Document))
    PROVE  \E f :
               /\ f[0] = << >>
               /\ \A i \in 1 .. Len(pairs) : f[i] = Fetching!Merge(f[i - 1], pairs[i])
               /\ Fetching!Folded(pairs) = f[Len(pairs)]
<1> DEFINE n == Len(pairs)
           Supplied == UNION {pairs[i][2].supplies : i \in 1 .. n}
           Trees == UNION {[D -> Fetching!Keys \X Int] : D \in SUBSET Supplied}
           next == [i \in 1 .. n |-> [t \in Trees |-> Fetching!Merge(t, pairs[i])]]
           Fold(f) == [m \in 0 .. n |->
               IF m = 0 THEN << >> ELSE Fetching!Merge(f[m - 1], pairs[m])]
           folded == CHOOSE f : f = Fold(f)
<1>1. n \in Nat
  OBVIOUS
<1>2. << >> \in Trees
  <2>1. << >> \in [{} -> Fetching!Keys \X Int]
    OBVIOUS
  <2>2. {} \in SUBSET Supplied
    OBVIOUS
  <2> HIDE DEF Supplied
  <2> QED
    BY <2>1, <2>2
<1>3. next \in [1 .. n -> [Trees -> Trees]]
  <2> SUFFICES ASSUME NEW tree \in Trees, NEW i \in 1 .. n
               PROVE  Fetching!Merge(tree, pairs[i]) \in Trees
    OBVIOUS
  <2> DEFINE pair == pairs[i]
             D == DOMAIN tree \cup pair[2].supplies
  <2>1. PICK E \in SUBSET Supplied : tree \in [E -> Fetching!Keys \X Int]
    OBVIOUS
  <2>2. pair[2].supplies \subseteq Supplied
    OBVIOUS
  <2>3. pair[1] \in Fetching!Keys /\ pair[2].write \in Int
    BY DEF Fetching!Nothing, Fetching!Document
  <2> HIDE DEF pair, Supplied
  <2>4. D \in SUBSET Supplied
    BY <2>1, <2>2
  <2>5. Fetching!Merge(tree, pair) \in [D -> Fetching!Keys \X Int]
    BY <2>1, <2>3 DEF Fetching!Merge
  <2> QED
    BY <2>4, <2>5 DEF pair
<1>4. PICK f \in [0 .. n -> Trees] :
         f[0] = << >> /\ \A i \in 1 .. n : f[i] = next[i][f[i - 1]]
  <2> DEFINE empty == << >>
  <2>1. empty \in Trees
    BY <1>2
  <2> HIDE DEF n, Trees, next, empty
  <2>2. \E f : Iteration(f, Trees, empty, n, next)
    BY <1>1, <1>3, <2>1, Iterates
  <2> QED
    BY <2>2 DEF empty, Iteration
<1>5. ASSUME NEW i \in 1 .. n PROVE f[i] = Fetching!Merge(f[i - 1], pairs[i])
  <2>1. i - 1 \in 0 .. n
    BY <1>1
  <2>2. f[i - 1] \in Trees
    BY <1>4, <2>1
  <2> HIDE DEF Trees
  <2>3. next[i][f[i - 1]] = Fetching!Merge(f[i - 1], pairs[i])
    BY <2>2
  <2> QED
    BY <1>4, <2>3
<1>6. f = Fold(f)
  <2> HIDE DEF Trees
  <2>1. \A m \in 0 .. n : f[m] = Fold(f)[m]
    BY <1>1, <1>4, <1>5
  <2> QED
    BY <1>4, <2>1
<1>7. folded = Fold(folded)
  BY <1>6
<1>8. Fetching!Folded(pairs) = folded[n]
  BY DEF Fetching!Folded
<1> HIDE DEF folded
<1>9. /\ folded[0] = << >>
      /\ \A i \in 1 .. n : folded[i] = Fetching!Merge(folded[i - 1], pairs[i])
  BY <1>1, <1>7
<1> QED
  BY <1>8, <1>9

\* A path's value comes from the last document that supplies it.
LEMMA FoldedIsTheLast ==
    ASSUME NEW pairs \in Seq(Fetching!Keys \X ({Fetching!Nothing} \cup Fetching!Document))
    PROVE  LET tree == Fetching!Folded(pairs) IN
           /\ DOMAIN tree = UNION {pairs[i][2].supplies : i \in 1 .. Len(pairs)}
           /\ \A p \in DOMAIN tree : \E i \in 1 .. Len(pairs) :
                  /\ p \in pairs[i][2].supplies
                  /\ tree[p] = <<pairs[i][1], pairs[i][2].write>>
                  /\ \A j \in i + 1 .. Len(pairs) : p \notin pairs[j][2].supplies
<1> DEFINE n == Len(pairs)
           supplied(i) == pairs[i][2].supplies
           from(i) == <<pairs[i][1], pairs[i][2].write>>
           Last(tree, m) ==
               /\ DOMAIN tree = UNION {supplied(i) : i \in 1 .. m}
               /\ \A p \in DOMAIN tree : \E i \in 1 .. m :
                      /\ p \in supplied(i) /\ tree[p] = from(i)
                      /\ \A j \in i + 1 .. m : p \notin supplied(j)
<1>1. PICK f : /\ f[0] = << >>
               /\ \A i \in 1 .. n : f[i] = Fetching!Merge(f[i - 1], pairs[i])
               /\ Fetching!Folded(pairs) = f[n]
  BY FoldedStepByStep
<1> DEFINE S == {m \in Nat : m <= n => Last(f[m], m)}
<1>2. 0 \in S
  <2>1. DOMAIN f[0] = {}
    BY <1>1
  <2>2. UNION {supplied(i) : i \in 1 .. 0} = {}
    OBVIOUS
  <2> QED
    BY <2>1, <2>2
<1>3. ASSUME NEW m \in Nat, m \in S PROVE m + 1 \in S
  <2> SUFFICES ASSUME m + 1 <= n PROVE Last(f[m + 1], m + 1)
    OBVIOUS
  <2> DEFINE tree == f[m]
             more == f[m + 1]
  <2>1. n \in Nat /\ m + 1 \in 1 .. n
    OBVIOUS
  <2>2. Last(tree, m)
    BY <1>3, <2>1
  <2>3. more = [p \in DOMAIN tree \cup supplied(m + 1) |->
                   IF p \in supplied(m + 1) THEN from(m + 1) ELSE tree[p]]
    <3>1. (m + 1) - 1 = m
      OBVIOUS
    <3>2. more = Fetching!Merge(tree, pairs[m + 1])
      BY <1>1, <2>1, <3>1
    <3> QED
      BY <3>2 DEF Fetching!Merge
  <2> HIDE DEF tree, more, supplied, from, n
  <2>4. 1 .. m + 1 = (1 .. m) \cup {m + 1}
    OBVIOUS
  <2>5. DOMAIN more = UNION {supplied(i) : i \in 1 .. m + 1}
    BY <2>2, <2>3, <2>4
  <2>6. ASSUME NEW p \in DOMAIN more
        PROVE  \E i \in 1 .. m + 1 :
                   /\ p \in supplied(i) /\ more[p] = from(i)
                   /\ \A j \in i + 1 .. m + 1 : p \notin supplied(j)
    <3>1. CASE p \in supplied(m + 1)
      <4>1. more[p] = from(m + 1)
        BY <2>3, <3>1
      <4>2. m + 1 \in 1 .. m + 1 /\ (m + 1) + 1 .. m + 1 = {}
        OBVIOUS
      <4> QED
        BY <3>1, <4>1, <4>2
    <3>2. CASE p \notin supplied(m + 1)
      <4>1. p \in DOMAIN tree /\ more[p] = tree[p]
        BY <2>3, <3>2
      <4>2. PICK i \in 1 .. m :
                /\ p \in supplied(i) /\ tree[p] = from(i)
                /\ \A j \in i + 1 .. m : p \notin supplied(j)
        BY <2>2, <4>1
      <4>3. i \in 1 .. m + 1
        OBVIOUS
      <4>4. ASSUME NEW j \in i + 1 .. m + 1 PROVE p \notin supplied(j)
        BY <3>2, <4>2
      <4> QED
        BY <4>1, <4>2, <4>3, <4>4
    <3> QED
      BY <3>1, <3>2
  <2> QED
    BY <2>5, <2>6 DEF more
<1> HIDE DEF S, Last
<1>4. Last(f[n], n)
  <2>1. n \in Nat
    OBVIOUS
  <2>2. n \in S
    BY <1>2, <1>3, <2>1, Upwards
  <2> QED
    BY <2>1, <2>2 DEF S
<1> QED
  BY <1>1, <1>4 DEF Last

\* Documents of which none has a path in common are all in the fold, whole.
LEMMA ApartWhenNotOverlapping ==
    ASSUME NEW pairs \in Seq(Fetching!Keys \X ({Fetching!Nothing} \cup Fetching!Document)),
           ~Fetching!Overlapping(pairs),
           NEW i \in 1 .. Len(pairs), NEW j \in 1 .. Len(pairs), i < j
    PROVE  pairs[i][2].supplies \cap pairs[j][2].supplies = {}
<1> DEFINE before == SubSeq(pairs, 1, j - 1)
<1>1. /\ before \in Seq(Fetching!Keys \X ({Fetching!Nothing} \cup Fetching!Document))
      /\ Len(before) = j - 1 /\ \A k \in 1 .. j - 1 : before[k] = pairs[k]
  OBVIOUS
<1>2. DOMAIN Fetching!Folded(before) =
          UNION {before[k][2].supplies : k \in 1 .. Len(before)}
  BY <1>1, FoldedIsTheLast
<1>3. i \in 1 .. Len(before) /\ before[i] = pairs[i]
  BY <1>1
<1>4. before[i][2].supplies \subseteq DOMAIN Fetching!Folded(before)
  BY <1>2, <1>3
<1>5. j \in 2 .. Len(pairs)
  OBVIOUS
<1>6. DOMAIN Fetching!Folded(before) \cap pairs[j][2].supplies = {}
  BY <1>5 DEF Fetching!Overlapping
<1> QED
  BY <1>3, <1>4, <1>6

-----------------------------------------------------------------------------
(* A fetch of several keys.                                                *)

LEMMA NothingIsNoDocument ==
    /\ Fetching!Nothing \notin Fetching!Document
    /\ \A d \in Fetching!Document : d # Fetching!Nothing
  BY DEF Fetching!Nothing, Fetching!Document

\* The store is in the last of its states.
LEMMA NowIsAState ==
    ASSUME Fetching!FetchIsTyped
    PROVE  /\ Fetching!Now \in Fetching!ToSet(history)
           /\ Fetching!ToSet(history) \subseteq Fetching!State
           /\ commit \in Fetching!State
<1>1. Len(history) \in DOMAIN history
  BY DEF Fetching!FetchIsTyped
<1> QED
  BY <1>1 DEF Fetching!FetchIsTyped, Fetching!Now, Fetching!ToSet

\* A list is not empty, and of keys named once.
LEMMA ListIsOfKeys ==
    ASSUME Fetching!FetchIsTyped, ~Fetching!ReadsPrefix
    PROVE  /\ list \in Seq(Fetching!Keys) /\ Len(list) > 0
           /\ \A i, j \in DOMAIN list : list[i] = list[j] => i = j
<1>1. list \in Seq(Fetching!Keys) /\ list # << >>
  BY FetchBounds DEF Fetching!FetchIsTyped, Fetching!ReadsPrefix
<1>2. Len(list) # 0
  BY <1>1
<1> QED
  BY <1>1, <1>2, FetchBounds DEF Fetching!FetchIsTyped, Fetching!ReadsPrefix

LEMMA ShapeOfAPrefix == Fetching!Shape = "prefix" <=> Fetching!ReadsPrefix
<1>1. ASSUME list = << >> PROVE Len(list) # 1
  BY <1>1
<1>2. CASE Fetching!ReadsPrefix
  BY <1>1, <1>2 DEF Fetching!Shape, Fetching!ReadsPrefix
<1>3. CASE ~Fetching!ReadsPrefix
  BY <1>3 DEF Fetching!Shape
<1> QED
  BY <1>2, <1>3

\* Some stores are not asked for a prefix.
LEMMA PrefixesAreOfFive ==
    ASSUME Fetching!FetchIsTyped, Fetching!ReadsPrefix
    PROVE  fetchStore \in {"etcd", "consul", "redis", "s3", "git"}
<1>1. Fetching!Shape = "prefix" /\ Fetching!Shape \in Fetching!KeysOf[fetchStore]
  BY ShapeOfAPrefix DEF Fetching!FetchIsTyped
<1>2. fetchStore \in {"etcd", "consul", "redis", "s3", "nats", "vault", "firestore", "git"}
  BY DEF Fetching!FetchIsTyped, Fetching!KeysOf
<1> QED
  BY <1>1, <1>2 DEF Fetching!KeysOf, Fetching!NatsKeys, Fetching!VaultKeys,
     Fetching!FirestoreKeys

LEMMA HoldingIsOfKeys ==
    ASSUME NEW state PROVE Fetching!Holding(state) \in SUBSET Fetching!Keys
  BY DEF Fetching!Holding

\* What is read key by key are keys, each once: the list, what was found, or the commit.
LEMMA KeysToRead ==
    ASSUME Fetching!FetchIsTyped
    PROVE  LET t == Fetching!ToRead IN
           /\ t \in Seq(Fetching!Keys)
           /\ \A i, j \in DOMAIN t : t[i] = t[j] => i = j
           /\ ~Fetching!ReadsPrefix => t = list
           /\ Fetching!ReadsPrefix /\ fetchStore = "git" =>
                  {t[i] : i \in DOMAIN t} = Fetching!Holding(commit)
           /\ Fetching!ReadsPrefix /\ fetchStore # "git" =>
                  {t[i] : i \in DOMAIN t} = found
<1>1. CASE ~Fetching!ReadsPrefix
  <2>1. Fetching!ToRead = list
    BY <1>1 DEF Fetching!ToRead
  <2> QED
    BY <1>1, <2>1, ListIsOfKeys
<1>2. CASE Fetching!ReadsPrefix /\ fetchStore = "git"
  <2>1. Fetching!ToRead = Fetching!InOrder(Fetching!Holding(commit))
    BY <1>2 DEF Fetching!ToRead, Fetching!Present
  <2> QED
    BY <1>2, <2>1, InOrderIsAll, HoldingIsOfKeys
<1>3. CASE Fetching!ReadsPrefix /\ fetchStore # "git"
  <2>1. Fetching!ToRead = Fetching!InOrder(found)
    BY <1>3 DEF Fetching!ToRead
  <2>2. found \in SUBSET Fetching!Keys
    BY DEF Fetching!FetchIsTyped
  <2> QED
    BY <1>3, <2>1, <2>2, InOrderIsAll
<1> QED
  BY <1>1, <1>2, <1>3

\* What one state of the store says of some keys that all hold something.
LEMMA PairsOfAState ==
    ASSUME Fetching!FetchIsTyped, NEW s \in Fetching!ToSet(history),
           NEW keys \in Seq(Fetching!Keys), \A i \in DOMAIN keys : s[keys[i]] # Fetching!Nothing
    PROVE  LET pairs == Fetching!Pairs(keys, s) IN
           /\ pairs \in Seq(Fetching!Keys \X ({Fetching!Nothing} \cup Fetching!Document))
           /\ DOMAIN pairs = DOMAIN keys
           /\ \A i \in DOMAIN pairs :
                  /\ pairs[i][1] = keys[i] /\ pairs[i][2] = s[keys[i]]
                  /\ pairs[i][2] # Fetching!Nothing
           /\ {pairs[i][1] : i \in DOMAIN pairs} = {keys[i] : i \in DOMAIN keys}
           /\ Fetching!WereThere(pairs)
<1> DEFINE pairs == Fetching!Pairs(keys, s)
           Value == {Fetching!Nothing} \cup Fetching!Document
<1>1. pairs = [i \in 1 .. Len(keys) |-> <<keys[i], s[keys[i]]>>]
  BY DEF Fetching!Pairs
<1>2. s \in [Fetching!Keys -> Value]
  BY NowIsAState DEF Fetching!State
<1> HIDE DEF Value, pairs
<1>3. \A i \in 1 .. Len(keys) : pairs[i] \in Fetching!Keys \X Value
  BY <1>1, <1>2
<1>4. pairs \in Seq(Fetching!Keys \X Value) /\ DOMAIN pairs = DOMAIN keys
  BY <1>1, <1>3
<1>5. \A i \in DOMAIN pairs : pairs[i][1] = keys[i] /\ pairs[i][2] = s[keys[i]]
  BY <1>1, <1>4
<1>6. {pairs[i][1] : i \in DOMAIN pairs} = {keys[i] : i \in DOMAIN keys}
  BY <1>4, <1>5
<1>7. Fetching!WereThere(pairs)
  BY <1>5 DEF Fetching!WereThere
<1> QED
  BY <1>4, <1>5, <1>6, <1>7 DEF pairs, Value

LEMMA FetchInit == Fetching!Init => Fetching!IndInv
<1> SUFFICES ASSUME Fetching!Init PROVE Fetching!IndInv
  OBVIOUS
<1>1. PICK s \in [Fetching!Keys ->
                     {Fetching!Nothing} \cup [supplies : Supplies, write : {0}]] :
          history = <<s>>
  BY DEF Fetching!Init
<1>2. s \in Fetching!State
  BY DEF Fetching!State, Fetching!Document
<1>3. history \in Seq(Fetching!State) /\ Len(history) = 1 /\ history[1] = s
  BY <1>1, <1>2
<1>4. commit = s /\ s \in Fetching!ToSet(history)
  BY <1>3 DEF Fetching!Init, Fetching!Now, Fetching!ToSet
<1>5. Fetching!FetchIsTyped
  BY <1>3, <1>4 DEF Fetching!Init, Fetching!FetchIsTyped
<1>6. Fetching!WereThere(fetchHeld)
  BY DEF Fetching!Init, Fetching!WereThere
<1>7. Fetching!ReadsInOrder
  <2>1. CASE Fetching!ReadsPrefix
    BY <2>1 DEF Fetching!Init, Fetching!ReadsInOrder
  <2>2. CASE ~Fetching!ReadsPrefix
    <3>1. Fetching!ToRead = list /\ list \in Seq(Fetching!Keys) /\ Len(list) > 0
      BY <1>5, <2>2, KeysToRead, ListIsOfKeys
    <3>2. fetchHeld = << >> /\ Len(fetchHeld) = 0 /\ left = list
      BY DEF Fetching!Init
    <3>3. left = SubSeq(list, Len(fetchHeld) + 1, Len(list))
      BY <3>1, <3>2
    <3> QED
      BY <2>2, <3>1, <3>2, <3>3 DEF Fetching!ReadsInOrder
  <2> QED
    BY <2>1, <2>2
<1>8. Fetching!ReadsTheCommit
  BY DEF Fetching!Init, Fetching!ReadsTheCommit, Fetching!HeldAt
<1>9. Fetching!PassedIsFound
  BY DEF Fetching!Init, Fetching!PassedIsFound, Fetching!AllTheWhile
<1>10. Fetching!AnswerIsWhole
  BY DEF Fetching!Init, Fetching!AnswerIsWhole, Fetching!Answered, Fetching!Pending
<1> QED
  BY <1>5, <1>6, <1>7, <1>8, <1>9, <1>10 DEF Fetching!IndInv

\* A fetch that ends without a document.
LEMMA FinishKeeps ==
    ASSUME Fetching!IndInv, NEW result, Fetching!Finish(result), result.kind # "document"
    PROVE  Fetching!IndInv'
<1> USE DEF Fetching!Finish, Fetching!place, Fetching!finding
<1>1. Fetching!FetchIsTyped'
  BY DEF Fetching!IndInv, Fetching!FetchIsTyped, Fetching!Shape, Fetching!ReadsPrefix
<1>2. Fetching!WereThere(fetchHeld)'
  BY DEF Fetching!IndInv, Fetching!WereThere
<1>3. Fetching!ReadsInOrder'
  BY DEF Fetching!ReadsInOrder
<1>4. Fetching!ReadsTheCommit'
  BY DEF Fetching!IndInv, Fetching!ReadsTheCommit, Fetching!HeldAt
<1>5. Fetching!PassedIsFound'
  BY DEF Fetching!IndInv, Fetching!PassedIsFound, Fetching!AllTheWhile, Fetching!ReadsPrefix
<1>6. Fetching!AnswerIsWhole'
  BY DEF Fetching!AnswerIsWhole, Fetching!Answered
<1> QED
  BY <1>1, <1>2, <1>3, <1>4, <1>5, <1>6 DEF Fetching!IndInv

\* A fetch that takes what one request brought.
LEMMA TakeKeeps ==
    ASSUME Fetching!IndInv,
           NEW pairs \in Seq(Fetching!Keys \X ({Fetching!Nothing} \cup Fetching!Document)),
           Fetching!Take(pairs), Fetching!WereThere(pairs), Fetching!IsWhole(pairs),
           fetchStore # "git"
    PROVE  Fetching!IndInv'
<1> USE DEF Fetching!Take, Fetching!place, Fetching!finding
<1>1. Fetching!FetchIsTyped'
  BY DEF Fetching!IndInv, Fetching!FetchIsTyped, Fetching!Shape, Fetching!ReadsPrefix
<1>2. Fetching!WereThere(fetchHeld)'
  BY DEF Fetching!WereThere
<1>3. Fetching!ReadsInOrder'
  BY DEF Fetching!ReadsInOrder
<1>4. Fetching!ReadsTheCommit'
  BY DEF Fetching!ReadsTheCommit
<1>5. Fetching!PassedIsFound'
  BY DEF Fetching!IndInv, Fetching!PassedIsFound, Fetching!AllTheWhile, Fetching!ReadsPrefix
<1>6. Fetching!IsWhole(fetchHeld)'
  BY DEF Fetching!IsWhole, Fetching!ReadsPrefix, Fetching!AllTheWhile,
     Fetching!SaidToBeAtomic, Fetching!Shape
<1>7. fetchAnswer' = Fetching!Merged(fetchHeld)'
  BY DEF Fetching!Merged, Fetching!ReadsPrefix
<1>8. Fetching!AnswerIsWhole'
  BY <1>6, <1>7 DEF Fetching!AnswerIsWhole
<1> QED
  BY <1>1, <1>2, <1>3, <1>4, <1>5, <1>8 DEF Fetching!IndInv

\* A fetch that reads one more key.
LEMMA ReadNextKeeps ==
    ASSUME Fetching!IndInv, NEW state \in Fetching!ToSet(history), NEW missing,
           missing # "document", Fetching!ReadNextOf(state, missing),
           fetchAt # "done", ~Fetching!Batch, fetchStore # "redis",
           Fetching!ReadsPrefix => fetchAt = "reading" /\ fetchStore \in {"s3", "git"},
           fetchStore = "git" => fetchAt = "reading" /\ state = commit,
           Fetching!SaidToBeAtomic => fetchStore = "git"
    PROVE  Fetching!IndInv'
<1> DEFINE t == Fetching!ToRead
           n == Len(fetchHeld)
           Pair == Fetching!Keys \X ({Fetching!Nothing} \cup Fetching!Document)
           key == Head(left)
           pairs == Append(fetchHeld, <<key, state[key]>>)
<1>1. Fetching!FetchIsTyped /\ fetchHeld \in Seq(Pair) /\ n \in Nat
  BY DEF Fetching!IndInv, Fetching!FetchIsTyped
<1>2. t \in Seq(Fetching!Keys) /\ Len(t) \in Nat
  BY <1>1, KeysToRead
<1>3. /\ n < Len(t)
      /\ left = SubSeq(t, n + 1, Len(t))
      /\ \A i \in DOMAIN fetchHeld :
             fetchHeld[i][1] = t[i] /\ fetchHeld[i][2] # Fetching!Nothing
  BY DEF Fetching!IndInv, Fetching!ReadsInOrder
<1> HIDE DEF t, n
<1>4. /\ key = t[n + 1] /\ key \in Fetching!Keys
      /\ Len(left) = Len(t) - n /\ left \in Seq(Fetching!Keys)
  BY <1>1, <1>2, <1>3
<1>5. /\ Tail(left) = SubSeq(t, n + 2, Len(t)) /\ Len(Tail(left)) = Len(t) - (n + 1)
      /\ Tail(left) = << >> <=> n + 1 = Len(t)
  <2>1. Len(left) > 0 /\ Tail(left) \in Seq(Fetching!Keys) /\ Len(Tail(left)) = Len(left) - 1
    <3>1. left \in Seq(Fetching!Keys) /\ Len(left) > 0
      BY <1>1, <1>2, <1>3, <1>4
    <3> QED
      BY <3>1
  <2>2. Tail(left) = << >> <=> Len(Tail(left)) = 0
    BY <2>1
  <2>3. DOMAIN Tail(left) = DOMAIN SubSeq(t, n + 2, Len(t))
    BY <1>1, <1>2, <1>3, <1>4, <2>1
  <2>4. \A i \in 1 .. Len(t) - (n + 1) : Tail(left)[i] = SubSeq(t, n + 2, Len(t))[i]
    BY <1>1, <1>2, <1>3, <1>4, <2>1
  <2>5. Tail(left) = SubSeq(t, n + 2, Len(t))
    BY <1>1, <1>2, <1>3, <1>4, <2>1, <2>3, <2>4
  <2> QED
    BY <1>1, <1>2, <1>4, <2>1, <2>2, <2>5
<1>6. CASE state[key] = Fetching!Nothing
  <2>1. Fetching!Finish(Fetching!Refusal(missing, "missing"))
    BY <1>6 DEF Fetching!ReadNextOf
  <2>2. Fetching!Refusal(missing, "missing").kind # "document"
    BY DEF Fetching!Refusal
  <2> QED
    BY <2>1, <2>2, FinishKeeps
<1>7. CASE state[key] # Fetching!Nothing
  <2>1. /\ fetchHeld' = pairs
        /\ left' = Tail(left)
        /\ IF Tail(left) = << >>
           THEN fetchAt' = "done" /\ fetchAnswer' = Fetching!Merged(pairs)
           ELSE UNCHANGED <<fetchAt, fetchAnswer>>
        /\ UNCHANGED <<history, fetchStore, list, found, cursor, rounds, commit>>
    BY <1>7 DEF Fetching!ReadNextOf, Fetching!place, Fetching!finding
  <2>2. <<key, state[key]>> \in Pair
    BY <1>1, <1>4, NowIsAState DEF Fetching!State
  <2>3. /\ pairs \in Seq(Pair) /\ Len(pairs) = n + 1 /\ DOMAIN pairs = 1 .. n + 1
        /\ pairs[n + 1] = <<key, state[key]>>
        /\ \A i \in 1 .. n : pairs[i] = fetchHeld[i] /\ i \in DOMAIN fetchHeld
    <3> HIDE DEF key, Pair
    <3> QED
      BY <1>1, <2>2 DEF n
  <2> HIDE DEF pairs, Pair, key
  <2>4. \A i \in 1 .. n + 1 : i = n + 1 \/ i \in 1 .. n
    BY <1>1
  <2>5. \A i \in DOMAIN pairs : pairs[i][1] = t[i] /\ pairs[i][2] # Fetching!Nothing
    BY <1>3, <1>4, <1>7, <2>3, <2>4
  <2>6. Fetching!WereThere(pairs)
    <3>1. ASSUME NEW i \in 1 .. n
          PROVE  \E s \in Fetching!ToSet(history) : pairs[i][2] = s[pairs[i][1]]
      BY <2>3 DEF Fetching!IndInv, Fetching!WereThere
    <3>2. pairs[n + 1][2] = state[pairs[n + 1][1]]
      BY <2>3
    <3> QED
      BY <2>3, <2>4, <3>1, <3>2 DEF Fetching!WereThere
  <2>7. fetchStore = "git" => \A i \in DOMAIN pairs : pairs[i][2] = commit[pairs[i][1]]
    <3> SUFFICES ASSUME fetchStore = "git", NEW i \in DOMAIN pairs
                 PROVE  pairs[i][2] = commit[pairs[i][1]]
      OBVIOUS
    <3>1. CASE i \in 1 .. n
      BY <2>3, <3>1 DEF Fetching!IndInv, Fetching!ReadsTheCommit, Fetching!HeldAt
    <3>2. CASE i = n + 1
      BY <2>3, <3>2
    <3> QED
      BY <2>3, <2>4, <3>1, <3>2
  <2>8. Fetching!FetchIsTyped'
    BY <1>1, <2>1, <2>3 DEF Fetching!FetchIsTyped, Fetching!Shape, Fetching!ReadsPrefix, Pair
  <2>9. Fetching!WereThere(fetchHeld)'
    BY <2>1, <2>6 DEF Fetching!WereThere
  <2>10. Fetching!ReadsTheCommit'
    <3>1. fetchStore = "git" => fetchAt' # "finding"
      BY <2>1
    <3> QED
      BY <2>1, <2>7, <3>1 DEF Fetching!ReadsTheCommit, Fetching!HeldAt
  <2>11. Fetching!PassedIsFound'
    BY <2>1 DEF Fetching!IndInv, Fetching!PassedIsFound, Fetching!AllTheWhile,
       Fetching!ReadsPrefix
  <2>12. (Fetching!ReadsPrefix' <=> Fetching!ReadsPrefix) /\ Fetching!ToRead' = t
    BY <2>1 DEF t, Fetching!ToRead, Fetching!ReadsPrefix, Fetching!Present, Fetching!InOrder,
       Fetching!Holding
  <2>13. CASE Tail(left) # << >>
    <3>1. n + 1 < Len(t)
      BY <1>1, <1>2, <1>3, <1>5, <2>13
    <3>2. left' = SubSeq(t, Len(fetchHeld') + 1, Len(t))
      <4>1. Len(fetchHeld') + 1 = n + 2
        BY <1>1, <2>1, <2>3
      <4> QED
        BY <1>5, <2>1, <4>1
    <3>3. Fetching!ReadsInOrder'
      BY <2>1, <2>3, <2>5, <2>12, <3>1, <3>2 DEF Fetching!ReadsInOrder
    <3>4. Fetching!AnswerIsWhole'
      BY <2>1, <2>13 DEF Fetching!IndInv, Fetching!AnswerIsWhole, Fetching!Answered
    <3> QED
      BY <2>8, <2>9, <2>10, <2>11, <3>3, <3>4 DEF Fetching!IndInv
  <2>14. CASE Tail(left) = << >>
    <3>1. n + 1 = Len(t) /\ fetchAt' = "done" /\ fetchAnswer' = Fetching!Merged(pairs)
      BY <1>5, <2>1, <2>14
    <3>2. DOMAIN pairs = DOMAIN t
      BY <1>2, <2>3, <3>1
    <3>3. {pairs[i][1] : i \in DOMAIN pairs} = {t[i] : i \in DOMAIN t}
      BY <2>5, <3>2
    <3>4. \A i, j \in DOMAIN pairs : pairs[i][1] = pairs[j][1] => i = j
      BY <1>1, <2>5, <3>2, KeysToRead DEF t
    <3>5. Fetching!ReadsPrefix =>
              Fetching!AllTheWhile \subseteq {pairs[i][1] : i \in DOMAIN pairs}
      <4>1. CASE Fetching!ReadsPrefix /\ fetchStore = "git"
        <5>1. {t[i] : i \in DOMAIN t} = Fetching!Holding(commit)
          BY <1>1, <4>1, KeysToRead DEF t
        <5>2. Fetching!AllTheWhile \subseteq Fetching!Holding(commit)
          BY <1>1 DEF Fetching!FetchIsTyped, Fetching!AllTheWhile, Fetching!Holding
        <5> QED
          BY <3>3, <5>1, <5>2
      <4>2. CASE Fetching!ReadsPrefix /\ fetchStore # "git"
        <5>1. {t[i] : i \in DOMAIN t} = found
          BY <1>1, <4>2, KeysToRead DEF t
        <5>2. Fetching!AllTheWhile \subseteq found
          BY <4>2 DEF Fetching!IndInv, Fetching!PassedIsFound
        <5> QED
          BY <3>3, <5>1, <5>2
      <4> QED
        BY <4>1, <4>2
    <3>6. ~Fetching!ReadsPrefix =>
              DOMAIN pairs = DOMAIN list /\ \A i \in DOMAIN list : pairs[i][1] = list[i]
      BY <1>1, <2>5, <3>2, KeysToRead DEF t
    <3>7. Fetching!SaidToBeAtomic =>
              /\ \A i \in DOMAIN pairs : pairs[i][2] = commit[pairs[i][1]]
              /\ Fetching!ReadsPrefix =>
                     {pairs[i][1] : i \in DOMAIN pairs} = Fetching!Holding(commit)
      BY <1>1, <2>7, <3>3, KeysToRead DEF t
    <3>8. commit \in Fetching!ToSet(history)
      BY <1>1 DEF Fetching!FetchIsTyped
    <3>9. Fetching!IsWhole(pairs)
      BY <2>5, <3>4, <3>5, <3>6, <3>7, <3>8 DEF Fetching!IsWhole
    <3>10. Fetching!AnswerIsWhole'
      <4>1. Fetching!IsWhole(fetchHeld)'
        BY <2>1, <3>9 DEF Fetching!IsWhole, Fetching!ReadsPrefix, Fetching!AllTheWhile,
           Fetching!SaidToBeAtomic, Fetching!Shape
      <4>2. fetchAnswer' = Fetching!Merged(fetchHeld)'
        BY <2>1, <3>1 DEF Fetching!Merged, Fetching!ReadsPrefix
      <4> QED
        BY <3>1, <4>1, <4>2 DEF Fetching!AnswerIsWhole
    <3>11. Fetching!ReadsInOrder'
      BY <3>1 DEF Fetching!ReadsInOrder
    <3> QED
      BY <2>8, <2>9, <2>10, <2>11, <3>10, <3>11 DEF Fetching!IndInv
  <2> QED
    BY <2>13, <2>14
<1> QED
  BY <1>6, <1>7

\* Failing is not a document.
LEMMA FailKeeps ==
    ASSUME Fetching!IndInv, NEW kinds, "document" \notin kinds, Fetching!Fail(kinds)
    PROVE  Fetching!IndInv'
<1>1. PICK kind \in kinds : Fetching!Finish(Fetching!Refusal(kind, "failed"))
  BY DEF Fetching!Fail
<1>2. Fetching!Refusal(kind, "failed").kind # "document"
  BY DEF Fetching!Refusal
<1> QED
  BY <1>1, <1>2, FinishKeeps

LEMMA FailsKeep ==
    ASSUME Fetching!IndInv,
           \/ Fetching!EtcdFails \/ Fetching!ConsulFails \/ Fetching!RedisFails
           \/ Fetching!S3Fails \/ Fetching!NatsFails \/ Fetching!VaultFails
           \/ Fetching!FirestoreFails \/ Fetching!GitFails
    PROVE  Fetching!IndInv'
<1>1. Fetching!Fail({"remote", "auth"}) \/ Fetching!Fail({"remote"})
  BY DEF Fetching!EtcdFails, Fetching!ConsulFails, Fetching!RedisFails, Fetching!S3Fails,
     Fetching!NatsFails, Fetching!VaultFails, Fetching!FirestoreFails, Fetching!GitFails
<1> QED
  BY <1>1, FailKeeps

LEMMA RefusalIsNoDocument ==
    \A kind, why : kind # "document" => Fetching!Refusal(kind, why).kind # "document"
  BY DEF Fetching!Refusal

\* What is to be read stays as it is when nobody touches what it is made of.
LEMMA ToReadStays ==
    ASSUME UNCHANGED <<fetchStore, list, fetchAt, found, left, fetchHeld, commit>>
    PROVE  Fetching!ReadsInOrder' <=> Fetching!ReadsInOrder
<1>1. Fetching!ReadsPrefix' = Fetching!ReadsPrefix
  BY DEF Fetching!ReadsPrefix
<1>2. Fetching!Batch' = Fetching!Batch
  BY <1>1 DEF Fetching!Batch, Fetching!Shape
<1>3. Fetching!Present(commit)' = Fetching!Present(commit)
  BY DEF Fetching!Present, Fetching!InOrder, Fetching!Holding
<1>4. Fetching!InOrder(found)' = Fetching!InOrder(found)
  BY DEF Fetching!InOrder
<1>5. Fetching!ToRead' = Fetching!ToRead
  BY <1>1, <1>3, <1>4 DEF Fetching!ToRead
<1> QED
  BY <1>1, <1>2, <1>5 DEF Fetching!ReadsInOrder

LEMMA WriteKeepsFetch == ASSUME Fetching!IndInv, Fetching!Write PROVE Fetching!IndInv'
<1> USE DEF Fetching!place, Fetching!finding
<1>1. PICK k \in Fetching!Keys,
           d \in {Fetching!Nothing} \cup [supplies : Supplies, write : {Len(history)}] :
          history' = Append(history, [Fetching!Now EXCEPT ![k] = d])
  BY DEF Fetching!Write
<1>2. /\ fetchAt # "done"
      /\ UNCHANGED <<fetchStore, list, fetchAt, found, cursor, rounds, left, fetchHeld, commit,
                     fetchAnswer>>
  BY DEF Fetching!Write
<1> DEFINE next == [Fetching!Now EXCEPT ![k] = d]
<1>3. Fetching!FetchIsTyped /\ history \in Seq(Fetching!State) /\ Len(history) \in Nat \ {0}
  BY DEF Fetching!IndInv, Fetching!FetchIsTyped
<1>4. next \in Fetching!State
  <2>1. Fetching!Now \in Fetching!State
    BY <1>3, NowIsAState
  <2>2. d \in {Fetching!Nothing} \cup Fetching!Document
    BY <1>3 DEF Fetching!Document
  <2> QED
    BY <2>1, <2>2 DEF Fetching!State
<1> HIDE DEF next
<1>5. /\ history' \in Seq(Fetching!State) /\ Len(history') > 0
      /\ Fetching!ToSet(history') = Fetching!ToSet(history) \cup {next}
  <2>1. /\ history' \in Seq(Fetching!State) /\ Len(history') = Len(history) + 1
        /\ history'[Len(history) + 1] = next
        /\ \A i \in 1 .. Len(history) : history'[i] = history[i]
    BY <1>1, <1>3, <1>4 DEF next
  <2>2. Fetching!ToSet(history') = {history'[i] : i \in 1 .. Len(history) + 1}
    BY <2>1 DEF Fetching!ToSet
  <2>3. Fetching!ToSet(history) = {history[i] : i \in 1 .. Len(history)}
    BY <1>3 DEF Fetching!ToSet
  <2>4. 1 .. Len(history) + 1 = (1 .. Len(history)) \cup {Len(history) + 1}
    BY <1>3
  <2> QED
    BY <1>3, <2>1, <2>2, <2>3, <2>4
<1>6. Fetching!FetchIsTyped'
  BY <1>2, <1>3, <1>5 DEF Fetching!FetchIsTyped, Fetching!Shape, Fetching!ReadsPrefix
<1>7. Fetching!WereThere(fetchHeld)'
  BY <1>2, <1>5 DEF Fetching!IndInv, Fetching!WereThere
<1>8. Fetching!ReadsInOrder'
  BY <1>2, ToReadStays DEF Fetching!IndInv
<1>9. Fetching!ReadsTheCommit'
  BY <1>2 DEF Fetching!IndInv, Fetching!ReadsTheCommit, Fetching!HeldAt
<1>10. Fetching!AllTheWhile' \subseteq Fetching!AllTheWhile
  BY <1>5 DEF Fetching!AllTheWhile
<1>11. Fetching!PassedIsFound'
  BY <1>2, <1>10 DEF Fetching!IndInv, Fetching!PassedIsFound, Fetching!ReadsPrefix
<1>12. Fetching!AnswerIsWhole'
  BY <1>2 DEF Fetching!IndInv, Fetching!AnswerIsWhole, Fetching!Answered
<1> QED
  BY <1>6, <1>7, <1>8, <1>9, <1>11, <1>12 DEF Fetching!IndInv

\* A list, taken whole in one request.
LEMMA ListIsTakenWhole ==
    ASSUME Fetching!IndInv, ~Fetching!ReadsPrefix, fetchStore # "git",
           NEW keys, keys = list, Fetching!Take(Fetching!Pairs(keys, Fetching!Now)),
           \A k \in Fetching!ToSet(list) : Fetching!Now[k] # Fetching!Nothing
    PROVE  Fetching!IndInv'
<1> DEFINE pairs == Fetching!Pairs(list, Fetching!Now)
<1>1. Fetching!FetchIsTyped
  BY DEF Fetching!IndInv
<1>2. Fetching!Now \in Fetching!ToSet(history)
  BY <1>1, NowIsAState
<1>3. list \in Seq(Fetching!Keys)
      /\ \A i \in DOMAIN list : Fetching!Now[list[i]] # Fetching!Nothing
  BY <1>1, ListIsOfKeys DEF Fetching!ToSet
<1> HIDE DEF pairs
<1>4. /\ pairs \in Seq(Fetching!Keys \X ({Fetching!Nothing} \cup Fetching!Document))
      /\ DOMAIN pairs = DOMAIN list
      /\ \A i \in DOMAIN pairs :
             /\ pairs[i][1] = list[i] /\ pairs[i][2] = Fetching!Now[list[i]]
             /\ pairs[i][2] # Fetching!Nothing
      /\ Fetching!WereThere(pairs)
  BY <1>1, <1>2, <1>3, PairsOfAState DEF pairs
<1>5. Fetching!IsWhole(pairs)
  BY <1>2, <1>4 DEF Fetching!IsWhole
<1> QED
  BY <1>4, <1>5, TakeKeeps DEF pairs

LEMMA TakeListKeeps ==
    ASSUME Fetching!IndInv, ~Fetching!ReadsPrefix, fetchStore # "git", Fetching!TakeList
    PROVE  Fetching!IndInv'
<1>1. CASE \E k \in Fetching!ToSet(list) : Fetching!Now[k] = Fetching!Nothing
  <2>1. Fetching!Finish(Fetching!Refusal("remote", "missing"))
    BY <1>1 DEF Fetching!TakeList
  <2> QED
    BY <2>1, RefusalIsNoDocument, FinishKeeps
<1>2. CASE ~\E k \in Fetching!ToSet(list) : Fetching!Now[k] = Fetching!Nothing
  BY <1>2, ListIsTakenWhole DEF Fetching!TakeList
<1> QED
  BY <1>1, <1>2

\* What is under a prefix, taken whole in one request.
LEMMA PrefixIsTakenWhole ==
    ASSUME Fetching!IndInv, Fetching!ReadsPrefix, fetchStore # "git",
           Fetching!Take(Fetching!Pairs(Fetching!Present(Fetching!Now), Fetching!Now))
    PROVE  Fetching!IndInv'
<1> DEFINE keys == Fetching!Present(Fetching!Now)
           pairs == Fetching!Pairs(keys, Fetching!Now)
           Holds == Fetching!Holding(Fetching!Now)
<1>1. Fetching!FetchIsTyped
  BY DEF Fetching!IndInv
<1>2. Fetching!Now \in Fetching!ToSet(history)
  BY <1>1, NowIsAState
<1>3. Holds \in SUBSET Fetching!Keys
  BY HoldingIsOfKeys
<1>4. /\ keys \in Seq(Holds) /\ {keys[i] : i \in DOMAIN keys} = Holds
      /\ \A i, j \in DOMAIN keys : keys[i] = keys[j] => i = j
  BY <1>3, InOrderIsAll DEF Fetching!Present
<1> HIDE DEF keys
<1>5. keys \in Seq(Fetching!Keys) /\ \A i \in DOMAIN keys : Fetching!Now[keys[i]] # Fetching!Nothing
  BY <1>3, <1>4 DEF Fetching!Holding
<1> HIDE DEF pairs, Holds
<1>6. /\ pairs \in Seq(Fetching!Keys \X ({Fetching!Nothing} \cup Fetching!Document))
      /\ DOMAIN pairs = DOMAIN keys
      /\ \A i \in DOMAIN pairs :
             /\ pairs[i][1] = keys[i] /\ pairs[i][2] = Fetching!Now[keys[i]]
             /\ pairs[i][2] # Fetching!Nothing
      /\ {pairs[i][1] : i \in DOMAIN pairs} = {keys[i] : i \in DOMAIN keys}
      /\ Fetching!WereThere(pairs)
  BY <1>1, <1>2, <1>5, PairsOfAState DEF pairs
<1>7. Fetching!AllTheWhile \subseteq Holds
  BY <1>2 DEF Fetching!AllTheWhile, Fetching!Holding, Holds
<1>8. Fetching!IsWhole(pairs)
  <2> DEFINE read == {pairs[i][1] : i \in DOMAIN pairs}
  <2>1. read = Holds
    BY <1>4, <1>6
  <2>2. \A i, j \in DOMAIN pairs : pairs[i][1] = pairs[j][1] => i = j
    BY <1>4, <1>6
  <2>3. \E s \in Fetching!ToSet(history) :
           /\ \A i \in DOMAIN pairs : pairs[i][2] = s[pairs[i][1]]
           /\ Fetching!ReadsPrefix => read = Fetching!Holding(s)
    BY <1>2, <1>6, <2>1 DEF Holds
  <2> QED
    BY <1>6, <1>7, <2>1, <2>2, <2>3 DEF Fetching!IsWhole
<1> QED
  BY <1>6, <1>8, TakeKeeps DEF pairs, keys

LEMMA EtcdKeepsFetch ==
    ASSUME Fetching!IndInv,
           Fetching!EtcdGetOne \/ Fetching!EtcdGetSeveral \/ Fetching!EtcdGetPrefix
    PROVE  Fetching!IndInv'
<1>1. CASE Fetching!EtcdGetOne \/ Fetching!EtcdGetSeveral
  <2>1. fetchStore # "git" /\ ~Fetching!ReadsPrefix /\ Fetching!TakeList
    BY <1>1, ShapeOfAPrefix DEF Fetching!EtcdGetOne, Fetching!EtcdGetSeveral
  <2> QED
    BY <2>1, TakeListKeeps
<1>2. CASE Fetching!EtcdGetPrefix
  <2> DEFINE all == Fetching!Present(Fetching!Now)
  <2>1. fetchStore # "git" /\ Fetching!ReadsPrefix
    BY <1>2, ShapeOfAPrefix DEF Fetching!EtcdGetPrefix
  <2>2. CASE ~Fetching!WithinKeyBudget(Len(Fetching!EtcdRange))
    <3>1. Fetching!Finish(Fetching!Refusal("remote", "budget"))
      BY <1>2, <2>2 DEF Fetching!EtcdGetPrefix
    <3> QED
      BY <3>1, RefusalIsNoDocument, FinishKeeps
  <2>3. CASE Fetching!WithinKeyBudget(Len(Fetching!EtcdRange))
    <3>1. all \in Seq(Fetching!Holding(Fetching!Now)) /\ Len(all) \in Nat
      BY HoldingIsOfKeys, InOrderIsAll DEF Fetching!Present
    <3> HIDE DEF all
    <3> DEFINE least == Fetching!Min({Len(all), MostKeys + 1})
    <3>2. MostKeys \in Nat
      BY FetchBounds
    <3>3. least = IF Len(all) <= MostKeys + 1 THEN Len(all) ELSE MostKeys + 1
      BY <3>1, <3>2 DEF Fetching!Min
    <3> HIDE DEF least
    <3>4. Fetching!EtcdRange = SubSeq(all, 1, least)
      BY DEF Fetching!EtcdRange, all, least
    <3>5. Len(SubSeq(all, 1, least)) = least
      BY <3>1, <3>2, <3>3
    <3>6. least <= MostKeys
      BY <2>3, <3>4, <3>5 DEF Fetching!WithinKeyBudget
    <3>7. least = Len(all)
      BY <3>1, <3>2, <3>3, <3>6
    <3>8. Fetching!EtcdRange = all
      BY <3>1, <3>4, <3>7
    <3>9. Fetching!Take(Fetching!Pairs(all, Fetching!Now))
      BY <1>2, <2>3, <3>8 DEF Fetching!EtcdGetPrefix
    <3> QED
      BY <2>1, <3>9, PrefixIsTakenWhole DEF all
  <2> QED
    BY <2>2, <2>3
<1> QED
  BY <1>1, <1>2

\* Of Consul's reads only a subtree is of one state, and it is not read key by key.
LEMMA ConsulKeepsFetch ==
    ASSUME Fetching!IndInv, Fetching!ConsulDocuments \/ Fetching!ConsulSubtree
    PROVE  Fetching!IndInv'
<1>1. Fetching!FetchIsTyped
  BY DEF Fetching!IndInv
<1>2. CASE Fetching!ConsulDocuments
  <2>1. /\ fetchStore = "consul" /\ fetchAt = "finding" /\ ~Fetching!ReadsPrefix
        /\ Fetching!Shape # "prefix"
        /\ Fetching!ReadNextOf(Fetching!Now, "remote")
    BY <1>2, ShapeOfAPrefix DEF Fetching!ConsulDocuments, Fetching!ReadNext
  <2>2. ~Fetching!Batch /\ ~Fetching!SaidToBeAtomic
    BY <2>1 DEF Fetching!Batch, Fetching!SaidToBeAtomic
  <2> QED
    BY <1>1, <2>1, <2>2, NowIsAState, ReadNextKeeps
<1>3. CASE Fetching!ConsulSubtree
  <2>1. fetchStore # "git" /\ Fetching!ReadsPrefix
    BY <1>3, ShapeOfAPrefix DEF Fetching!ConsulSubtree
  <2>2. \/ Fetching!Take(Fetching!Pairs(Fetching!Present(Fetching!Now), Fetching!Now))
        \/ Fetching!Finish(Fetching!Refusal("remote", "budget"))
    BY <1>3 DEF Fetching!ConsulSubtree
  <2> QED
    BY <2>1, <2>2, PrefixIsTakenWhole, RefusalIsNoDocument, FinishKeeps
<1> QED
  BY <1>2, <1>3

\* One key after the other: S3, NATS, Vault, Firestore's one, and a commit's files.
LEMMA ReadsKeep ==
    ASSUME Fetching!IndInv,
           \/ Fetching!S3Object \/ Fetching!NatsRead \/ Fetching!VaultReadOne
           \/ Fetching!FirestoreRead \/ Fetching!GitReadBlob
    PROVE  Fetching!IndInv'
<1>1. Fetching!FetchIsTyped /\ Fetching!Now \in Fetching!ToSet(history)
  BY NowIsAState DEF Fetching!IndInv
<1>2. CASE Fetching!S3Object
  <2>1. /\ fetchStore = "s3" /\ fetchAt \in {"finding", "reading"}
        /\ Fetching!ReadsPrefix => fetchAt = "reading"
        /\ Fetching!ReadNextOf(Fetching!Now, "remote")
    BY <1>2 DEF Fetching!S3Object, Fetching!ReadNext
  <2>2. ~Fetching!Batch /\ ~Fetching!SaidToBeAtomic
    BY <2>1 DEF Fetching!Batch, Fetching!SaidToBeAtomic
  <2> QED
    BY <1>1, <2>1, <2>2, ReadNextKeeps
<1>3. CASE Fetching!NatsRead \/ Fetching!VaultReadOne \/ Fetching!FirestoreRead
  <2>1. /\ fetchStore \in {"nats", "vault", "firestore"} /\ fetchAt = "finding"
        /\ fetchStore = "firestore" => Fetching!Shape = "one"
    BY <1>3 DEF Fetching!NatsRead, Fetching!VaultReadOne, Fetching!FirestoreRead
  <2>2. \E missing \in {"remote", "absent"} : Fetching!ReadNextOf(Fetching!Now, missing)
    BY <1>3 DEF Fetching!NatsRead, Fetching!VaultReadOne, Fetching!FirestoreRead,
       Fetching!ReadNext
  <2>3. ~Fetching!Batch /\ ~Fetching!SaidToBeAtomic
    BY <2>1 DEF Fetching!Batch, Fetching!SaidToBeAtomic
  <2>4. ~Fetching!ReadsPrefix
    BY <1>1, <2>1, PrefixesAreOfFive
  <2> QED
    BY <1>1, <2>1, <2>2, <2>3, <2>4, ReadNextKeeps
<1>4. CASE Fetching!GitReadBlob
  <2>1. /\ fetchStore = "git" /\ fetchAt = "reading"
        /\ Fetching!ReadNextOf(commit, "remote")
    BY <1>4 DEF Fetching!GitReadBlob
  <2>2. ~Fetching!Batch /\ commit \in Fetching!ToSet(history)
    BY <1>1, <2>1 DEF Fetching!Batch, Fetching!FetchIsTyped
  <2> QED
    BY <2>1, <2>2, ReadNextKeeps
<1> QED
  BY <1>2, <1>3, <1>4

\* A round of a search: what is passed and holds something is found.
LEMMA RoundKeeps ==
    ASSUME Fetching!IndInv, fetchStore \in {"redis", "s3"}, Fetching!ReadsPrefix,
           fetchAt = "finding", NEW passed \in SUBSET cursor, NEW all,
           all = found \cup {k \in passed : Fetching!Now[k] # Fetching!Nothing},
           fetchStore = "s3" /\ passed = cursor => all # {},
           found' = all, cursor' = cursor \ passed,
           fetchAt' = (IF passed = cursor THEN "reading" ELSE "finding"),
           passed = cursor => left' = Fetching!InOrder(all),
           UNCHANGED <<history, Fetching!place, fetchHeld, commit, fetchAnswer>>
    PROVE  Fetching!IndInv'
<1> USE DEF Fetching!place
<1>1. Fetching!FetchIsTyped /\ Fetching!Now \in Fetching!ToSet(history)
  BY NowIsAState DEF Fetching!IndInv
<1>2. all \in SUBSET Fetching!Keys
  BY <1>1 DEF Fetching!FetchIsTyped
<1>3. Fetching!FetchIsTyped'
  BY <1>1, <1>2 DEF Fetching!FetchIsTyped, Fetching!Shape, Fetching!ReadsPrefix
<1>4. Fetching!WereThere(fetchHeld)'
  BY DEF Fetching!IndInv, Fetching!WereThere
<1>5. fetchHeld = << >>
  <2>1. ~Fetching!Batch
    BY DEF Fetching!Batch
  <2> QED
    BY <2>1 DEF Fetching!IndInv, Fetching!ReadsInOrder
<1>6. Fetching!ReadsInOrder'
  <2>1. CASE passed # cursor
    BY <1>5, <2>1 DEF Fetching!ReadsInOrder, Fetching!ReadsPrefix
  <2>2. CASE passed = cursor
    <3> DEFINE t == Fetching!InOrder(all)
    <3>1. t \in Seq(all) /\ Len(t) = Cardinality(all) /\ Len(t) \in Nat /\ IsFiniteSet(all)
      BY <1>2, InOrderIsAll
    <3>2. fetchStore = "s3" => Len(t) # 0
      BY <2>2, <3>1, FS_EmptySet
    <3>3. Fetching!ToRead' = t
      BY DEF Fetching!ToRead, Fetching!ReadsPrefix
    <3> HIDE DEF t
    <3>4. fetchHeld' = << >> /\ Len(fetchHeld') = 0
      BY <1>5
    <3>5. left' = SubSeq(t, Len(fetchHeld') + 1, Len(t))
      BY <2>2, <3>1, <3>4 DEF t
    <3>6. fetchStore' = "redis" \/ 0 < Len(t)
      BY <3>1, <3>2
    <3> QED
      BY <3>3, <3>4, <3>5, <3>6 DEF Fetching!ReadsInOrder
  <2> QED
    BY <2>1, <2>2
<1>7. Fetching!ReadsTheCommit'
  BY DEF Fetching!ReadsTheCommit
<1>8. Fetching!PassedIsFound'
  <2>1. Fetching!AllTheWhile \ cursor \subseteq found
    BY DEF Fetching!IndInv, Fetching!PassedIsFound
  <2>2. \A k \in Fetching!AllTheWhile : Fetching!Now[k] # Fetching!Nothing
    BY <1>1 DEF Fetching!AllTheWhile
  <2>3. Fetching!AllTheWhile' = Fetching!AllTheWhile
    BY DEF Fetching!AllTheWhile
  <2>4. Fetching!AllTheWhile' \ cursor' \subseteq found'
    BY <2>1, <2>2, <2>3
  <2> QED
    BY <2>4 DEF Fetching!PassedIsFound
<1>9. Fetching!AnswerIsWhole'
  BY DEF Fetching!IndInv, Fetching!AnswerIsWhole, Fetching!Answered
<1> QED
  BY <1>3, <1>4, <1>6, <1>7, <1>8, <1>9 DEF Fetching!IndInv

LEMMA RedisScanKeeps == ASSUME Fetching!IndInv, Fetching!RedisScan PROVE Fetching!IndInv'
<1>1. CASE rounds = MostRounds
  <2>1. Fetching!Finish(Fetching!Refusal("remote", "rounds"))
    BY <1>1 DEF Fetching!RedisScan
  <2> QED
    BY <2>1, RefusalIsNoDocument, FinishKeeps
<1>2. CASE rounds # MostRounds
  <2> DEFINE All(passed) == found \cup {k \in passed : Fetching!Now[k] # Fetching!Nothing}
  <2>1. PICK passed \in SUBSET cursor :
            IF ~Fetching!WithinKeyBudget(Fetching!Cardinality(All(passed)))
            THEN Fetching!Finish(Fetching!Refusal("remote", "budget"))
            ELSE /\ found' = All(passed)
                 /\ cursor' = cursor \ passed
                 /\ fetchAt' = IF passed = cursor THEN "reading" ELSE "finding"
                 /\ left' = IF passed = cursor THEN Fetching!InOrder(All(passed)) ELSE left
                 /\ UNCHANGED <<history, Fetching!place, fetchHeld, commit, fetchAnswer>>
    BY <1>2 DEF Fetching!RedisScan
  <2>2. fetchStore = "redis" /\ Fetching!ReadsPrefix /\ fetchAt = "finding"
    BY DEF Fetching!RedisScan
  <2>3. CASE ~Fetching!WithinKeyBudget(Fetching!Cardinality(All(passed)))
    BY <2>1, <2>3, RefusalIsNoDocument, FinishKeeps
  <2>4. CASE Fetching!WithinKeyBudget(Fetching!Cardinality(All(passed)))
    BY <2>1, <2>2, <2>4, RoundKeeps
  <2> QED
    BY <2>3, <2>4
<1> QED
  BY <1>1, <1>2

LEMMA S3ListedKeeps == ASSUME Fetching!IndInv, Fetching!S3Listed PROVE Fetching!IndInv'
<1>1. CASE rounds = MostRounds
  <2>1. Fetching!Finish(Fetching!Refusal("remote", "rounds"))
    BY <1>1 DEF Fetching!S3Listed
  <2> QED
    BY <2>1, RefusalIsNoDocument, FinishKeeps
<1>2. CASE rounds # MostRounds
  <2> DEFINE Passed(n) == {k \in cursor : \E i \in 1 .. n : InKeyOrder[i] = k}
             All(passed) == found \cup {k \in passed : Fetching!Now[k] # Fetching!Nothing}
  <2>1. PICK n \in 0 .. Len(InKeyOrder) :
            IF ~Fetching!WithinKeyBudget(Fetching!Cardinality(All(Passed(n))))
            THEN Fetching!Finish(Fetching!Refusal("remote", "budget"))
            ELSE IF Passed(n) = cursor /\ All(Passed(n)) = {}
            THEN Fetching!Finish(Fetching!Refusal("remote", "missing"))
            ELSE /\ found' = All(Passed(n))
                 /\ cursor' = cursor \ Passed(n)
                 /\ fetchAt' = IF Passed(n) = cursor THEN "reading" ELSE "finding"
                 /\ left' = IF Passed(n) = cursor
                            THEN Fetching!InOrder(All(Passed(n))) ELSE left
                 /\ UNCHANGED <<history, Fetching!place, fetchHeld, commit, fetchAnswer>>
    BY <1>2 DEF Fetching!S3Listed
  <2>2. fetchStore = "s3" /\ Fetching!ReadsPrefix /\ fetchAt = "finding"
    BY DEF Fetching!S3Listed
  <2> DEFINE passed == Passed(n)
             all == All(passed)
  <2>3. passed \in SUBSET cursor
    OBVIOUS
  <2>4. all = found \cup {k \in passed : Fetching!Now[k] # Fetching!Nothing}
    OBVIOUS
  <2> HIDE DEF All, Passed, passed, all
  <2>5. CASE Fetching!Finish(Fetching!Refusal("remote", "budget"))
             \/ Fetching!Finish(Fetching!Refusal("remote", "missing"))
    BY <2>5, RefusalIsNoDocument, FinishKeeps
  <2>6. CASE /\ ~(passed = cursor /\ all = {})
             /\ found' = all
             /\ cursor' = cursor \ passed
             /\ fetchAt' = IF passed = cursor THEN "reading" ELSE "finding"
             /\ left' = IF passed = cursor THEN Fetching!InOrder(all) ELSE left
             /\ UNCHANGED <<history, Fetching!place, fetchHeld, commit, fetchAnswer>>
    BY <2>2, <2>3, <2>4, <2>6, RoundKeeps
  <2> QED
    BY <2>1, <2>5, <2>6 DEF passed, all
<1> QED
  BY <1>1, <1>2

\* One MGET, of the list or of what was found.
LEMMA RedisReadKeeps == ASSUME Fetching!IndInv, Fetching!RedisRead PROVE Fetching!IndInv'
<1>1. Fetching!FetchIsTyped /\ Fetching!Now \in Fetching!ToSet(history)
  BY NowIsAState DEF Fetching!IndInv
<1>2. /\ fetchStore = "redis" /\ fetchAt \in {"finding", "reading"}
      /\ Fetching!ReadsPrefix => fetchAt = "reading"
  BY DEF Fetching!RedisRead
<1> DEFINE gone == left = << >>
               \/ \E k \in Fetching!ToSet(left) : Fetching!Now[k] = Fetching!Nothing
<1>3. CASE gone
  <2>1. Fetching!Finish(Fetching!Refusal("remote", "missing"))
    BY <1>3 DEF Fetching!RedisRead
  <2> QED
    BY <2>1, RefusalIsNoDocument, FinishKeeps
<1>4. CASE ~gone
  <2> DEFINE t == Fetching!ToRead
             pairs == Fetching!Pairs(t, Fetching!Now)
  <2>1. t \in Seq(Fetching!Keys)
    BY <1>1, KeysToRead
  <2>2. left = t
    <3>1. ~Fetching!Batch
      BY <1>2 DEF Fetching!Batch
    <3>2. fetchHeld = << >> /\ left = SubSeq(t, Len(fetchHeld) + 1, Len(t))
      BY <1>2, <3>1 DEF Fetching!IndInv, Fetching!ReadsInOrder
    <3> HIDE DEF t
    <3>3. left = SubSeq(t, 1, Len(t))
      BY <3>2
    <3> QED
      BY <2>1, <3>3
  <2>3. Fetching!Take(pairs)
    BY <1>4, <2>2 DEF Fetching!RedisRead
  <2>4. \A i \in DOMAIN t : Fetching!Now[t[i]] # Fetching!Nothing
    BY <1>4, <2>2 DEF Fetching!ToSet
  <2>5. CASE ~Fetching!ReadsPrefix
    <3>1. t = list
      BY <1>1, <2>5, KeysToRead
    <3>2. \A k \in Fetching!ToSet(list) : Fetching!Now[k] # Fetching!Nothing
      BY <2>4, <3>1 DEF Fetching!ToSet
    <3> QED
      BY <1>2, <2>3, <2>5, <3>1, <3>2, ListIsTakenWhole
  <2>6. CASE Fetching!ReadsPrefix
    <3>1. /\ {t[i] : i \in DOMAIN t} = found
          /\ \A i, j \in DOMAIN t : t[i] = t[j] => i = j
      BY <1>1, <1>2, <2>6, KeysToRead
    <3>2. Fetching!AllTheWhile \subseteq found
      BY <1>2, <2>6 DEF Fetching!IndInv, Fetching!PassedIsFound
    <3>3. ~Fetching!SaidToBeAtomic
      BY <1>2, <2>6, ShapeOfAPrefix DEF Fetching!SaidToBeAtomic
    <3> HIDE DEF t, pairs
    <3>4. /\ pairs \in Seq(Fetching!Keys \X ({Fetching!Nothing} \cup Fetching!Document))
          /\ DOMAIN pairs = DOMAIN t
          /\ \A i \in DOMAIN pairs : pairs[i][1] = t[i] /\ pairs[i][2] # Fetching!Nothing
          /\ {pairs[i][1] : i \in DOMAIN pairs} = {t[i] : i \in DOMAIN t}
          /\ Fetching!WereThere(pairs)
      BY <1>1, <2>1, <2>4, PairsOfAState DEF pairs
    <3>5. Fetching!IsWhole(pairs)
      BY <2>6, <3>1, <3>2, <3>3, <3>4 DEF Fetching!IsWhole
    <3> QED
      BY <1>2, <2>3, <3>4, <3>5, TakeKeeps
  <2> QED
    BY <2>5, <2>6
<1> QED
  BY <1>3, <1>4

LEMMA FirestoreServesKeeps ==
    ASSUME Fetching!IndInv, Fetching!FirestoreServes PROVE Fetching!IndInv'
<1> USE DEF Fetching!place, Fetching!finding
<1> DEFINE Pair == Fetching!Keys \X ({Fetching!Nothing} \cup Fetching!Document)
           n == Len(fetchHeld)
<1>1. Fetching!FetchIsTyped /\ Fetching!Now \in Fetching!ToSet(history)
      /\ Fetching!Now \in Fetching!State
  BY NowIsAState DEF Fetching!IndInv
<1>2. fetchStore = "firestore" /\ fetchAt = "finding" /\ Fetching!Shape = "several"
  BY DEF Fetching!FirestoreServes
<1>3. ~Fetching!ReadsPrefix
  BY <1>2, ShapeOfAPrefix
<1>4. PICK k \in Fetching!ToSet(list) :
          fetchHeld' = Append(fetchHeld, <<k, Fetching!Now[k]>>)
  BY DEF Fetching!FirestoreServes
<1>5. UNCHANGED <<history, fetchStore, list, fetchAt, found, cursor, rounds, left, commit,
                  fetchAnswer>>
  BY DEF Fetching!FirestoreServes
<1>6. k \in Fetching!Keys
  BY <1>1, <1>3, ListIsOfKeys DEF Fetching!ToSet
<1>7. <<k, Fetching!Now[k]>> \in Pair
  BY <1>1, <1>6 DEF Fetching!State
<1>8. fetchHeld \in Seq(Pair) /\ n \in Nat
  BY <1>1 DEF Fetching!FetchIsTyped
<1> HIDE DEF Pair
<1>9. /\ fetchHeld' \in Seq(Pair) /\ DOMAIN fetchHeld' = 1 .. n + 1
      /\ fetchHeld'[n + 1] = <<k, Fetching!Now[k]>>
      /\ \A i \in 1 .. n : fetchHeld'[i] = fetchHeld[i] /\ i \in DOMAIN fetchHeld
  BY <1>4, <1>7, <1>8
<1>10. Fetching!FetchIsTyped'
  BY <1>1, <1>5, <1>9 DEF Fetching!FetchIsTyped, Fetching!Shape, Fetching!ReadsPrefix, Pair
<1>11. Fetching!WereThere(fetchHeld)'
  <2> SUFFICES ASSUME NEW i \in DOMAIN fetchHeld'
               PROVE  \E s \in Fetching!ToSet(history) : fetchHeld'[i][2] = s[fetchHeld'[i][1]]
    BY <1>5 DEF Fetching!WereThere
  <2>1. CASE i \in 1 .. n
    BY <1>9, <2>1 DEF Fetching!IndInv, Fetching!WereThere
  <2>2. CASE i = n + 1
    BY <1>1, <1>9, <2>2
  <2> QED
    BY <1>8, <1>9, <2>1, <2>2
<1>12. Fetching!ReadsInOrder'
  BY <1>2, <1>5 DEF Fetching!ReadsInOrder, Fetching!Batch, Fetching!Shape, Fetching!ReadsPrefix
<1>13. Fetching!ReadsTheCommit'
  BY <1>2, <1>5 DEF Fetching!ReadsTheCommit
<1>14. Fetching!PassedIsFound'
  BY <1>2, <1>5 DEF Fetching!PassedIsFound
<1>15. Fetching!AnswerIsWhole'
  BY <1>2, <1>5 DEF Fetching!IndInv, Fetching!AnswerIsWhole, Fetching!Answered
<1> QED
  BY <1>10, <1>11, <1>12, <1>13, <1>14, <1>15 DEF Fetching!IndInv

\* The one answer for each key of the call, in the order of the call.
LEMMA FirestoreBatchKeeps ==
    ASSUME Fetching!IndInv, Fetching!FirestoreBatch PROVE Fetching!IndInv'
<1> DEFINE Pair == Fetching!Keys \X ({Fetching!Nothing} \cup Fetching!Document)
           Found(k) == {i \in DOMAIN fetchHeld : fetchHeld[i][1] = k}
           pairs == [i \in DOMAIN list |-> fetchHeld[CHOOSE j \in Found(list[i]) : TRUE]]
           gone == \E i \in DOMAIN fetchHeld : fetchHeld[i][2] = Fetching!Nothing
           unanswered == \E k \in Fetching!ToSet(list) : Fetching!Cardinality(Found(k)) # 1
<1>1. Fetching!FetchIsTyped /\ fetchHeld \in Seq(Pair)
  BY DEF Fetching!IndInv, Fetching!FetchIsTyped
<1>2. fetchStore = "firestore" /\ Fetching!Shape = "several" /\ ~Fetching!ReadsPrefix
  BY ShapeOfAPrefix DEF Fetching!FirestoreBatch
<1>3. IF gone THEN Fetching!Finish(Fetching!Refusal("remote", "missing"))
      ELSE IF unanswered THEN Fetching!Finish(Fetching!Refusal("remote", "unanswered"))
      ELSE Fetching!Take(pairs)
  BY DEF Fetching!FirestoreBatch
<1>4. CASE gone \/ unanswered
  BY <1>3, <1>4, RefusalIsNoDocument, FinishKeeps
<1>5. CASE ~gone /\ ~unanswered
  <2>1. Fetching!Take(pairs)
    BY <1>3, <1>5
  <2>2. list \in Seq(Fetching!Keys)
    BY <1>1, <1>2, ListIsOfKeys
  <2>3. ASSUME NEW i \in DOMAIN list
        PROVE  \E j \in DOMAIN fetchHeld : pairs[i] = fetchHeld[j] /\ fetchHeld[j][1] = list[i]
    <3>1. Cardinality(Found(list[i])) = 1
      BY <1>5, SameSize DEF Fetching!ToSet
    <3>2. Found(list[i]) # {}
      BY <3>1, FS_EmptySet
    <3> QED
      BY <3>2
  <2>4. pairs \in Seq(Pair) /\ DOMAIN pairs = DOMAIN list
    <3>1. \A i \in 1 .. Len(list) : pairs[i] \in Pair
      BY <1>1, <2>2, <2>3
    <3> HIDE DEF Pair
    <3>2. pairs = [i \in 1 .. Len(list) |-> pairs[i]]
      BY <2>2
    <3> HIDE DEF pairs
    <3> QED
      BY <2>2, <3>1, <3>2
  <2> HIDE DEF pairs, Found, Pair
  <2>5. Fetching!WereThere(pairs)
    BY <2>3, <2>4 DEF Fetching!IndInv, Fetching!WereThere
  <2>6. \A i \in DOMAIN pairs : pairs[i][1] = list[i] /\ pairs[i][2] # Fetching!Nothing
    BY <1>5, <2>3, <2>4
  <2>7. ~Fetching!SaidToBeAtomic
    BY <1>2 DEF Fetching!SaidToBeAtomic
  <2>8. Fetching!IsWhole(pairs)
    BY <1>2, <2>4, <2>6, <2>7 DEF Fetching!IsWhole
  <2> QED
    BY <1>2, <2>1, <2>4, <2>5, <2>8, TakeKeeps DEF Pair
<1> QED
  BY <1>4, <1>5

LEMMA GitAdvertisedKeeps == ASSUME Fetching!IndInv, Fetching!GitAdvertised PROVE Fetching!IndInv'
<1> USE DEF Fetching!place, Fetching!finding
<1>1. Fetching!FetchIsTyped /\ Fetching!Now \in Fetching!ToSet(history)
  BY NowIsAState DEF Fetching!IndInv
<1>2. /\ fetchStore = "git" /\ fetchAt = "finding" /\ commit' = Fetching!Now
      /\ fetchAt' = IF Fetching!ReadsPrefix THEN "walking" ELSE "reading"
      /\ UNCHANGED <<history, fetchStore, list, found, cursor, rounds, left, fetchHeld,
                     fetchAnswer>>
  BY DEF Fetching!GitAdvertised
<1>3. ~Fetching!Batch /\ fetchHeld = << >>
  BY <1>2 DEF Fetching!IndInv, Fetching!ReadsTheCommit, Fetching!Batch
<1>4. Fetching!FetchIsTyped'
  BY <1>1, <1>2 DEF Fetching!FetchIsTyped, Fetching!Shape, Fetching!ReadsPrefix
<1>5. Fetching!WereThere(fetchHeld)'
  BY <1>2 DEF Fetching!IndInv, Fetching!WereThere
<1>6. Fetching!ReadsInOrder'
  <2>1. CASE Fetching!ReadsPrefix
    BY <1>2, <1>3, <2>1 DEF Fetching!ReadsInOrder, Fetching!ReadsPrefix
  <2>2. CASE ~Fetching!ReadsPrefix
    <3>1. Fetching!ToRead = list /\ Fetching!ToRead' = list
      BY <1>2, <2>2 DEF Fetching!ToRead, Fetching!ReadsPrefix
    <3> QED
      BY <1>2, <1>3, <2>2, <3>1 DEF Fetching!IndInv, Fetching!ReadsInOrder
  <2> QED
    BY <2>1, <2>2
<1>7. Fetching!ReadsTheCommit'
  BY <1>2, <1>3 DEF Fetching!ReadsTheCommit, Fetching!HeldAt
<1>8. Fetching!PassedIsFound'
  BY <1>2 DEF Fetching!PassedIsFound
<1>9. Fetching!AnswerIsWhole'
  BY <1>2 DEF Fetching!IndInv, Fetching!AnswerIsWhole, Fetching!Answered
<1> QED
  BY <1>4, <1>5, <1>6, <1>7, <1>8, <1>9 DEF Fetching!IndInv

LEMMA GitUnderKeeps == ASSUME Fetching!IndInv, Fetching!GitUnder PROVE Fetching!IndInv'
<1> USE DEF Fetching!place, Fetching!finding
<1> DEFINE all == Fetching!Present(commit)
<1>1. Fetching!FetchIsTyped
  BY DEF Fetching!IndInv
<1>2. fetchStore = "git" /\ fetchAt = "walking" /\ Fetching!ReadsPrefix
  BY <1>1 DEF Fetching!GitUnder, Fetching!FetchIsTyped
<1>3. CASE \/ Fetching!Finish(Fetching!Refusal("remote", "missing"))
           \/ Fetching!Finish(Fetching!Refusal("remote", "budget"))
  BY <1>3, RefusalIsNoDocument, FinishKeeps
<1>4. CASE /\ all # << >> /\ left' = all /\ fetchAt' = "reading"
           /\ UNCHANGED <<history, fetchStore, list, found, cursor, rounds, fetchHeld, commit,
                          fetchAnswer>>
  <2>1. ~Fetching!Batch /\ fetchHeld = << >>
    BY <1>2 DEF Fetching!IndInv, Fetching!ReadsInOrder, Fetching!Batch
  <2>2. all \in Seq(Fetching!Holding(commit)) /\ Len(all) \in Nat
    BY HoldingIsOfKeys, InOrderIsAll DEF Fetching!Present
  <2>3. Fetching!ToRead' = all
    BY <1>2, <1>4 DEF Fetching!ToRead, Fetching!ReadsPrefix, Fetching!Present,
       Fetching!Holding, Fetching!InOrder
  <2> HIDE DEF all
  <2>4. Len(all) # 0
    BY <1>4, <2>2
  <2>5. fetchHeld' = << >> /\ Len(fetchHeld') = 0
    BY <1>4, <2>1
  <2>6. left' = SubSeq(all, Len(fetchHeld') + 1, Len(all))
    BY <1>4, <2>2, <2>5
  <2>7. Fetching!FetchIsTyped'
    BY <1>1, <1>4 DEF Fetching!FetchIsTyped, Fetching!Shape, Fetching!ReadsPrefix
  <2>8. Fetching!WereThere(fetchHeld)'
    BY <1>4 DEF Fetching!IndInv, Fetching!WereThere
  <2>9. Fetching!ReadsInOrder'
    BY <1>2, <1>4, <2>2, <2>3, <2>4, <2>5, <2>6 DEF Fetching!ReadsInOrder
  <2>10. Fetching!ReadsTheCommit'
    BY <1>4, <2>1 DEF Fetching!ReadsTheCommit, Fetching!HeldAt
  <2>11. Fetching!PassedIsFound'
    BY <1>2, <1>4 DEF Fetching!PassedIsFound
  <2>12. Fetching!AnswerIsWhole'
    BY <1>2, <1>4 DEF Fetching!IndInv, Fetching!AnswerIsWhole, Fetching!Answered
  <2> QED
    BY <2>7, <2>8, <2>9, <2>10, <2>11, <2>12 DEF Fetching!IndInv
<1> QED
  BY <1>3, <1>4 DEF Fetching!GitUnder

LEMMA FetchNext == Fetching!IndInv /\ [Fetching!Next]_(Fetching!vars) => Fetching!IndInv'
<1> SUFFICES ASSUME Fetching!IndInv, [Fetching!Next]_(Fetching!vars) PROVE Fetching!IndInv'
  OBVIOUS
<1>1. CASE UNCHANGED Fetching!vars
  <2>1. UNCHANGED <<history, fetchStore, list, fetchAt, found, cursor, rounds, left, fetchHeld,
                    commit, fetchAnswer>>
    BY <1>1 DEF Fetching!vars, Fetching!place, Fetching!finding
  <2> USE DEF Fetching!IndInv
  <2>2. Fetching!FetchIsTyped'
    BY <2>1 DEF Fetching!FetchIsTyped, Fetching!Shape, Fetching!ReadsPrefix
  <2>3. Fetching!WereThere(fetchHeld)'
    BY <2>1 DEF Fetching!WereThere
  <2>4. Fetching!ReadsInOrder'
    BY <2>1, ToReadStays
  <2>5. Fetching!ReadsTheCommit'
    BY <2>1 DEF Fetching!ReadsTheCommit, Fetching!HeldAt
  <2>6. Fetching!PassedIsFound'
    BY <2>1 DEF Fetching!PassedIsFound, Fetching!AllTheWhile, Fetching!ReadsPrefix
  <2>7. Fetching!IsWhole(fetchHeld)' <=> Fetching!IsWhole(fetchHeld)
    BY <2>1 DEF Fetching!IsWhole, Fetching!ReadsPrefix, Fetching!AllTheWhile,
       Fetching!SaidToBeAtomic, Fetching!Shape
  <2>8. Fetching!Merged(fetchHeld)' = Fetching!Merged(fetchHeld)
    BY <2>1 DEF Fetching!Merged, Fetching!ReadsPrefix
  <2>9. Fetching!AnswerIsWhole'
    BY <2>1, <2>7, <2>8 DEF Fetching!AnswerIsWhole, Fetching!Answered
  <2> QED
    BY <2>2, <2>3, <2>4, <2>5, <2>6, <2>9
<1>2. CASE Fetching!Write
  BY <1>2, WriteKeepsFetch
<1>3. CASE \/ Fetching!EtcdFails \/ Fetching!ConsulFails \/ Fetching!RedisFails
           \/ Fetching!S3Fails \/ Fetching!NatsFails \/ Fetching!VaultFails
           \/ Fetching!FirestoreFails \/ Fetching!GitFails
  BY <1>3, FailsKeep
<1>4. CASE Fetching!EtcdGetOne \/ Fetching!EtcdGetSeveral \/ Fetching!EtcdGetPrefix
  BY <1>4, EtcdKeepsFetch
<1>5. CASE Fetching!ConsulDocuments \/ Fetching!ConsulSubtree
  BY <1>5, ConsulKeepsFetch
<1>6. CASE Fetching!RedisScan
  BY <1>6, RedisScanKeeps
<1>7. CASE Fetching!RedisRead
  BY <1>7, RedisReadKeeps
<1>8. CASE Fetching!S3Listed
  BY <1>8, S3ListedKeeps
<1>9. CASE \/ Fetching!S3Object \/ Fetching!NatsRead \/ Fetching!VaultReadOne
           \/ Fetching!FirestoreRead \/ Fetching!GitReadBlob
  BY <1>9, ReadsKeep
<1>10. CASE Fetching!FirestoreServes
  BY <1>10, FirestoreServesKeeps
<1>11. CASE Fetching!FirestoreBatch
  BY <1>11, FirestoreBatchKeeps
<1>12. CASE Fetching!GitAdvertised
  BY <1>12, GitAdvertisedKeeps
<1>13. CASE Fetching!GitUnder
  BY <1>13, GitUnderKeeps
<1> QED
  BY <1>1, <1>2, <1>3, <1>4, <1>5, <1>6, <1>7, <1>8, <1>9, <1>10, <1>11, <1>12, <1>13
  DEF Fetching!Next

LEMMA FetchesAreKept == Fetching!Spec => []Fetching!IndInv
  BY FetchInit, FetchNext, PTL DEF Fetching!Spec

\* A document that was read to the end has each of its keys once.
LEMMA KeysHeldOnce ==
    ASSUME Fetching!IndInv, Fetching!Answered
    PROVE  /\ \A i, j \in DOMAIN fetchHeld : fetchHeld[i][1] = fetchHeld[j][1] => i = j
           /\ Fetching!Cardinality(Fetching!HeldKeys) = Len(fetchHeld)
<1>1. Fetching!FetchIsTyped /\ Fetching!IsWhole(fetchHeld)
  BY DEF Fetching!IndInv, Fetching!AnswerIsWhole
<1>2. \A i, j \in DOMAIN fetchHeld : fetchHeld[i][1] = fetchHeld[j][1] => i = j
  <2>1. CASE Fetching!ReadsPrefix
    BY <1>1, <2>1 DEF Fetching!IsWhole
  <2>2. CASE ~Fetching!ReadsPrefix
    <3>1. DOMAIN fetchHeld = DOMAIN list /\ \A i \in DOMAIN list : fetchHeld[i][1] = list[i]
      BY <1>1, <2>2 DEF Fetching!IsWhole
    <3>2. \A i, j \in DOMAIN list : list[i] = list[j] => i = j
      BY <1>1, <2>2, ListIsOfKeys
    <3> QED
      BY <3>1, <3>2
  <2> QED
    BY <2>1, <2>2
<1> DEFINE n == Len(fetchHeld)
           key == [i \in 1 .. n |-> fetchHeld[i][1]]
           keys == Fetching!HeldKeys
<1>3. n \in Nat /\ DOMAIN fetchHeld = 1 .. n
  BY <1>1 DEF Fetching!FetchIsTyped
<1>4. keys = {key[i] : i \in 1 .. n}
  BY <1>3 DEF Fetching!HeldKeys
<1> HIDE DEF n, keys
<1>5. key \in Injection(1 .. n, keys) /\ key \in Surjection(1 .. n, keys)
  BY <1>2, <1>3, <1>4 DEF Injection, IsInjective, Surjection
<1>6. ExistsBijection(1 .. n, keys)
  BY <1>5 DEF ExistsBijection, Bijection
<1>7. IsFiniteSet(1 .. n) /\ Cardinality(1 .. n) = n
  BY <1>3, FS_Interval
<1>8. Cardinality(keys) = n
  BY <1>6, <1>7, FS_Bijection
<1> QED
  BY <1>2, <1>8, SameSize DEF n, keys

\* documents, pairs_of, scan, listed, batch, under: a document leaves nothing out.  Each
\* key of a list is in it once, with what the store held for it during the fetch; so is,
\* under a prefix, each key that held something all the while.
THEOREM DocumentsAreWhole == Fetching!Spec => []NothingIsLeftOut
<1>1. ASSUME Fetching!IndInv PROVE NothingIsLeftOut
  <2> SUFFICES ASSUME Fetching!Answered
               PROVE  /\ \A i \in DOMAIN fetchHeld : \E s \in Fetching!ToSet(history) :
                             /\ fetchHeld[i][2] = s[fetchHeld[i][1]]
                             /\ fetchHeld[i][2] # Fetching!Nothing
                      /\ Fetching!Cardinality(Fetching!HeldKeys) = Len(fetchHeld)
                      /\ IF Fetching!ReadsPrefix
                         THEN {k \in Fetching!Keys : \A s \in Fetching!ToSet(history) :
                                  s[k] # Fetching!Nothing} \subseteq Fetching!HeldKeys
                         ELSE Fetching!HeldKeys = Fetching!ToSet(list)
    BY DEF NothingIsLeftOut, Fetching!NothingIsLeftOut
  <2>1. Fetching!FetchIsTyped /\ Fetching!IsWhole(fetchHeld) /\ Fetching!WereThere(fetchHeld)
    BY <1>1 DEF Fetching!IndInv, Fetching!AnswerIsWhole
  <2>2. \A i \in DOMAIN fetchHeld : \E s \in Fetching!ToSet(history) :
            fetchHeld[i][2] = s[fetchHeld[i][1]] /\ fetchHeld[i][2] # Fetching!Nothing
    BY <2>1 DEF Fetching!WereThere, Fetching!IsWhole
  <2>3. CASE Fetching!ReadsPrefix
    BY <1>1, <2>1, <2>2, <2>3, KeysHeldOnce
    DEF Fetching!IsWhole, Fetching!AllTheWhile, Fetching!HeldKeys
  <2>4. CASE ~Fetching!ReadsPrefix
    <3>1. DOMAIN fetchHeld = DOMAIN list /\ \A i \in DOMAIN list : fetchHeld[i][1] = list[i]
      BY <2>1, <2>4 DEF Fetching!IsWhole
    <3>2. Fetching!HeldKeys = Fetching!ToSet(list)
      BY <3>1 DEF Fetching!HeldKeys, Fetching!ToSet
    <3> QED
      BY <1>1, <2>2, <2>4, <3>2, KeysHeldOnce
  <2> QED
    BY <2>3, <2>4
<1> QED
  BY <1>1, FetchesAreKept, PTL

\* The transaction, the range, the subtree, the MGET and the commit's tree: what they
\* bring is one state of the store, and so is all that may be watched.
THEOREM ReadsAreOfOneState == Fetching!Spec => []AtomicReadsAreOneState
<1>1. ASSUME Fetching!IndInv PROVE AtomicReadsAreOneState
  <2> SUFFICES ASSUME Fetching!Answered,
                      Fetching!SaidToBeAtomic
                          \/ Fetching!Shape \in Fetching!WatchesOf[fetchStore]
               PROVE  \E s \in Fetching!ToSet(history) :
                          /\ Fetching!HeldAt(s)
                          /\ Fetching!ReadsPrefix => Fetching!HeldKeys = Fetching!Holding(s)
    BY DEF AtomicReadsAreOneState, Fetching!AtomicReadsAreOneState
  <2>1. Fetching!FetchIsTyped /\ Fetching!IsWhole(fetchHeld) /\ Fetching!WereThere(fetchHeld)
    BY <1>1 DEF Fetching!IndInv, Fetching!AnswerIsWhole
  <2>2. CASE Fetching!SaidToBeAtomic
    BY <2>1, <2>2 DEF Fetching!IsWhole, Fetching!HeldAt, Fetching!HeldKeys
  <2>3. CASE ~Fetching!SaidToBeAtomic
    <3>1. fetchStore \in {"etcd", "consul", "redis", "s3", "nats", "vault", "firestore", "git"}
      BY <2>1 DEF Fetching!FetchIsTyped, Fetching!KeysOf
    <3>2. Fetching!Shape \in {"one", "several", "prefix"}
      BY DEF Fetching!Shape
    <3>3. Fetching!Shape = "one"
      BY <2>3, <3>1, <3>2 DEF Fetching!SaidToBeAtomic, Fetching!WatchesOf,
         Fetching!EtcdWatches, Fetching!ConsulWatches, Fetching!RedisWatches,
         Fetching!S3Watches, Fetching!NatsWatches, Fetching!VaultWatches,
         Fetching!FirestoreWatches, Fetching!GitWatches, Fetching!EtcdKeys,
         Fetching!ConsulKeys, Fetching!RedisKeys, Fetching!GitKeys
    <3>4. ~Fetching!ReadsPrefix /\ Len(list) = 1
      <4>1. ~Fetching!ReadsPrefix
        BY <3>3, ShapeOfAPrefix
      <4> QED
        BY <3>3, <4>1 DEF Fetching!Shape
    <3>5. DOMAIN fetchHeld = {1}
      <4>1. DOMAIN fetchHeld = DOMAIN list
        BY <2>1, <3>4 DEF Fetching!IsWhole
      <4>2. DOMAIN list = 1 .. 1
        BY <2>1, <3>4, ListIsOfKeys
      <4> QED
        BY <4>1, <4>2
    <3>6. PICK s \in Fetching!ToSet(history) : fetchHeld[1][2] = s[fetchHeld[1][1]]
      BY <2>1, <3>5 DEF Fetching!WereThere
    <3> QED
      BY <3>4, <3>5, <3>6 DEF Fetching!HeldAt
  <2> QED
    BY <2>2, <2>3
<1> QED
  BY <1>1, FetchesAreKept, PTL

\* merged, folded, collision: of a list the last key that supplies a path wins, and of a
\* prefix no two keys supply one.
THEOREM LaterKeysWin == Fetching!Spec => []PrecedenceIsTheCallers
<1>1. ASSUME Fetching!IndInv PROVE PrecedenceIsTheCallers
  <2> DEFINE Value == {Fetching!Nothing} \cup Fetching!Document
             n == Len(fetchHeld)
  <2> SUFFICES ASSUME Fetching!Answered
               PROVE  IF Fetching!ReadsPrefix
                      THEN \A i, j \in DOMAIN fetchHeld :
                               i # j => fetchHeld[i][2].supplies
                                            \cap fetchHeld[j][2].supplies = {}
                      ELSE \A i \in DOMAIN list : \A pair \in Fetching!ToSet(fetchHeld) :
                               pair[1] = list[i] =>
                               \A p \in pair[2].supplies :
                                   \/ fetchAnswer.document[p] = <<pair[1], pair[2].write>>
                                   \/ \E j \in i + 1 .. Len(list) :
                                          fetchAnswer.document[p][1] = list[j]
    BY DEF PrecedenceIsTheCallers, Fetching!PrecedenceIsTheCallers
  <2>1. /\ Fetching!FetchIsTyped /\ Fetching!IsWhole(fetchHeld)
        /\ fetchAnswer = Fetching!Merged(fetchHeld) /\ fetchAnswer.kind = "document"
    BY <1>1 DEF Fetching!IndInv, Fetching!AnswerIsWhole, Fetching!Answered
  <2>2. fetchHeld \in Seq(Fetching!Keys \X Value) /\ n \in Nat /\ DOMAIN fetchHeld = 1 .. n
    BY <2>1 DEF Fetching!FetchIsTyped
  <2>3. n # 0
    BY <2>1, RefusalIsNoDocument DEF Fetching!Merged
  <2>4. CASE Fetching!ReadsPrefix
    <3>1. n > 1 => ~Fetching!Overlapping(fetchHeld)
      BY <2>1, <2>2, <2>4, RefusalIsNoDocument DEF Fetching!Merged
    <3>2. ASSUME NEW i \in 1 .. n, NEW j \in 1 .. n, i < j
          PROVE  fetchHeld[i][2].supplies \cap fetchHeld[j][2].supplies = {}
      <4>1. ~Fetching!Overlapping(fetchHeld)
        BY <2>2, <3>1, <3>2
      <4> QED
        BY <2>2, <3>2, <4>1, ApartWhenNotOverlapping
    <3> SUFFICES ASSUME NEW i \in 1 .. n, NEW j \in 1 .. n, i # j
                 PROVE  fetchHeld[i][2].supplies \cap fetchHeld[j][2].supplies = {}
      BY <2>2, <2>4
    <3>3. i < j \/ j < i
      BY <2>2
    <3> QED
      BY <3>2, <3>3
  <2>5. CASE ~Fetching!ReadsPrefix
    <3> DEFINE tree == Fetching!Folded(fetchHeld)
    <3>1. fetchAnswer.document = tree
      BY <2>1, <2>2, <2>3, <2>5 DEF Fetching!Merged
    <3>2. DOMAIN list = 1 .. n /\ Len(list) = n /\ \A i \in 1 .. n : fetchHeld[i][1] = list[i]
      BY <2>1, <2>2, <2>5, ListIsOfKeys DEF Fetching!IsWhole
    <3>3. \A i, j \in 1 .. n : list[i] = list[j] => i = j
      BY <2>1, <2>5, <3>2, ListIsOfKeys
    <3>4. /\ DOMAIN tree = UNION {fetchHeld[i][2].supplies : i \in 1 .. n}
          /\ \A p \in DOMAIN tree : \E i \in 1 .. n :
                 /\ p \in fetchHeld[i][2].supplies
                 /\ tree[p] = <<fetchHeld[i][1], fetchHeld[i][2].write>>
                 /\ \A j \in i + 1 .. n : p \notin fetchHeld[j][2].supplies
      BY <2>2, FoldedIsTheLast
    <3> HIDE DEF tree
    <3> SUFFICES ASSUME NEW i \in 1 .. n, NEW m \in 1 .. n, fetchHeld[m][1] = list[i],
                        NEW p \in fetchHeld[m][2].supplies
                 PROVE  \/ tree[p] = <<fetchHeld[m][1], fetchHeld[m][2].write>>
                        \/ \E j \in i + 1 .. n : tree[p][1] = list[j]
      BY <2>2, <2>5, <3>1, <3>2 DEF Fetching!ToSet
    <3>5. m = i
      BY <3>2, <3>3
    <3>6. p \in DOMAIN tree
      BY <3>4
    <3>7. PICK j \in 1 .. n :
              /\ p \in fetchHeld[j][2].supplies
              /\ tree[p] = <<fetchHeld[j][1], fetchHeld[j][2].write>>
              /\ \A l \in j + 1 .. n : p \notin fetchHeld[l][2].supplies
      BY <3>4, <3>6
    <3>8. ~(j < i)
      BY <2>2, <3>5, <3>7
    <3>9. CASE j = i
      BY <3>5, <3>7, <3>9
    <3>10. CASE j > i
      <4>1. tree[p][1] = list[j]
        BY <3>2, <3>7
      <4> QED
        BY <2>2, <3>10, <4>1
    <3> QED
      BY <2>2, <3>8, <3>9, <3>10
  <2> QED
    BY <2>4, <2>5
<1> QED
  BY <1>1, FetchesAreKept, PTL

-----------------------------------------------------------------------------
(* What is put together from each place of a text on.                       *)

\* What holds of a place when it holds of all places after it holds of all places.
LEMMA Downwards ==
    ASSUME NEW n \in Nat, NEW S,
           \A i \in 1 .. n + 1 : (\A j \in i + 1 .. n + 1 : j \in S) => i \in S
    PROVE  1 .. n + 1 \subseteq S
<1> DEFINE T == {k \in Nat : \E i \in 1 .. n + 1 : i \notin S /\ k = (n + 1) - i}
<1> SUFFICES ASSUME NEW i \in 1 .. n + 1, i \notin S PROVE FALSE
  OBVIOUS
<1>1. (n + 1) - i \in T
  OBVIOUS
<1>2. PICK k \in T : \A l \in T : k <= l
  BY <1>1, Least
<1>3. PICK j \in 1 .. n + 1 : j \notin S /\ k = (n + 1) - j
  BY <1>2
<1>4. PICK h \in j + 1 .. n + 1 : h \notin S
  BY <1>3
<1>5. (n + 1) - h \in T
  BY <1>4
<1> HIDE DEF T
<1> QED
  BY <1>2, <1>3, <1>4, <1>5

\* A set of naturals that is bounded has a greatest one.
LEMMA Greatest ==
    ASSUME NEW n \in Nat, NEW T, T \subseteq 0 .. n, T # {}
    PROVE  \E m \in T : \A k \in T : k <= m
<1> DEFINE U == {n - k : k \in T}
<1>1. U \subseteq Nat /\ U # {}
  <2>1. U \subseteq Nat
    OBVIOUS
  <2>2. PICK k \in T : TRUE
    OBVIOUS
  <2>3. n - k \in U
    OBVIOUS
  <2> QED
    BY <2>1, <2>3
<1>2. PICK u \in U : \A k \in U : u <= k
  BY <1>1, Least
<1>3. PICK m \in T : u = n - m
  BY <1>2
<1>4. ASSUME NEW k \in T PROVE k <= m
  <2>1. n - k \in U
    OBVIOUS
  <2> HIDE DEF U
  <2> QED
    BY <1>2, <1>3, <2>1
<1> QED
  BY <1>4

\* f says what is put together from each place on: a piece, and what is put together
\* from the next place.
IsPut(f, n, pieces, next) ==
    f[n + 1] = << >> /\ \A i \in 1 .. n : f[i] = pieces[i] \o f[next[i]]

GoesOn(next, n) == \A i \in 1 .. n : next[i] \in i + 1 .. n + 1

\* There is such a function.
LEMMA Walks ==
    ASSUME NEW n \in Nat, NEW pieces, NEW next, GoesOn(next, n)
    PROVE  \E f : f = [i \in 1 .. n + 1 |-> f[i]] /\ IsPut(f, n, pieces, next)
<1> DEFINE Is(f, b) ==
        /\ f = [i \in b .. n + 1 |-> f[i]]
        /\ f[n + 1] = << >>
        /\ \A i \in b .. n : f[i] = pieces[i] \o f[next[i]]
           There(m) == \E f : Is(f, (n + 1) - m)
           S == {m \in Nat : m <= n => There(m)}
<1>1. 0 \in S
  <2> DEFINE f == [i \in n + 1 .. n + 1 |-> << >>]
  <2>1. f[n + 1] = << >> /\ n + 1 .. n = {} /\ (n + 1) - 0 = n + 1
    OBVIOUS
  <2>2. f = [i \in n + 1 .. n + 1 |-> f[i]]
    OBVIOUS
  <2> HIDE DEF f
  <2>3. Is(f, (n + 1) - 0)
    BY <2>1, <2>2
  <2> HIDE DEF Is
  <2> QED
    BY <2>3
<1>2. ASSUME NEW m \in Nat, m \in S PROVE m + 1 \in S
  <2> SUFFICES ASSUME m + 1 <= n PROVE There(m + 1)
    <3> HIDE DEF There
    <3> QED
      OBVIOUS
  <2> DEFINE b == n - m
  <2>1. b \in 1 .. n /\ (n + 1) - (m + 1) = b /\ (n + 1) - m = b + 1
    OBVIOUS
  <2>2. PICK f : Is(f, b + 1)
    <3>1. There(m)
      <4> HIDE DEF There
      <4> QED
        BY <1>2
    <3> HIDE DEF Is, b
    <3> QED
      BY <2>1, <3>1
  <2> HIDE DEF b
  <2> DEFINE first == pieces[b] \o f[next[b]]
             g == [i \in b .. n + 1 |-> IF i = b THEN first ELSE f[i]]
  <2> HIDE DEF first
  <2>3. g = [i \in b .. n + 1 |-> g[i]]
    OBVIOUS
  <2>4. g[n + 1] = << >>
    BY <2>1, <2>2
  <2>5. ASSUME NEW i \in b .. n PROVE g[i] = pieces[i] \o g[next[i]]
    <3>1. next[i] \in i + 1 .. n + 1
      BY <2>1 DEF GoesOn
    <3>2. next[i] \in b + 1 .. n + 1
      BY <2>1, <3>1
    <3>3. g[next[i]] = f[next[i]]
      BY <2>1, <3>2
    <3>4. CASE i = b
      <4>1. g[b] = first
        BY <2>1
      <4> HIDE DEF g
      <4> QED
        BY <3>3, <3>4, <4>1 DEF first
    <3>5. CASE i \in b + 1 .. n
      <4>1. g[i] = f[i]
        BY <2>1, <3>5
      <4>2. f[i] = pieces[i] \o f[next[i]]
        BY <2>2, <3>5
      <4> HIDE DEF g
      <4> QED
        BY <3>3, <4>1, <4>2
    <3>6. i = b \/ i \in b + 1 .. n
      BY <2>1
    <3> HIDE DEF g
    <3> QED
      BY <3>4, <3>5, <3>6
  <2>6. Is(g, b)
    <3> HIDE DEF g
    <3> QED
      BY <2>3, <2>4, <2>5
  <2> HIDE DEF Is, g
  <2> QED
    BY <2>1, <2>6
<1>3. There(n)
  <2>1. n \in S
    <3> HIDE DEF S
    <3> QED
      BY <1>1, <1>2, Upwards
  <2> HIDE DEF There
  <2> QED
    BY <2>1
<1>4. (n + 1) - n = 1
  OBVIOUS
<1>5. \E f : Is(f, 1)
  <2> HIDE DEF Is
  <2> QED
    BY <1>3, <1>4
<1> QED
  BY <1>5 DEF IsPut

\* What is put together from texts is a text.
LEMMA WalksAreTexts ==
    ASSUME NEW V, NEW n \in Nat, NEW pieces, NEW next, NEW f, GoesOn(next, n),
           \A i \in 1 .. n : pieces[i] \in Seq(V), IsPut(f, n, pieces, next)
    PROVE  \A i \in 1 .. n + 1 : f[i] \in Seq(V)
<1> DEFINE S == {i \in 1 .. n + 1 : f[i] \in Seq(V)}
<1>1. ASSUME NEW i \in 1 .. n + 1, \A j \in i + 1 .. n + 1 : j \in S PROVE f[i] \in Seq(V)
  <2>1. CASE i = n + 1
    <3>1. << >> \in Seq(V)
      OBVIOUS
    <3>2. f[i] = << >>
      BY <2>1 DEF IsPut
    <3> QED
      BY <3>1, <3>2
  <2>2. CASE i \in 1 .. n
    <3> DEFINE a == next[i]
    <3>1. a \in S
      BY <1>1, <2>2 DEF GoesOn
    <3>2. f[a] \in Seq(V) /\ pieces[i] \in Seq(V)
      BY <2>2, <3>1
    <3>3. f[i] = pieces[i] \o f[a]
      BY <2>2 DEF IsPut
    <3> HIDE DEF a
    <3> QED
      BY <3>2, <3>3
  <2> QED
    BY <2>1, <2>2
<1>2. 1 .. n + 1 \subseteq S
  <2>1. ASSUME NEW i \in 1 .. n + 1, \A j \in i + 1 .. n + 1 : j \in S PROVE i \in S
    BY <1>1, <2>1
  <2> HIDE DEF S
  <2> QED
    BY <2>1, Downwards
<1> QED
  BY <1>2

-----------------------------------------------------------------------------
(* The runs of a text.                                                      *)

LEMMA SealingBounds == Sealing!Bounds
  BY SourcesBounds

\* What any text may hold, opened or not.
Symbols == Sealing!Sealable \cup Punctuation
               \cup UNION {{secret[i] : i \in DOMAIN secret} : secret \in Secrets}

Written == Seq(Sealing!Sealable \cup Punctuation)

LEMMA SecretsAreTexts ==
    ASSUME NEW secret \in Secrets
    PROVE  secret \in Seq(Symbols) /\ \A i \in 1 .. Len(secret) : secret[i] # Marker
<1>1. secret \in Seq(Sealing!Range(secret)) /\ Marker \notin Sealing!Range(secret)
  BY SealingBounds DEF Sealing!Bounds
<1>2. DOMAIN secret = 1 .. Len(secret)
  BY <1>1
<1>3. Sealing!Range(secret) \subseteq Symbols
  BY DEF Sealing!Range, Symbols
<1>4. secret \in Seq(Symbols)
  BY <1>1, <1>3
<1> QED
  BY <1>1, <1>2, <1>4 DEF Sealing!Range

\* A run goes on for as long as there is something that may be sealed.
IsEnd(text, i, e) ==
    /\ e \in i .. Len(text) /\ \A k \in i .. e : text[k] \in Sealing!Sealable
    /\ e < Len(text) => text[e + 1] \notin Sealing!Sealable

LEMMA EndIsTheEnd ==
    ASSUME NEW text \in Written, NEW i \in 1 .. Len(text), text[i] \in Sealing!Sealable
    PROVE  IsEnd(text, i, Sealing!End(text, i))
<1> DEFINE n == Len(text)
           J == {j \in i .. n : \A k \in i .. j : text[k] \in Sealing!Sealable}
<1>1. n \in Nat
  BY DEF Written
<1>2. i \in J
  BY <1>1
<1>3. J \subseteq 0 .. n
  BY <1>1
<1>4. \E m \in J : \A k \in J : k <= m
  <2> HIDE DEF J, n
  <2> QED
    BY <1>1, <1>2, <1>3, Greatest
<1>5. \E m \in J : \A k \in J : m >= k
  <2> HIDE DEF J
  <2>1. J \subseteq Int
    BY <1>1, <1>3
  <2> QED
    BY <1>4, <2>1
<1> DEFINE e == Sealing!End(text, i)
<1>6. e \in J /\ \A k \in J : e >= k
  <2>1. e = Sealing!Max(J)
    BY DEF Sealing!End
  <2> HIDE DEF J, e
  <2> QED
    BY <1>5, <2>1 DEF Sealing!Max
<1>7. ASSUME e < n, text[e + 1] \in Sealing!Sealable PROVE FALSE
  <2>1. e + 1 \in J
    <3> HIDE DEF e
    <3> QED
      BY <1>1, <1>6, <1>7
  <2> HIDE DEF J, e
  <2> QED
    BY <1>1, <1>3, <1>6, <2>1
<1> HIDE DEF e
<1> QED
  BY <1>6, <1>7 DEF IsEnd, e

LEMMA OneEnd ==
    ASSUME NEW text \in Written, NEW i \in 1 .. Len(text), NEW d, NEW e,
           IsEnd(text, i, d), NEW j \in i .. d, IsEnd(text, j, e)
    PROVE  d = e
<1> DEFINE n == Len(text)
<1>1. n \in Nat
  BY DEF Written
<1>2. d \in i .. n /\ e \in j .. n
  BY DEF IsEnd
<1>3. ~(d < e)
  BY <1>1, <1>2 DEF IsEnd
<1>4. ~(e < d)
  BY <1>1, <1>2 DEF IsEnd
<1> QED
  BY <1>1, <1>2, <1>3, <1>4

LEMMA MarkIsSealable == Marker \in Sealing!Sealable
  BY DEF Sealing!Sealable

\* Where a run ends that begins at a marker, and what it says.
LEMMA Runs ==
    ASSUME NEW text \in Written, NEW i \in 1 .. Len(text), text[i] = Marker
    PROVE  /\ IsEnd(text, i, Sealing!End(text, i))
           /\ Sealing!End(text, i) \in i .. Len(text)
           /\ Sealing!Token(text, i) \in Seq(Sealing!Sealable)
           /\ Len(Sealing!Token(text, i)) = (Sealing!End(text, i) + 1) - i
           /\ \A k \in 1 .. (Sealing!End(text, i) + 1) - i :
                  Sealing!Token(text, i)[k] = text[(i + k) - 1]
<1> DEFINE n == Len(text)
           e == Sealing!End(text, i)
           s == Sealing!Token(text, i)
<1>1. n \in Nat
  BY DEF Written
<1>2. IsEnd(text, i, e)
  BY EndIsTheEnd, MarkIsSealable
<1>3. e \in i .. n
  BY <1>2 DEF IsEnd
<1>4. s = SubSeq(text, i, e)
  BY DEF Sealing!Token
<1> HIDE DEF e, s
<1>5. Len(s) = (e + 1) - i /\ \A k \in 1 .. (e + 1) - i : s[k] = text[(i + k) - 1]
  BY <1>1, <1>3, <1>4 DEF Written
<1>6. s \in Seq(Sealing!Sealable)
  <2>1. s \in Seq(Sealing!Sealable \cup Punctuation)
    BY <1>1, <1>3, <1>4 DEF Written
  <2>2. ASSUME NEW k \in 1 .. Len(s) PROVE s[k] \in Sealing!Sealable
    <3>1. (i + k) - 1 \in i .. e /\ s[k] = text[(i + k) - 1]
      BY <1>1, <1>3, <1>5, <2>2
    <3> QED
      BY <1>2, <3>1 DEF IsEnd
  <2>3. Len(s) \in Nat /\ s = [k \in 1 .. Len(s) |-> s[k]]
    BY <2>1
  <2> QED
    BY <2>2, <2>3
<1> QED
  BY <1>2, <1>3, <1>5, <1>6 DEF e, s

\* No run that began before i goes as far as i.
Reached(text, i) == \A j \in 1 .. i - 1 : text[j] = Marker => Sealing!End(text, j) < i

LEMMA TheFirstIsReached == ASSUME NEW text \in Written PROVE Reached(text, 1)
  BY DEF Reached

\* Where the reading goes on: after a run, or after a symbol that begins none.
After(text, i) == IF text[i] = Marker THEN Sealing!End(text, i) + 1 ELSE i + 1

LEMMA AfterIsReached ==
    ASSUME NEW text \in Written, NEW i \in 1 .. Len(text), Reached(text, i)
    PROVE  /\ After(text, i) \in i + 1 .. Len(text) + 1
           /\ Reached(text, After(text, i))
<1> DEFINE n == Len(text)
           a == After(text, i)
<1>1. n \in Nat
  BY DEF Written
<1>2. a \in i + 1 .. n + 1
  BY <1>1, Runs DEF After
<1>3. ASSUME NEW j \in 1 .. a - 1, text[j] = Marker PROVE Sealing!End(text, j) < a
  <2>1. j \in 1 .. n
    BY <1>1, <1>2
  <2>2. Sealing!End(text, j) \in j .. n
    BY <1>3, <2>1, Runs
  <2>3. CASE j < i
    <3>1. Sealing!End(text, j) < i
      BY <1>3, <2>3 DEF Reached
    <3> QED
      BY <1>1, <1>2, <2>2, <3>1
  <2>4. CASE ~(j < i)
    <3>1. text[i] = Marker
      BY <1>1, <1>2, <1>3, <2>4 DEF After
    <3>2. a = Sealing!End(text, i) + 1 /\ Sealing!End(text, i) \in i .. n
      BY <3>1, Runs DEF After
    <3>3. j \in i .. Sealing!End(text, i)
      BY <1>1, <1>2, <2>4, <3>2
    <3>4. Sealing!End(text, i) = Sealing!End(text, j)
      BY <1>3, <2>1, <3>1, <3>3, Runs, OneEnd
    <3> QED
      BY <1>1, <3>2, <3>4
  <2> QED
    BY <2>3, <2>4
<1> HIDE DEF a
<1> QED
  BY <1>2, <1>3 DEF Reached, a

LEMMA TheFirstMark ==
    ASSUME NEW text \in Written, NEW i \in 1 .. Len(text) + 1
    PROVE  LET from == Sealing!FirstFrom(text, i) IN
           /\ from \in i .. Len(text) + 1
           /\ from <= Len(text) => text[from] = Marker
           /\ \A j \in i .. from - 1 : text[j] # Marker
<1> DEFINE n == Len(text)
           marks == {j \in i .. n : text[j] = Marker}
           from == Sealing!FirstFrom(text, i)
<1>1. n \in Nat
  BY DEF Written
<1>2. CASE marks = {}
  <2>1. from = n + 1
    BY <1>2 DEF Sealing!FirstFrom
  <2> HIDE DEF from
  <2>2. from \in i .. n + 1 /\ ~(from <= n) /\ \A j \in i .. from - 1 : text[j] # Marker
    BY <1>1, <1>2, <2>1
  <2> QED
    BY <2>2 DEF from
<1>3. CASE marks # {}
  <2>1. from = Sealing!Min(marks)
    BY <1>3 DEF Sealing!FirstFrom
  <2>2. marks \subseteq Nat
    BY <1>1
  <2>3. \E m \in marks : \A k \in marks : m <= k
    <3> HIDE DEF marks
    <3> QED
      BY <1>3, <2>2, Least
  <2>4. from \in marks /\ \A k \in marks : from <= k
    <3> HIDE DEF marks, from
    <3> QED
      BY <2>1, <2>3 DEF Sealing!Min
  <2> HIDE DEF from
  <2>5. from \in i .. n /\ text[from] = Marker
    BY <2>4
  <2>6. ASSUME NEW j \in i .. from - 1 PROVE text[j] # Marker
    BY <1>1, <2>4, <2>5
  <2>7. from \in i .. n + 1
    BY <1>1, <2>5
  <2> QED
    BY <2>5, <2>6, <2>7 DEF from
<1> QED
  BY <1>2, <1>3

-----------------------------------------------------------------------------
(* What is asked for: every run that is reached and holds more than a       *)
(* marker, once.                                                            *)

Sought(text, i) == {j \in i .. Len(text) : text[j] = Marker /\ Reached(text, j)}

LEMMA TokensAreTheRuns ==
    ASSUME NEW text \in Written
    PROVE  /\ Sealing!Tokens(text) \in Seq(Seq(Sealing!Sealable))
           /\ {Sealing!Tokens(text)[k] : k \in 1 .. Len(Sealing!Tokens(text))}
                  = {Sealing!Token(text, j) : j \in Sought(text, 1)}
<1> DEFINE n == Len(text)
           V == Seq(Sealing!Sealable)
           From(i) == Sealing!FirstFrom(text, i)
           Search(f) == [i \in 1 .. n + 1 |->
               IF From(i) > n THEN << >>
               ELSE <<Sealing!Token(text, From(i))>> \o f[Sealing!End(text, From(i)) + 1]]
           search == CHOOSE f : f = Search(f)
           pieces == [i \in 1 .. n |->
               IF From(i) > n THEN << >> ELSE <<Sealing!Token(text, From(i))>>]
           next == [i \in 1 .. n |->
               IF From(i) > n THEN n + 1 ELSE Sealing!End(text, From(i)) + 1]
<1>1. n \in Nat
  BY DEF Written
<1>2. ASSUME NEW i \in 1 .. n + 1, From(i) <= n
      PROVE  /\ From(i) \in i .. n /\ text[From(i)] = Marker
             /\ Sealing!Token(text, From(i)) \in V
             /\ Sealing!End(text, From(i)) \in From(i) .. n
  <2>1. From(i) \in i .. n /\ text[From(i)] = Marker
    BY <1>1, <1>2, TheFirstMark
  <2>2. From(i) \in 1 .. n
    BY <1>1, <2>1
  <2> QED
    BY <2>1, <2>2, Runs
<1>3. \A i \in 1 .. n + 1 : From(i) \in i .. n + 1
  BY TheFirstMark
<1>4. GoesOn(next, n)
  <2> SUFFICES ASSUME NEW i \in 1 .. n PROVE next[i] \in i + 1 .. n + 1
    BY DEF GoesOn
  <2>1. CASE From(i) > n
    BY <1>1, <2>1
  <2>2. CASE From(i) <= n
    <3>1. /\ From(i) \in i .. n
          /\ Sealing!End(text, From(i)) \in From(i) .. n
      BY <1>1, <1>2, <2>2
    <3>2. next[i] = Sealing!End(text, From(i)) + 1
      BY <1>1, <2>2, <3>1
    <3> HIDE DEF next, From
    <3> QED
      BY <1>1, <3>1, <3>2
  <2>3. From(i) > n \/ From(i) <= n
    BY <1>1, <1>3
  <2> QED
    BY <2>1, <2>2, <2>3
<1>5. PICK f : f = [i \in 1 .. n + 1 |-> f[i]] /\ IsPut(f, n, pieces, next)
  <2> HIDE DEF n, pieces, next
  <2> QED
    BY <1>1, <1>4, Walks
<1>6. f = Search(f)
  <2>1. ASSUME NEW i \in 1 .. n + 1 PROVE f[i] = Search(f)[i]
    <3>1. CASE i = n + 1
      <4>1. From(i) > n
        BY <1>1, <1>3, <3>1
      <4> QED
        BY <1>5, <3>1, <4>1 DEF IsPut
    <3>2. CASE i \in 1 .. n /\ From(i) > n
      <4>1. f[i] = << >> \o f[n + 1] /\ f[n + 1] = << >>
        BY <1>5, <3>2 DEF IsPut
      <4> QED
        BY <3>2, <4>1
    <3>3. CASE i \in 1 .. n /\ ~(From(i) > n)
      BY <1>5, <3>3 DEF IsPut
    <3> QED
      BY <1>1, <3>1, <3>2, <3>3
  <2>2. Search(f) = [i \in 1 .. n + 1 |-> Search(f)[i]]
    OBVIOUS
  <2> HIDE DEF Search, n
  <2> QED
    BY <1>5, <2>1, <2>2
<1>7. search = Search(search)
  BY <1>6
<1>8. Sealing!Tokens(text) = search[1]
  BY DEF Sealing!Tokens
<1> HIDE DEF search
<1>9. ASSUME NEW i \in 1 .. n + 1
       PROVE  search[i] = IF From(i) > n THEN << >>
                          ELSE <<Sealing!Token(text, From(i))>>
                                   \o search[Sealing!End(text, From(i)) + 1]
  BY <1>7
<1> DEFINE Said(s) == {s[k] : k \in 1 .. Len(s)}
           Right(i) ==
               /\ search[i] \in Seq(V)
               /\ Said(search[i]) = {Sealing!Token(text, j) : j \in Sought(text, i)}
           S == {i \in 1 .. n + 1 : Reached(text, i) => Right(i)}
<1>10. ASSUME NEW i \in 1 .. n + 1, \A j \in i + 1 .. n + 1 : j \in S PROVE i \in S
  <2> SUFFICES ASSUME Reached(text, i) PROVE Right(i)
    BY DEF S
  <2> DEFINE from == From(i)
  <2>1. from \in i .. n + 1 /\ \A j \in i .. from - 1 : text[j] # Marker
    BY TheFirstMark
  <2>2. CASE from > n
    <3>1. Sought(text, i) = {}
      BY <1>1, <2>1, <2>2 DEF Sought
    <3>2. search[i] = << >>
      BY <1>9, <2>2
    <3> QED
      BY <3>1, <3>2
  <2>3. CASE ~(from > n)
    <3> DEFINE e == Sealing!End(text, from)
               t == Sealing!Token(text, from)
    <3>1. from \in i .. n /\ text[from] = Marker /\ t \in V /\ e \in from .. n
      BY <1>1, <1>2, <2>1, <2>3
    <3>2. Reached(text, from)
      <4> SUFFICES ASSUME NEW j \in 1 .. from - 1, text[j] = Marker
                   PROVE  Sealing!End(text, j) < from
        BY DEF Reached
      <4>1. j \in 1 .. i - 1
        BY <1>1, <2>1, <3>1
      <4>2. Sealing!End(text, j) < i
        BY <4>1 DEF Reached
      <4>3. j \in 1 .. n
        BY <1>1, <3>1
      <4>4. Sealing!End(text, j) \in j .. n
        BY <4>3, Runs
      <4> QED
        BY <1>1, <3>1, <4>2, <4>4
    <3> DEFINE m == e + 1
    <3>3. m \in i + 1 .. n + 1 /\ m = After(text, from)
      BY <1>1, <3>1 DEF After
    <3>4. Reached(text, m)
      BY <1>1, <3>1, <3>2, <3>3, AfterIsReached
    <3>5. Right(m)
      BY <1>10, <3>3, <3>4 DEF S
    <3>6. search[i] = <<t>> \o search[m]
      BY <1>9, <2>3
    <3>7. Sought(text, i) = {from} \cup Sought(text, m)
      <4>1. ASSUME NEW j \in Sought(text, i) PROVE j = from \/ j \in Sought(text, m)
        <5>1. j \in from .. n /\ text[j] = Marker /\ Reached(text, j)
          BY <1>1, <2>1, <3>1, <4>1 DEF Sought
        <5>2. CASE j # from
          <6>1. from \in 1 .. j - 1
            BY <1>1, <3>1, <5>1, <5>2
          <6>2. e < j
            BY <3>1, <5>1, <6>1 DEF Reached
          <6> HIDE DEF e
          <6> QED
            BY <1>1, <3>1, <5>1, <6>2 DEF Sought
        <5> QED
          BY <5>2
      <4>2. from \in Sought(text, i)
        BY <3>1, <3>2 DEF Sought
      <4>3. Sought(text, m) \subseteq Sought(text, i)
        BY <1>1, <3>3 DEF Sought
      <4> QED
        BY <4>1, <4>2, <4>3
    <3> HIDE DEF m, e, t, from, V
    <3>8. Said(<<t>> \o search[m]) = {t} \cup Said(search[m])
      <4> DEFINE u == search[m]
                 w == <<t>> \o u
      <4>1. u \in Seq(V)
        BY <3>5
      <4> HIDE DEF u
      <4>2. Len(u) \in Nat
        BY <4>1
      <4>3. Len(w) = 1 + Len(u) /\ w[1] = t /\ \A k \in 1 .. Len(u) : w[1 + k] = u[k]
        BY <3>1, <4>1, <4>2
      <4> HIDE DEF w
      <4>4. \A k \in 1 .. Len(w) : k = 1 \/ (k - 1 \in 1 .. Len(u) /\ 1 + (k - 1) = k)
        BY <4>2, <4>3
      <4>5. \A k \in 1 .. Len(u) : 1 + k \in 1 .. Len(w)
        BY <4>2, <4>3
      <4>6. ASSUME NEW k \in 1 .. Len(w) PROVE w[k] \in {t} \cup Said(u)
        <5>1. CASE k = 1
          BY <4>3, <5>1
        <5>2. CASE k - 1 \in 1 .. Len(u) /\ 1 + (k - 1) = k
          <6> DEFINE h == k - 1
          <6>1. h \in 1 .. Len(u) /\ 1 + h = k
            BY <5>2
          <6> HIDE DEF h
          <6>2. w[k] = u[h]
            BY <4>3, <6>1
          <6> QED
            BY <6>1, <6>2
        <5> QED
          BY <4>4, <5>1, <5>2
      <4>7. ASSUME NEW k \in 1 .. Len(u) PROVE u[k] \in Said(w)
        BY <4>3, <4>5
      <4>8. t \in Said(w)
        BY <4>2, <4>3
      <4>9. Said(w) = {t} \cup Said(u)
        BY <4>6, <4>7, <4>8
      <4> QED
        BY <4>9 DEF u, w
    <3>9. <<t>> \o search[m] \in Seq(V)
      BY <3>1, <3>5
    <3>10. {Sealing!Token(text, j) : j \in Sought(text, i)}
               = {t} \cup {Sealing!Token(text, j) : j \in Sought(text, m)}
      BY <3>7 DEF t
    <3> HIDE DEF Said
    <3> QED
      BY <3>5, <3>6, <3>8, <3>9, <3>10
  <2> QED
    BY <2>2, <2>3
<1>11. 1 \in S
  <2> HIDE DEF S, n
  <2>1. 1 .. n + 1 \subseteq S
    BY <1>1, <1>10, Downwards
  <2> QED
    BY <1>1, <2>1
<1>12. Right(1)
  BY <1>11, TheFirstIsReached DEF S
<1> QED
  BY <1>8, <1>12

\* A sequence of texts that names nothing twice.
IsDistinct(s) ==
    /\ s \in Seq(Seq(Sealing!Sealable))
    /\ \A a, b \in 1 .. Len(s) : s[a] = s[b] => a = b

Said(s) == {s[k] : k \in 1 .. Len(s)}

\* The next of what is found is added when it is not held yet.
Noted(s, word) ==
    IF Len(word) > 1 /\ ~Sealing!Contains(s, word) THEN Append(s, word) ELSE s

LEMMA NotedOnce ==
    ASSUME NEW s, IsDistinct(s), NEW word \in Seq(Sealing!Sealable)
    PROVE  /\ IsDistinct(Noted(s, word))
           /\ Said(Noted(s, word)) = Said(s) \cup {t \in {word} : Len(t) > 1}
<1> DEFINE V == Seq(Sealing!Sealable)
           n == Len(s)
<1>1. s \in Seq(V) /\ n \in Nat
  BY DEF IsDistinct
<1>2. CASE Len(word) > 1 /\ ~Sealing!Contains(s, word)
  <2> DEFINE w == Append(s, word)
  <2>1. w = Noted(s, word)
    BY <1>2 DEF Noted
  <2> HIDE DEF V
  <2>2. w \in Seq(V) /\ Len(w) = n + 1 /\ w[n + 1] = word /\ \A k \in 1 .. n : w[k] = s[k]
    BY <1>1 DEF V
  <2>3. \A k \in 1 .. n : s[k] # word
    BY <1>2 DEF Sealing!Contains
  <2> HIDE DEF w, n
  <2>4. ASSUME NEW a \in 1 .. Len(w), NEW b \in 1 .. Len(w), w[a] = w[b] PROVE a = b
    <3>1. a \in 1 .. n \/ a = n + 1
      BY <1>1, <2>2
    <3>2. b \in 1 .. n \/ b = n + 1
      BY <1>1, <2>2
    <3> QED
      BY <1>1, <2>2, <2>3, <2>4, <3>1, <3>2 DEF IsDistinct, n
  <2>5. ASSUME NEW k \in 1 .. Len(w) PROVE w[k] \in Said(s) \cup {word}
    <3>1. k \in 1 .. n \/ k = n + 1
      BY <1>1, <2>2
    <3> QED
      BY <2>2, <3>1 DEF Said, n
  <2>6. ASSUME NEW k \in 1 .. n PROVE s[k] \in Said(w)
    <3>1. k \in 1 .. Len(w)
      BY <1>1, <2>2
    <3> QED
      BY <2>2, <3>1 DEF Said
  <2>7. word \in Said(w)
    <3>1. n + 1 \in 1 .. Len(w)
      BY <1>1, <2>2
    <3> QED
      BY <2>2, <3>1 DEF Said
  <2>8. Said(w) = Said(s) \cup {word}
    BY <2>5, <2>6, <2>7 DEF Said, n
  <2>9. IsDistinct(w)
    BY <2>2, <2>4 DEF IsDistinct, V
  <2>10. {t \in {word} : Len(t) > 1} = {word}
    BY <1>2
  <2> QED
    BY <2>1, <2>8, <2>9, <2>10
<1>3. CASE ~(Len(word) > 1)
  <2>1. Noted(s, word) = s /\ {t \in {word} : Len(t) > 1} = {}
    BY <1>3 DEF Noted
  <2> QED
    BY <2>1
<1>4. CASE Sealing!Contains(s, word)
  <2>1. Noted(s, word) = s /\ {t \in {word} : Len(t) > 1} \subseteq {word}
    BY <1>4 DEF Noted
  <2>2. word \in Said(s)
    BY <1>4 DEF Sealing!Contains, Said
  <2> QED
    BY <2>1, <2>2
<1> QED
  BY <1>2, <1>3, <1>4

LEMMA CiphertextsAreTheTokens ==
    ASSUME NEW text \in Written
    PROVE  LET distinct == Sealing!Ciphertexts(text) IN
           /\ IsDistinct(distinct)
           /\ Said(distinct) = {t \in Said(Sealing!Tokens(text)) : Len(t) > 1}
<1> DEFINE tokens == Sealing!Tokens(text)
           n == Len(tokens)
           V == Seq(Sealing!Sealable)
           Finding(f) == [k \in 0 .. n |->
               IF k = 0 THEN << >>
               ELSE IF Len(tokens[k]) > 1 /\ ~Sealing!Contains(f[k - 1], tokens[k])
                    THEN Append(f[k - 1], tokens[k])
                    ELSE f[k - 1]]
           distinct == CHOOSE f : f = Finding(f)
           next == [k \in 1 .. n |-> [s \in Seq(V) |-> Noted(s, tokens[k])]]
<1>1. tokens \in Seq(V) /\ n \in Nat
  BY TokensAreTheRuns
<1>2. Sealing!Ciphertexts(text) = distinct[n]
  BY DEF Sealing!Ciphertexts
<1> HIDE DEF tokens
<1>3. next \in [1 .. n -> [Seq(V) -> Seq(V)]]
  <2> SUFFICES ASSUME NEW k \in 1 .. n, NEW s \in Seq(V) PROVE Noted(s, tokens[k]) \in Seq(V)
    OBVIOUS
  <2>1. tokens[k] \in V
    BY <1>1
  <2> HIDE DEF V
  <2> QED
    BY <2>1 DEF Noted
<1>4. PICK f : Iteration(f, Seq(V), << >>, n, next)
  <2> DEFINE none == << >>
  <2>1. none \in Seq(V)
    OBVIOUS
  <2> HIDE DEF n, V, next, none
  <2>2. \E f : Iteration(f, Seq(V), none, n, next)
    BY <1>1, <1>3, <2>1, Iterates
  <2> QED
    BY <2>2 DEF none
<1>5. f \in [0 .. n -> Seq(V)] /\ f[0] = << >>
  BY <1>4 DEF Iteration
<1>6. ASSUME NEW k \in 1 .. n PROVE f[k] = Noted(f[k - 1], tokens[k])
  <2>1. f[k] = next[k][f[k - 1]]
    <3> HIDE DEF n, V, next
    <3> QED
      BY <1>4 DEF Iteration
  <2>2. k - 1 \in 0 .. n
    BY <1>1
  <2> DEFINE h == k - 1
  <2>3. f[h] \in Seq(V)
    BY <1>5, <2>2
  <2> HIDE DEF V, n, h
  <2>4. next[k][f[h]] = Noted(f[h], tokens[k])
    BY <2>3
  <2> HIDE DEF next
  <2> QED
    BY <2>1, <2>4 DEF h
<1>7. ASSUME NEW g, NEW k \in 1 .. n PROVE Finding(g)[k] = Noted(g[k - 1], tokens[k])
  <2>1. k \in 0 .. n /\ k # 0
    BY <1>1
  <2> HIDE DEF V, n, next
  <2> QED
    BY <2>1 DEF Noted
<1>8. f = Finding(f)
  <2> HIDE DEF V, n
  <2>1. Finding(f)[0] = << >> /\ DOMAIN Finding(f) = 0 .. n
    BY <1>1
  <2>2. Finding(f) = [k \in 0 .. n |-> Finding(f)[k]]
    OBVIOUS
  <2> HIDE DEF Finding
  <2>3. \A k \in 0 .. n : k = 0 \/ k \in 1 .. n
    BY <1>1
  <2>4. \A k \in 0 .. n : f[k] = Finding(f)[k]
    BY <1>5, <1>6, <1>7, <2>1, <2>3
  <2> QED
    BY <1>5, <2>2, <2>4
<1>9. distinct = Finding(distinct)
  BY <1>8
<1> HIDE DEF distinct
<1>10. distinct[0] = << >> /\ \A k \in 1 .. n : distinct[k] = Noted(distinct[k - 1], tokens[k])
  <2>1. Finding(distinct)[0] = << >>
    BY <1>1
  <2> HIDE DEF Finding
  <2> QED
    BY <1>7, <1>9, <2>1
<1> DEFINE Right(k) ==
               /\ IsDistinct(distinct[k])
               /\ Said(distinct[k]) = {t \in {tokens[j] : j \in 1 .. k} : Len(t) > 1}
           S == {k \in Nat : k <= n => Right(k)}
<1>11. 0 \in S
  <2>1. IsDistinct(<< >>) /\ Said(<< >>) = {}
    BY DEF IsDistinct, Said
  <2>2. {tokens[j] : j \in 1 .. 0} = {}
    OBVIOUS
  <2> QED
    BY <1>10, <2>1, <2>2
<1>12. ASSUME NEW k \in Nat, k \in S PROVE k + 1 \in S
  <2> DEFINE m == k + 1
  <2> SUFFICES ASSUME m <= n PROVE Right(m)
    BY DEF S
  <2>1. m \in 1 .. n /\ m - 1 = k /\ k <= n
    BY <1>1
  <2>2. distinct[m] = Noted(distinct[k], tokens[m])
    <3> HIDE DEF m
    <3> QED
      BY <1>10, <2>1
  <2>3. tokens[m] \in V
    BY <1>1, <2>1
  <2>4. Right(k)
    BY <1>12, <2>1
  <2>5. {tokens[j] : j \in 1 .. m} = {tokens[j] : j \in 1 .. k} \cup {tokens[m]}
    <3>1. 1 .. m = 1 .. k \cup {m}
      BY <1>1, <2>1
    <3> HIDE DEF m
    <3> QED
      BY <3>1
  <2> HIDE DEF m, V
  <2>6. /\ IsDistinct(distinct[m])
        /\ Said(distinct[m]) = Said(distinct[k]) \cup {t \in {tokens[m]} : Len(t) > 1}
    BY <2>2, <2>3, <2>4, NotedOnce DEF V
  <2> QED
    BY <2>4, <2>5, <2>6
<1>13. Right(n)
  <2> HIDE DEF Right
  <2>1. n \in S
    <3> HIDE DEF S
    <3> QED
      BY <1>1, <1>11, <1>12, Upwards
  <2> HIDE DEF n
  <2> QED
    BY <1>1, <2>1
<1> HIDE DEF distinct
<1> QED
  BY <1>2, <1>13 DEF Said, tokens

-----------------------------------------------------------------------------
(* The longest first.                                                       *)

IsOrder(o, m, length) ==
    /\ o \in [1 .. m -> 1 .. m]
    /\ \A i, j \in 1 .. m : o[i] = o[j] => i = j
    /\ \A k \in 1 .. m : \E i \in 1 .. m : o[i] = k
    /\ \A i, j \in 1 .. m : i < j => length[o[i]] >= length[o[j]]

\* One more has its place after those that are no shorter.
LEMMA OneMoreInOrder ==
    ASSUME NEW m \in Nat, NEW length \in [1 .. m + 1 -> Nat], NEW o, IsOrder(o, m, length)
    PROVE  \E p : IsOrder(p, m + 1, length)
<1> DEFINE l == length[m + 1]
           Shorter == {i \in 1 .. m : length[o[i]] < l} \cup {m + 1}
<1>1. PICK place \in Shorter : \A i \in Shorter : place <= i
  <2>1. Shorter \subseteq Nat /\ Shorter # {}
    OBVIOUS
  <2> HIDE DEF Shorter
  <2> QED
    BY <2>1, Least
<1>2. /\ o \in [1 .. m -> 1 .. m]
      /\ \A i, j \in 1 .. m : o[i] = o[j] => i = j
      /\ \A k \in 1 .. m : \E i \in 1 .. m : o[i] = k
      /\ \A i, j \in 1 .. m : i < j => length[o[i]] >= length[o[j]]
  BY DEF IsOrder
<1>3. place \in 1 .. m + 1 /\ l \in Nat /\ \A i \in 1 .. m : length[o[i]] \in Nat
  <2>1. place \in 1 .. m + 1
    BY <1>1
  <2>2. l \in Nat
    OBVIOUS
  <2>3. ASSUME NEW i \in 1 .. m PROVE length[o[i]] \in Nat
    <3>1. o[i] \in 1 .. m + 1
      <4>1. o[i] \in 1 .. m
        BY <1>2
      <4> QED
        BY <4>1
    <3> QED
      BY <3>1
  <2> HIDE DEF l, Shorter
  <2> QED
    BY <2>1, <2>2, <2>3
<1>4. ASSUME NEW i \in 1 .. m, i < place PROVE length[o[i]] >= l
  <2>1. i \notin Shorter
    <3> HIDE DEF Shorter
    <3> QED
      BY <1>1, <1>3, <1>4
  <2> QED
    BY <1>3, <2>1
<1>5. ASSUME NEW i \in 1 .. m, place <= i PROVE l >= length[o[i]]
  <2>1. place \in 1 .. m /\ length[o[place]] < l
    BY <1>1, <1>5
  <2>2. length[o[place]] >= length[o[i]]
    <3>1. place = i \/ place < i
      BY <1>3, <1>5
    <3> HIDE DEF l, Shorter
    <3>2. length[o[place]] \in Nat
      BY <1>3, <2>1
    <3>3. CASE place < i
      BY <1>2, <2>1, <3>3
    <3>4. CASE place = i
      BY <3>2, <3>4
    <3> QED
      BY <3>1, <3>3, <3>4
  <2> QED
    BY <1>3, <2>1, <2>2
<1> HIDE DEF l, Shorter
<1>6. o = [i \in 1 .. m |-> o[i]] /\ \A i \in 1 .. m : o[i] \in 1 .. m
  BY <1>2
<1> DEFINE p == [i \in 1 .. m + 1 |-> IF i < place THEN o[i]
                                     ELSE IF i = place THEN m + 1 ELSE o[i - 1]]
<1>7. ASSUME NEW i \in 1 .. m + 1
      PROVE  \/ i < place /\ i \in 1 .. m /\ p[i] = o[i]
             \/ i = place /\ p[i] = m + 1
             \/ place < i /\ i - 1 \in 1 .. m /\ p[i] = o[i - 1]
  BY <1>3
<1>8. p \in [1 .. m + 1 -> 1 .. m + 1]
  <2>1. ASSUME NEW i \in 1 .. m + 1 PROVE p[i] \in 1 .. m + 1
    <3> HIDE DEF p
    <3> DEFINE h == i - 1
    <3>1. \A k \in 1 .. m : o[k] \in 1 .. m + 1
      <4>1. 1 .. m \subseteq 1 .. m + 1
        OBVIOUS
      <4> QED
        BY <1>6, <4>1
    <3>2. p[i] = m + 1 \/ (i \in 1 .. m /\ p[i] = o[i]) \/ (h \in 1 .. m /\ p[i] = o[h])
      BY <1>7
    <3>3. m + 1 \in 1 .. m + 1
      OBVIOUS
    <3> HIDE DEF h
    <3> QED
      BY <3>1, <3>2, <3>3
  <2>2. p = [i \in 1 .. m + 1 |-> p[i]]
    OBVIOUS
  <2> HIDE DEF p
  <2> QED
    BY <2>1, <2>2
<1> HIDE DEF p
<1>9. ASSUME NEW i \in 1 .. m + 1, NEW j \in 1 .. m + 1, p[i] = p[j] PROVE i = j
  <2> DEFINE g == i - 1
             h == j - 1
  <2>1. /\ \/ i < place /\ i \in 1 .. m /\ p[i] = o[i]
           \/ i = place /\ p[i] = m + 1
           \/ place < i /\ g \in 1 .. m /\ p[i] = o[g]
        /\ \/ j < place /\ j \in 1 .. m /\ p[j] = o[j]
           \/ j = place /\ p[j] = m + 1
           \/ place < j /\ h \in 1 .. m /\ p[j] = o[h]
    BY <1>7
  <2>2. /\ g = h => i = j
        /\ g = j => ~(place < i /\ j < place)
        /\ h = i => ~(place < j /\ i < place)
    BY <1>3
  <2>3. \A k \in 1 .. m : o[k] # m + 1
    BY <1>6
  <2> HIDE DEF g, h
  <2> QED
    BY <1>2, <1>3, <1>9, <2>1, <2>2, <2>3
<1>10. ASSUME NEW k \in 1 .. m + 1 PROVE \E i \in 1 .. m + 1 : p[i] = k
  <2>1. CASE k = m + 1
    <3>1. p[place] = m + 1
      BY <1>2, <1>3 DEF p
    <3> QED
      BY <1>3, <2>1, <3>1
  <2>2. CASE k \in 1 .. m
    <3>1. PICK i \in 1 .. m : o[i] = k
      BY <1>2, <2>2
    <3>2. CASE i < place
      <4>1. i \in 1 .. m + 1 /\ p[i] = o[i]
        BY <3>2 DEF p
      <4> QED
        BY <3>1, <4>1
    <3>3. CASE place <= i
      <4> DEFINE h == i + 1
      <4>1. h \in 1 .. m + 1 /\ place < h /\ h - 1 = i
        BY <1>3, <3>3
      <4> HIDE DEF h
      <4>2. p[h] = o[i]
        BY <1>3, <4>1 DEF p
      <4> QED
        BY <3>1, <4>1, <4>2
    <3> QED
      BY <1>3, <3>2, <3>3
  <2> QED
    BY <2>1, <2>2
<1>11. ASSUME NEW i \in 1 .. m + 1, NEW j \in 1 .. m + 1, i < j
       PROVE  length[p[i]] >= length[p[j]]
  <2>1. CASE i < place /\ j < place
    <3>1. i \in 1 .. m /\ j \in 1 .. m /\ p[i] = o[i] /\ p[j] = o[j]
      BY <1>3, <1>7, <2>1
    <3> QED
      BY <1>2, <1>11, <3>1
  <2>2. CASE i < place /\ j = place
    <3>1. i \in 1 .. m /\ p[i] = o[i] /\ p[j] = m + 1
      BY <1>3, <1>7, <2>2
    <3> QED
      BY <1>4, <2>2, <3>1 DEF l
  <2>3. CASE i < place /\ place < j
    <3>1. i \in 1 .. m /\ j - 1 \in 1 .. m /\ p[i] = o[i] /\ p[j] = o[j - 1]
      BY <1>3, <1>7, <2>3
    <3>2. i < j - 1
      BY <1>3, <2>3
    <3> DEFINE h == j - 1
    <3>3. h \in 1 .. m /\ i < h /\ p[j] = o[h]
      BY <3>1, <3>2
    <3> HIDE DEF h
    <3> QED
      BY <1>2, <3>1, <3>3
  <2>4. CASE i = place
    <3>1. j - 1 \in 1 .. m /\ p[i] = m + 1 /\ p[j] = o[j - 1] /\ place <= j - 1
      BY <1>3, <1>7, <1>11, <2>4
    <3> QED
      BY <1>5, <3>1 DEF l
  <2>5. CASE place < i
    <3> DEFINE g == i - 1
               h == j - 1
    <3>1. place < j
      BY <1>3, <1>11, <2>5
    <3>2. p[i] = o[i - 1] /\ p[j] = o[j - 1]
      <4> HIDE DEF g, h
      <4>1. ~(i < place) /\ i # place /\ ~(j < place) /\ j # place
        BY <1>3, <2>5, <3>1
      <4> QED
        BY <4>1 DEF p
    <3>3. g \in 1 .. m /\ h \in 1 .. m /\ g < h
      BY <1>3, <1>11, <2>5, <3>1
    <3>4. length[o[g]] >= length[o[h]]
      <4> HIDE DEF g, h
      <4> QED
        BY <1>2, <3>3
    <3> QED
      BY <3>2, <3>4
  <2> QED
    BY <1>3, <1>11, <2>1, <2>2, <2>3, <2>4, <2>5
<1>12. IsOrder(p, m + 1, length)
  <2> DEFINE q == m + 1
  <2>1. /\ p \in [1 .. q -> 1 .. q]
        /\ \A i, j \in 1 .. q : p[i] = p[j] => i = j
        /\ \A k \in 1 .. q : \E i \in 1 .. q : p[i] = k
        /\ \A i, j \in 1 .. q : i < j => length[p[i]] >= length[p[j]]
    BY <1>8, <1>9, <1>10, <1>11
  <2> HIDE DEF q
  <2>2. IsOrder(p, q, length)
    BY <2>1 DEF IsOrder
  <2> QED
    BY <2>2 DEF q
<1> QED
  BY <1>12

LEMMA ThereIsAnOrder ==
    ASSUME NEW n \in Nat, NEW length \in [1 .. n -> Nat]
    PROVE  \E o : IsOrder(o, n, length)
<1> DEFINE Upto(m) == [i \in 1 .. m |-> length[i]]
           There(m) == \E o : IsOrder(o, m, Upto(m))
           S == {m \in Nat : m <= n => There(m)}
<1>1. 0 \in S
  <2>1. IsOrder(<< >>, 0, Upto(0))
    BY DEF IsOrder
  <2> QED
    BY <2>1
<1>2. ASSUME NEW m \in Nat, m \in S PROVE m + 1 \in S
  <2> DEFINE q == m + 1
  <2> SUFFICES ASSUME q <= n PROVE There(q)
    <3> HIDE DEF There
    <3> QED
      OBVIOUS
  <2>1. PICK o : IsOrder(o, m, Upto(m))
    <3>1. m <= n
      OBVIOUS
    <3> HIDE DEF Upto, q
    <3> QED
      BY <1>2, <3>1
  <2>2. Upto(q) \in [1 .. m + 1 -> Nat]
    OBVIOUS
  <2>3. IsOrder(o, m, Upto(q))
    <3>1. o \in [1 .. m -> 1 .. m]
      BY <2>1 DEF IsOrder
    <3>2. \A i \in 1 .. m : Upto(q)[o[i]] = Upto(m)[o[i]]
      BY <3>1
    <3> HIDE DEF Upto, q
    <3> QED
      BY <2>1, <3>1, <3>2 DEF IsOrder
  <2> HIDE DEF Upto
  <2> QED
    BY <2>2, <2>3, OneMoreInOrder
<1>3. n \in S
  <2> HIDE DEF S
  <2> QED
    BY <1>1, <1>2, Upwards
<1>4. Upto(n) = length
  OBVIOUS
<1> QED
  BY <1>3, <1>4

LEMMA TheLongestFirst ==
    ASSUME NEW c \in Seq(Seq(Sealing!Sealable))
    PROVE  IsOrder(Sealing!LongestFirst(c), Len(c), [i \in 1 .. Len(c) |-> Len(c[i])])
<1> DEFINE n == Len(c)
           length == [i \in 1 .. n |-> Len(c[i])]
           B == Sealing!Bijection(DOMAIN c, DOMAIN c)
           Sorted(o) == \A i, j \in DOMAIN c : i < j => Len(c[o[i]]) >= Len(c[o[j]])
<1>1. n \in Nat /\ DOMAIN c = 1 .. n
  OBVIOUS
<1>2. length \in [1 .. n -> Nat]
  OBVIOUS
<1>3. ASSUME NEW o PROVE (o \in B /\ Sorted(o)) <=> IsOrder(o, n, length)
  <2>1. o \in B <=> /\ o \in [1 .. n -> 1 .. n]
                    /\ \A i, j \in 1 .. n : o[i] = o[j] => i = j
                    /\ \A k \in 1 .. n : \E i \in 1 .. n : o[i] = k
    <3> HIDE DEF n
    <3> QED
      BY <1>1 DEF Sealing!Bijection, Sealing!Injection, Sealing!Surjection,
                  Sealing!IsInjective
  <2>2. ASSUME o \in [1 .. n -> 1 .. n]
        PROVE  Sorted(o) <=> \A i, j \in 1 .. n : i < j => length[o[i]] >= length[o[j]]
    BY <1>1, <2>2
  <2> HIDE DEF n, length, B, Sorted
  <2> QED
    BY <2>1, <2>2 DEF IsOrder
<1>4. \E o : IsOrder(o, n, length)
  <2> HIDE DEF n, length
  <2> QED
    BY <1>1, <1>2, ThereIsAnOrder
<1>5. Sealing!LongestFirst(c) = CHOOSE o \in B : Sorted(o)
  BY DEF Sealing!LongestFirst
<1> HIDE DEF B, Sorted, length, n
<1>6. \E o \in B : Sorted(o)
  BY <1>3, <1>4
<1>7. IsOrder(Sealing!LongestFirst(c), n, length)
  BY <1>3, <1>5, <1>6
<1> QED
  BY <1>7 DEF n, length

-----------------------------------------------------------------------------
(* Texts that are put together, and what a replacement does to them.        *)

LEMMA Joined ==
    ASSUME NEW S, NEW u \in Seq(S), NEW v \in Seq(S)
    PROVE  /\ Len(u) \in Nat /\ Len(v) \in Nat
           /\ u \o v \in Seq(S) /\ Len(u \o v) = Len(u) + Len(v)
           /\ \A i \in 1 .. Len(u) : (u \o v)[i] = u[i]
           /\ \A i \in 1 .. Len(v) : (u \o v)[Len(u) + i] = v[i]
  OBVIOUS

\* f says what the text becomes from each place on when `with' stands for `what'.
IsReplaced(f, text, what, with) ==
    /\ \A i \in 1 .. Len(text) + 1 : f[i] \in Seq(Symbols)
    /\ f[Len(text) + 1] = << >>
    /\ \A i \in 1 .. Len(text) :
           f[i] = IF Sealing!StandsAt(text, i, what) THEN with \o f[i + Len(what)]
                  ELSE <<text[i]>> \o f[i + 1]

LEMMA Replaces ==
    ASSUME NEW text \in Seq(Symbols), NEW what \in Seq(Symbols), Len(what) >= 1,
           NEW with \in Seq(Symbols)
    PROVE  \E f : IsReplaced(f, text, what, with) /\ Sealing!Replace(text, what, with) = f[1]
<1> DEFINE n == Len(text)
           m == Len(what)
           Stands(i) == Sealing!StandsAt(text, i, what)
           Replaced(f) == [i \in 1 .. n + 1 |->
               IF i > n THEN << >>
               ELSE IF Stands(i) THEN with \o f[i + m] ELSE <<text[i]>> \o f[i + 1]]
           replaced == CHOOSE f : f = Replaced(f)
           pieces == [i \in 1 .. n |-> IF Stands(i) THEN with ELSE <<text[i]>>]
           next == [i \in 1 .. n |-> IF Stands(i) THEN i + m ELSE i + 1]
<1>1. n \in Nat /\ m \in Nat /\ m >= 1
  OBVIOUS
<1>2. Sealing!Replace(text, what, with) = replaced[1]
  BY DEF Sealing!Replace
<1>3. ASSUME NEW i \in 1 .. n PROVE text[i] \in Symbols /\ (Stands(i) => i + m <= n + 1)
  BY DEF Sealing!StandsAt
<1> HIDE DEF Stands
<1>4. \A i \in 1 .. n : pieces[i] \in Seq(Symbols)
  BY <1>3
<1>5. GoesOn(next, n)
  <2> SUFFICES ASSUME NEW i \in 1 .. n PROVE next[i] \in i + 1 .. n + 1
    BY DEF GoesOn
  <2>1. next[i] = IF Stands(i) THEN i + m ELSE i + 1
    OBVIOUS
  <2> HIDE DEF next, n, m
  <2> QED
    BY <1>1, <1>3, <2>1
<1>6. PICK f : f = [i \in 1 .. n + 1 |-> f[i]] /\ IsPut(f, n, pieces, next)
  <2> HIDE DEF n, pieces, next
  <2> QED
    BY <1>1, <1>5, Walks
<1>7. ASSUME NEW g, NEW i \in 1 .. n PROVE Replaced(g)[i] = pieces[i] \o g[next[i]]
  <2> HIDE DEF n, m
  <2>1. i \in 1 .. n + 1 /\ ~(i > n)
    BY <1>1
  <2>2. Replaced(g)[i] = IF Stands(i) THEN with \o g[i + m] ELSE <<text[i]>> \o g[i + 1]
    BY <2>1
  <2> HIDE DEF Replaced
  <2> QED
    BY <2>2
<1>8. ASSUME NEW g PROVE Replaced(g)[n + 1] = << >>
  <2> HIDE DEF n, m
  <2> DEFINE e == n + 1
  <2>1. e \in 1 .. n + 1 /\ e > n
    BY <1>1
  <2> HIDE DEF e
  <2>2. Replaced(g)[e] = << >>
    BY <2>1
  <2> QED
    BY <2>2 DEF e
<1>9. f = Replaced(f)
  <2>1. Replaced(f) = [i \in 1 .. n + 1 |-> Replaced(f)[i]]
    OBVIOUS
  <2>2. \A i \in 1 .. n + 1 : i = n + 1 \/ i \in 1 .. n
    BY <1>1
  <2> HIDE DEF Replaced, pieces, next, n
  <2>3. \A i \in 1 .. n + 1 : Replaced(f)[i] = f[i]
    BY <1>6, <1>7, <1>8, <2>2 DEF IsPut
  <2> QED
    BY <1>6, <2>1, <2>3
<1>10. replaced = Replaced(replaced)
  BY <1>9
<1> HIDE DEF replaced
<1>11. IsPut(replaced, n, pieces, next)
  <2> HIDE DEF Replaced, pieces, next, n
  <2> QED
    BY <1>7, <1>8, <1>10 DEF IsPut
<1>12. \A i \in 1 .. n + 1 : replaced[i] \in Seq(Symbols)
  <2> HIDE DEF Replaced, pieces, next, n
  <2> QED
    BY <1>1, <1>4, <1>5, <1>11, WalksAreTexts
<1>13. ASSUME NEW i \in 1 .. n
       PROVE  replaced[i] = IF Stands(i) THEN with \o replaced[i + m]
                            ELSE <<text[i]>> \o replaced[i + 1]
  <2> HIDE DEF n, m
  <2> QED
    BY <1>11 DEF IsPut
<1>14. IsReplaced(replaced, text, what, with)
  BY <1>11, <1>12, <1>13 DEF IsReplaced, IsPut, Stands
<1> QED
  BY <1>2, <1>14

LEMMA StandsWhereItStood ==
    ASSUME NEW u \in Seq(Symbols), NEW v \in Seq(Symbols), NEW what \in Seq(Symbols),
           NEW i \in 1 .. Len(v)
    PROVE  Sealing!StandsAt(u \o v, Len(u) + i, what) <=> Sealing!StandsAt(v, i, what)
<1> DEFINE a == Len(u)
           b == Len(v)
           m == Len(what)
           uv == u \o v
<1>1. /\ a \in Nat /\ b \in Nat /\ Len(uv) = a + b
      /\ \A k \in 1 .. b : uv[a + k] = v[k]
  BY Joined
<1>2. m \in Nat
  OBVIOUS
<1> HIDE DEF a, b, m, uv
<1>3. i \in 1 .. b
  BY DEF b
<1>4. (a + i) + m <= Len(uv) + 1 <=> i + m <= b + 1
  BY <1>1, <1>2, <1>3
<1>5. ASSUME i + m <= b + 1, NEW k \in 1 .. m
      PROVE  uv[(a + i) + (k - 1)] = v[i + (k - 1)]
  <2> DEFINE h == i + (k - 1)
  <2>1. h \in 1 .. b /\ (a + i) + (k - 1) = a + h
    BY <1>1, <1>2, <1>3, <1>5
  <2> HIDE DEF h
  <2>2. uv[a + h] = v[h]
    BY <1>1, <2>1
  <2> QED
    BY <2>1, <2>2 DEF h
<1>6. Sealing!StandsAt(uv, a + i, what) <=>
          /\ (a + i) + m <= Len(uv) + 1
          /\ \A k \in 1 .. m : uv[(a + i) + (k - 1)] = what[k]
  BY DEF Sealing!StandsAt, m
<1>7. Sealing!StandsAt(v, i, what) <=>
          /\ i + m <= b + 1 /\ \A k \in 1 .. m : v[i + (k - 1)] = what[k]
  BY DEF Sealing!StandsAt, m, b
<1>8. Sealing!StandsAt(uv, a + i, what) <=> Sealing!StandsAt(v, i, what)
  BY <1>4, <1>5, <1>6, <1>7
<1> QED
  BY <1>8 DEF uv, a

\* What is replaced in the rest of a text depends on the rest of it only.
LEMMA ReplacedInTheRest ==
    ASSUME NEW u \in Seq(Symbols), NEW v \in Seq(Symbols), NEW what \in Seq(Symbols),
           Len(what) >= 1, NEW with \in Seq(Symbols), NEW f, NEW g,
           IsReplaced(f, u \o v, what, with), IsReplaced(g, v, what, with)
    PROVE  \A i \in 1 .. Len(v) + 1 : f[Len(u) + i] = g[i]
<1> DEFINE a == Len(u)
           b == Len(v)
           m == Len(what)
           uv == u \o v
           S == {i \in 1 .. b + 1 : f[a + i] = g[i]}
<1>1. /\ a \in Nat /\ b \in Nat /\ Len(uv) = a + b
      /\ \A k \in 1 .. b : uv[a + k] = v[k]
  BY Joined
<1>2. m \in Nat /\ m >= 1
  OBVIOUS
<1>3. \A i \in 1 .. b : Sealing!StandsAt(uv, a + i, what) <=> Sealing!StandsAt(v, i, what)
  BY StandsWhereItStood
<1>4. \A i \in 1 .. b : Sealing!StandsAt(v, i, what) => i + m <= b + 1
  BY DEF Sealing!StandsAt
<1>5. /\ f[Len(uv) + 1] = << >>
      /\ \A i \in 1 .. Len(uv) :
           f[i] = IF Sealing!StandsAt(uv, i, what) THEN with \o f[i + m]
                  ELSE <<uv[i]>> \o f[i + 1]
  BY DEF IsReplaced
<1>6. /\ g[b + 1] = << >>
      /\ \A i \in 1 .. b :
           g[i] = IF Sealing!StandsAt(v, i, what) THEN with \o g[i + m]
                  ELSE <<v[i]>> \o g[i + 1]
  BY DEF IsReplaced
<1> HIDE DEF a, b, m, uv
<1>7. ASSUME NEW i \in 1 .. b + 1, \A j \in i + 1 .. b + 1 : j \in S PROVE f[a + i] = g[i]
  <2>1. CASE i = b + 1
    <3>1. a + i = Len(uv) + 1
      BY <1>1, <2>1
    <3> QED
      BY <1>5, <1>6, <2>1, <3>1
  <2>2. CASE i \in 1 .. b
    <3> DEFINE h == a + i
               j == IF Sealing!StandsAt(v, i, what) THEN i + m ELSE i + 1
    <3>1. h \in 1 .. Len(uv) /\ uv[h] = v[i]
      BY <1>1, <2>2
    <3>2. Sealing!StandsAt(uv, h, what) <=> Sealing!StandsAt(v, i, what)
      BY <1>3, <2>2
    <3>3. j \in i + 1 .. b + 1
      BY <1>1, <1>2, <1>4, <2>2
    <3>4. f[a + j] = g[j]
      BY <1>7, <3>3
    <3>5. a + j = IF Sealing!StandsAt(v, i, what) THEN h + m ELSE h + 1
      BY <1>1, <1>2, <2>2
    <3> HIDE DEF h
    <3>6. f[h] = IF Sealing!StandsAt(v, i, what) THEN with \o f[h + m] ELSE <<v[i]>> \o f[h + 1]
      BY <1>5, <3>1, <3>2
    <3>7. g[i] = IF Sealing!StandsAt(v, i, what) THEN with \o g[i + m] ELSE <<v[i]>> \o g[i + 1]
      BY <1>6, <2>2
    <3>8. f[h] = g[i]
      BY <3>4, <3>5, <3>6, <3>7
    <3> QED
      BY <3>8 DEF h
  <2> QED
    BY <1>1, <2>1, <2>2
<1>8. 1 .. b + 1 \subseteq S
  <2>1. ASSUME NEW i \in 1 .. b + 1, \A j \in i + 1 .. b + 1 : j \in S PROVE i \in S
    BY <1>7, <2>1
  <2> HIDE DEF S
  <2> QED
    BY <1>1, <2>1, Downwards
<1> QED
  BY <1>8 DEF a, b

LEMMA ReplacedInNothing ==
    ASSUME NEW what \in Seq(Symbols), Len(what) >= 1, NEW with \in Seq(Symbols)
    PROVE  Sealing!Replace(<< >>, what, with) = << >>
<1> DEFINE none == << >>
<1>1. none \in Seq(Symbols) /\ Len(none) + 1 = 1
  OBVIOUS
<1> HIDE DEF none
<1>2. PICK f : IsReplaced(f, none, what, with) /\ Sealing!Replace(none, what, with) = f[1]
  BY <1>1, Replaces
<1>3. f[1] = << >>
  BY <1>1, <1>2 DEF IsReplaced
<1> QED
  BY <1>2, <1>3 DEF none

\* What stands at the beginning is replaced, and the rest is as if it stood alone.
LEMMA ReplacedHere ==
    ASSUME NEW v \in Seq(Symbols), NEW what \in Seq(Symbols), Len(what) >= 1,
           NEW with \in Seq(Symbols)
    PROVE  Sealing!Replace(what \o v, what, with) = with \o Sealing!Replace(v, what, with)
<1> DEFINE m == Len(what)
           text == what \o v
<1>1. /\ m \in Nat /\ Len(v) \in Nat /\ text \in Seq(Symbols) /\ Len(text) = m + Len(v)
      /\ \A i \in 1 .. m : text[i] = what[i]
  BY Joined
<1>2. PICK f : IsReplaced(f, text, what, with) /\ Sealing!Replace(text, what, with) = f[1]
  <2> HIDE DEF text
  <2> QED
    BY <1>1, Replaces
<1>3. PICK g : IsReplaced(g, v, what, with) /\ Sealing!Replace(v, what, with) = g[1]
  BY Replaces
<1>4. f[m + 1] = g[1]
  <2>1. \A i \in 1 .. Len(v) + 1 : f[m + i] = g[i]
    BY <1>2, <1>3, ReplacedInTheRest
  <2>2. 1 \in 1 .. Len(v) + 1
    BY <1>1
  <2> QED
    BY <2>1, <2>2
<1> HIDE DEF m, text
<1>5. Sealing!StandsAt(text, 1, what)
  <2>1. \A k \in 1 .. m : text[1 + (k - 1)] = what[k]
    <3> SUFFICES ASSUME NEW k \in 1 .. m PROVE text[1 + (k - 1)] = what[k]
      OBVIOUS
    <3>1. 1 + (k - 1) = k
      BY <1>1
    <3> QED
      BY <1>1, <3>1
  <2>2. 1 + m <= Len(text) + 1
    BY <1>1
  <2> QED
    BY <2>1, <2>2 DEF Sealing!StandsAt, m
<1>6. 1 \in 1 .. Len(text) /\ 1 + m = m + 1
  BY <1>1 DEF m
<1>7. f[1] = with \o f[1 + m]
  BY <1>2, <1>5, <1>6 DEF IsReplaced, m
<1> QED
  BY <1>2, <1>3, <1>4, <1>6, <1>7 DEF text

Cat(u, v) == u \o v

LEMMA Regrouped ==
    ASSUME NEW u \in Seq(Symbols), NEW v \in Seq(Symbols), NEW w \in Seq(Symbols)
    PROVE  Cat(Cat(u, v), w) = Cat(u, Cat(v, w))
  BY ConcatAssociative DEF Cat

LEMMA OneBefore ==
    ASSUME NEW u \in Seq(Symbols), NEW i \in 1 .. Len(u), NEW r \in Seq(Symbols)
    PROVE  SubSeq(u, i, Len(u)) \o r = <<u[i]>> \o (SubSeq(u, i + 1, Len(u)) \o r)
<1> DEFINE s == SubSeq(u, i + 1, Len(u))
           x == <<u[i]>>
<1>1. SubSeq(u, i, Len(u)) = x \o s
  BY SubSeqRecursiveFirst
<1>2. x \in Seq(Symbols)
  OBVIOUS
<1>3. s \in Seq(Symbols)
  <2> DEFINE h == i + 1
             a == Len(u)
  <2>1. h \in Int /\ a \in Int /\ \A k \in h .. a : u[k] \in Symbols
    OBVIOUS
  <2> HIDE DEF h, a
  <2>2. SubSeq(u, h, a) \in Seq(Symbols)
    BY <2>1, SubSeqProperties
  <2> QED
    BY <2>2 DEF h, a
<1> HIDE DEF s, x
<1>4. Cat(Cat(x, s), r) = Cat(x, Cat(s, r))
  BY <1>2, <1>3, Regrouped
<1>5. SubSeq(u, i, Len(u)) \o r = x \o (s \o r)
  BY <1>1, <1>4 DEF Cat
<1> QED
  BY <1>5 DEF s, x

DoesNotStand(what, u, v) == \A i \in 1 .. Len(u) : ~Sealing!StandsAt(u \o v, i, what)

\* Where it does not stand, nothing is touched.
LEMMA ReplacedLater ==
    ASSUME NEW u \in Seq(Symbols), NEW v \in Seq(Symbols), NEW what \in Seq(Symbols),
           Len(what) >= 1, NEW with \in Seq(Symbols),
           DoesNotStand(what, u, v)
    PROVE  Sealing!Replace(u \o v, what, with) = u \o Sealing!Replace(v, what, with)
<1> DEFINE a == Len(u)
           text == u \o v
<1>1. /\ a \in Nat /\ Len(v) \in Nat /\ text \in Seq(Symbols) /\ Len(text) = a + Len(v)
      /\ \A i \in 1 .. a : text[i] = u[i]
  BY Joined
<1>2. PICK f : IsReplaced(f, text, what, with) /\ Sealing!Replace(text, what, with) = f[1]
  <2> HIDE DEF text
  <2> QED
    BY <1>1, Replaces
<1>3. PICK g : IsReplaced(g, v, what, with) /\ Sealing!Replace(v, what, with) = g[1]
  BY Replaces
<1>4. f[a + 1] = g[1]
  <2>1. \A i \in 1 .. Len(v) + 1 : f[a + i] = g[i]
    BY <1>2, <1>3, ReplacedInTheRest
  <2>2. 1 \in 1 .. Len(v) + 1
    BY <1>1
  <2> QED
    BY <2>1, <2>2
<1>5. ASSUME NEW i \in 1 .. a
      PROVE  f[i] = <<u[i]>> \o f[i + 1] /\ f[i + 1] \in Seq(Symbols)
  <2>1. i \in 1 .. Len(text) /\ text[i] = u[i] /\ i + 1 \in 1 .. Len(text) + 1
    BY <1>1
  <2>2. ~Sealing!StandsAt(text, i, what)
    BY DEF DoesNotStand
  <2> HIDE DEF text, a
  <2> QED
    BY <1>2, <2>1, <2>2 DEF IsReplaced
<1> DEFINE r == g[1]
           S == {i \in 1 .. a + 1 : f[i] = SubSeq(u, i, a) \o r}
<1>6. r \in Seq(Symbols)
  <2>1. 1 \in 1 .. Len(v) + 1
    BY <1>1
  <2> QED
    BY <1>3, <2>1 DEF IsReplaced
<1> HIDE DEF r
<1>7. ASSUME NEW i \in 1 .. a + 1, \A j \in i + 1 .. a + 1 : j \in S
      PROVE  f[i] = SubSeq(u, i, a) \o r
  <2>1. CASE i = a + 1
    <3>1. SubSeq(u, a + 1, a) = << >>
      <4> HIDE DEF a
      <4> QED
        BY <1>1, SubSeqEmpty
    <3>2. << >> \o r = r
      BY <1>6, ConcatEmptySeq
    <3> QED
      BY <1>4, <2>1, <3>1, <3>2 DEF r
  <2>2. CASE i \in 1 .. a
    <3> DEFINE h == i + 1
               s == SubSeq(u, h, a)
    <3>1. h \in S
      BY <1>1, <1>7, <2>2
    <3>2. f[h] = s \o r
      BY <3>1
    <3>3. SubSeq(u, i, a) \o r = <<u[i]>> \o (s \o r)
      BY <1>6, <2>2, OneBefore
    <3> HIDE DEF s
    <3>4. f[i] = <<u[i]>> \o f[h]
      BY <1>5, <2>2
    <3> QED
      BY <3>2, <3>3, <3>4
  <2> QED
    BY <1>1, <2>1, <2>2
<1>8. 1 .. a + 1 \subseteq S
  <2>1. ASSUME NEW i \in 1 .. a + 1, \A j \in i + 1 .. a + 1 : j \in S PROVE i \in S
    BY <1>7, <2>1
  <2> HIDE DEF S, a
  <2> QED
    BY <1>1, <2>1, Downwards
<1>9. f[1] = SubSeq(u, 1, a) \o r
  <2>1. 1 \in 1 .. a + 1
    BY <1>1
  <2> QED
    BY <1>8, <2>1
<1>10. SubSeq(u, 1, a) = u
  BY SubSeqFull
<1> QED
  BY <1>2, <1>3, <1>9, <1>10 DEF r

LEMMA SealableIsWritten == Seq(Sealing!Sealable) \subseteq Seq(Symbols)
  BY DEF Symbols

\* A ciphertext that is no shorter than a run and is another does not stand in it,
\* for it does not go beyond it.
LEMMA NotInAShorter ==
    ASSUME NEW u \in Seq(Sealing!Sealable), NEW v \in Seq(Symbols),
           v # << >> => v[1] \notin Sealing!Sealable,
           NEW what \in Seq(Sealing!Sealable), Len(what) >= Len(u), what # u,
           NEW i \in 1 .. Len(u)
    PROVE  ~Sealing!StandsAt(u \o v, i, what)
<1> DEFINE a == Len(u)
           b == Len(v)
           m == Len(what)
           text == u \o v
<1>1. /\ a \in Nat /\ b \in Nat /\ Len(text) = a + b
      /\ \A k \in 1 .. a : text[k] = u[k]
      /\ \A k \in 1 .. b : text[a + k] = v[k]
  BY SealableIsWritten, Joined
<1>2. m \in Nat /\ m >= a
  OBVIOUS
<1> SUFFICES ASSUME Sealing!StandsAt(text, i, what) PROVE FALSE
  OBVIOUS
<1>3. i + m <= Len(text) + 1 /\ \A k \in 1 .. m : text[i + (k - 1)] = what[k]
  BY DEF Sealing!StandsAt
<1>4. \A k \in 1 .. m : what[k] \in Sealing!Sealable
  OBVIOUS
<1>5. b >= 1 => v[1] \notin Sealing!Sealable
  OBVIOUS
<1>6. i \in 1 .. a
  OBVIOUS
<1>7. m = a /\ (\A k \in 1 .. a : what[k] = u[k]) => FALSE
  BY SeqEqual
<1> HIDE DEF a, b, m, text
<1>8. CASE i + m > a + 1
  <2> DEFINE k == (a + 2) - i
  <2>1. k \in 1 .. m /\ i + (k - 1) = a + 1 /\ b >= 1
    BY <1>1, <1>2, <1>3, <1>6, <1>8
  <2> HIDE DEF k
  <2>2. text[a + 1] = what[k]
    BY <1>3, <2>1
  <2>3. text[a + 1] = v[1]
    BY <1>1, <2>1
  <2> QED
    BY <1>4, <1>5, <2>1, <2>2, <2>3
<1>9. CASE i + m <= a + 1
  <2>1. i = 1 /\ m = a
    BY <1>1, <1>2, <1>6, <1>9
  <2>2. ASSUME NEW k \in 1 .. a PROVE what[k] = u[k]
    <3>1. i + (k - 1) = k
      BY <1>1, <2>1
    <3> QED
      BY <1>1, <1>3, <2>1, <3>1
  <2> QED
    BY <1>7, <2>1, <2>2
<1> QED
  BY <1>1, <1>2, <1>6, <1>8, <1>9

\* A ciphertext begins with a marker.
LEMMA NotWithoutAMarker ==
    ASSUME NEW u \in Seq(Symbols), NEW v \in Seq(Symbols),
           NEW what \in Seq(Symbols), Len(what) >= 1, what[1] = Marker,
           NEW i \in 1 .. Len(u), u[i] # Marker
    PROVE  ~Sealing!StandsAt(u \o v, i, what)
<1> DEFINE text == u \o v
<1> SUFFICES ASSUME Sealing!StandsAt(text, i, what) PROVE FALSE
  OBVIOUS
<1>1. Len(u) \in Nat /\ text[i] = u[i]
  BY Joined
<1>2. 1 \in 1 .. Len(what) /\ i + (1 - 1) = i
  BY <1>1
<1> HIDE DEF text
<1>3. text[i + (1 - 1)] = what[1]
  BY <1>2 DEF Sealing!StandsAt
<1> QED
  BY <1>1, <1>2, <1>3

-----------------------------------------------------------------------------
(* A text with some of its runs opened.                                     *)

\* What stands for what is at i, when the tokens in O are opened.
Piece(text, O, opens, i) ==
    IF text[i] # Marker THEN <<text[i]>>
    ELSE IF Sealing!Token(text, i) \in O THEN opens[Sealing!Token(text, i)]
    ELSE Sealing!Token(text, i)

IsReading(f, text, O, opens) ==
    /\ \A i \in 1 .. Len(text) + 1 : f[i] \in Seq(Symbols)
    /\ f[Len(text) + 1] = << >>
    /\ \A i \in 1 .. Len(text) : f[i] = Piece(text, O, opens, i) \o f[After(text, i)]

\* What opens has no marker.
AreOpened(O, opens) ==
    \A t \in O : /\ opens[t] \in Seq(Symbols)
                 /\ \A k \in 1 .. Len(opens[t]) : opens[t][k] # Marker

LEMMA PieceIsWritten ==
    ASSUME NEW text \in Written, NEW O, NEW opens, AreOpened(O, opens),
           NEW i \in 1 .. Len(text)
    PROVE  Piece(text, O, opens, i) \in Seq(Symbols)
<1>1. text[i] \in Symbols
  BY DEF Written, Symbols
<1>2. CASE text[i] # Marker
  BY <1>1, <1>2 DEF Piece
<1>3. CASE text[i] = Marker
  <2>1. Sealing!Token(text, i) \in Seq(Symbols)
    BY <1>3, Runs, SealableIsWritten
  <2> QED
    BY <1>3, <2>1 DEF Piece, AreOpened
<1> QED
  BY <1>2, <1>3

LEMMA AfterGoesOn ==
    ASSUME NEW text \in Written, NEW i \in 1 .. Len(text)
    PROVE  After(text, i) \in i + 1 .. Len(text) + 1
<1>1. Len(text) \in Nat
  BY DEF Written
<1> QED
  BY <1>1, Runs DEF After

LEMMA Readings ==
    ASSUME NEW text \in Written, NEW O, NEW opens, AreOpened(O, opens)
    PROVE  \E f : IsReading(f, text, O, opens)
<1> DEFINE n == Len(text)
           pieces == [i \in 1 .. n |-> Piece(text, O, opens, i)]
           next == [i \in 1 .. n |-> After(text, i)]
<1>1. n \in Nat
  BY DEF Written
<1>2. \A i \in 1 .. n : pieces[i] \in Seq(Symbols)
  BY PieceIsWritten
<1>3. GoesOn(next, n)
  BY AfterGoesOn DEF GoesOn
<1>4. PICK f : f = [i \in 1 .. n + 1 |-> f[i]] /\ IsPut(f, n, pieces, next)
  <2> HIDE DEF n, pieces, next
  <2> QED
    BY <1>1, <1>3, Walks
<1>5. \A i \in 1 .. n : f[i] = Piece(text, O, opens, i) \o f[After(text, i)]
  BY <1>4 DEF IsPut
<1>6. f[n + 1] = << >> /\ \A i \in 1 .. n + 1 : f[i] \in Seq(Symbols)
  <2>1. \A i \in 1 .. n + 1 : f[i] \in Seq(Symbols)
    <3> HIDE DEF n, pieces, next
    <3> QED
      BY <1>1, <1>2, <1>3, <1>4, WalksAreTexts
  <2> QED
    BY <1>4, <2>1 DEF IsPut
<1> QED
  BY <1>5, <1>6 DEF IsReading

\* There is one reading of a text.
ReadsWhereReached(g, text, O, opens) ==
    /\ g[Len(text) + 1] = << >>
    /\ \A i \in 1 .. Len(text) :
           Reached(text, i) => g[i] = Piece(text, O, opens, i) \o g[After(text, i)]

LEMMA OneReading ==
    ASSUME NEW text \in Written, NEW O, NEW opens, NEW f, IsReading(f, text, O, opens),
           NEW g, ReadsWhereReached(g, text, O, opens)
    PROVE  g[1] = f[1]
<1> USE DEF ReadsWhereReached
<1> DEFINE n == Len(text)
           S == {i \in 1 .. n + 1 : Reached(text, i) => g[i] = f[i]}
<1>1. n \in Nat
  BY DEF Written
<1>2. ASSUME NEW i \in 1 .. n + 1, \A j \in i + 1 .. n + 1 : j \in S, Reached(text, i)
      PROVE  g[i] = f[i]
  <2>1. CASE i = n + 1
    BY <2>1 DEF IsReading
  <2>2. CASE i \in 1 .. n
    <3> DEFINE a == After(text, i)
    <3>1. a \in i + 1 .. n + 1 /\ Reached(text, a)
      BY <1>2, <2>2, AfterIsReached
    <3> HIDE DEF a
    <3>2. g[a] = f[a]
      BY <1>2, <3>1
    <3> QED
      BY <1>2, <2>2, <3>2 DEF IsReading, a
  <2> QED
    BY <1>1, <2>1, <2>2
<1>3. 1 .. n + 1 \subseteq S
  <2>1. ASSUME NEW i \in 1 .. n + 1, \A j \in i + 1 .. n + 1 : j \in S PROVE i \in S
    BY <1>2, <2>1
  <2> HIDE DEF S, n
  <2> QED
    BY <1>1, <2>1, Downwards
<1>4. 1 \in S
  BY <1>1, <1>3
<1> QED
  BY <1>4, TheFirstIsReached

\* With nothing opened, a text reads as it is written.
LEMMA ReadAsWritten ==
    ASSUME NEW text \in Written, NEW opens, NEW f, IsReading(f, text, {}, opens)
    PROVE  f[1] = text
<1> DEFINE n == Len(text)
           S == {i \in 1 .. n + 1 : f[i] = SubSeq(text, i, n)}
<1>1. n \in Nat /\ text \in Seq(Symbols)
  BY DEF Written, Symbols
<1>2. ASSUME NEW i \in 1 .. n + 1, \A j \in i + 1 .. n + 1 : j \in S
      PROVE  f[i] = SubSeq(text, i, n)
  <2>1. CASE i = n + 1
    <3>1. f[i] = << >>
      BY <2>1 DEF IsReading
    <3> HIDE DEF n
    <3> QED
      BY <1>1, <2>1, <3>1, SubSeqEmpty
  <2>2. CASE i \in 1 .. n
    <3> DEFINE a == After(text, i)
               e == a - 1
    <3>1. a \in i + 1 .. n + 1
      BY <2>2, AfterGoesOn
    <3>2. f[a] = SubSeq(text, a, n)
      BY <1>2, <3>1
    <3>3. f[i] = Piece(text, {}, opens, i) \o f[a]
      BY <2>2 DEF IsReading
    <3>4. Piece(text, {}, opens, i) = SubSeq(text, i, e)
      <4>1. CASE text[i] = Marker
        <5>1. e = Sealing!End(text, i)
          BY <2>2, <4>1, Runs DEF After
        <5> QED
          BY <4>1, <5>1 DEF Piece, Sealing!Token
      <4>2. CASE text[i] # Marker
        <5>1. e = i
          BY <2>2, <4>2 DEF After
        <5>2. SubSeq(text, i, i) = <<text[i]>>
          <6>1. SubSeq(text, i, i) = <<text[i]>> \o SubSeq(text, i + 1, i)
            BY <1>1, <2>2, SubSeqRecursiveFirst
          <6>2. SubSeq(text, i + 1, i) = << >>
            BY <2>2, SubSeqEmpty
          <6>3. <<text[i]>> \in Seq(Symbols)
            BY <1>1, <2>2
          <6> QED
            BY <6>1, <6>2, <6>3, ConcatEmptySeq
        <5> HIDE DEF e
        <5> QED
          BY <4>2, <5>1, <5>2 DEF Piece
      <4> QED
        BY <4>1, <4>2
    <3>5. SubSeq(text, i, e) \o SubSeq(text, e + 1, n) = SubSeq(text, i, n)
      <4>1. e \in i - 1 .. n /\ n \in e .. n /\ e \in Int
        BY <1>1, <2>2, <3>1
      <4> HIDE DEF e
      <4> QED
        BY <1>1, <2>2, <4>1, ConcatAdjacentSubSeq
    <3>6. e + 1 = a
      BY <1>1, <3>1
    <3> HIDE DEF a, e
    <3> QED
      BY <3>2, <3>3, <3>4, <3>5, <3>6
  <2> QED
    BY <1>1, <2>1, <2>2
<1>3. 1 .. n + 1 \subseteq S
  <2>1. ASSUME NEW i \in 1 .. n + 1, \A j \in i + 1 .. n + 1 : j \in S PROVE i \in S
    BY <1>2, <2>1
  <2> HIDE DEF S, n
  <2> QED
    BY <1>1, <2>1, Downwards
<1>4. f[1] = SubSeq(text, 1, n)
  <2>1. 1 \in S
    <3> HIDE DEF S, n
    <3> QED
      BY <1>1, <1>3
  <2> QED
    BY <2>1
<1> QED
  BY <1>1, <1>4, SubSeqFull

\* To replace the longest of what is sealed is to open it wherever it is sealed.
LEMMA OneMoreOpened ==
    ASSUME NEW text \in Written, NEW O, NEW opens, NEW c \in Seq(Sealing!Sealable),
           AreOpened(O \cup {c}, opens), Len(c) >= 2, c[1] = Marker,
           \A i \in Sought(text, 1) :
               Sealing!Token(text, i) \in O \/ Len(Sealing!Token(text, i)) <= Len(c),
           NEW f, IsReading(f, text, O, opens),
           NEW g, IsReading(g, text, O \cup {c}, opens)
    PROVE  Sealing!Replace(f[1], c, opens[c]) = g[1]
<1> DEFINE n == Len(text)
           R(v) == Sealing!Replace(v, c, opens[c])
           Token(i) == Sealing!Token(text, i)
           S == {i \in 1 .. n + 1 : Reached(text, i) => R(f[i]) = g[i]}
<1>1. n \in Nat /\ \A i \in 1 .. n : text[i] \in Symbols
  BY DEF Written, Symbols
<1>2. c \in Seq(Symbols) /\ Len(c) >= 1 /\ Len(c) \in Nat /\ opens[c] \in Seq(Symbols)
  BY SealableIsWritten DEF AreOpened
<1>3. f[n + 1] = << >> /\ g[n + 1] = << >>
  BY DEF IsReading
<1>4. ASSUME NEW i \in 1 .. n + 1, \A j \in i + 1 .. n + 1 : j \in S, Reached(text, i)
      PROVE  R(f[i]) = g[i]
  <2>1. CASE i = n + 1
    BY <1>2, <1>3, <2>1, ReplacedInNothing
  <2>2. CASE i \in 1 .. n
    <3> DEFINE a == After(text, i)
               p == Piece(text, O, opens, i)
               q == Piece(text, O \cup {c}, opens, i)
               rest == f[a]
    <3>1. a \in i + 1 .. n + 1 /\ Reached(text, a)
      BY <1>4, <2>2, AfterIsReached
    <3>2. R(rest) = g[a]
      BY <1>4, <3>1
    <3>3. f[i] = p \o rest /\ g[i] = q \o g[a]
      BY <2>2 DEF IsReading
    <3>4. rest \in Seq(Symbols)
      BY <1>1, <3>1 DEF IsReading
    <3>5. p \in Seq(Symbols)
      <4>1. AreOpened(O, opens)
        BY DEF AreOpened
      <4> QED
        BY <2>2, <4>1, PieceIsWritten
    <3>6. ASSUME p = q, DoesNotStand(c, p, rest)
          PROVE  R(f[i]) = g[i]
      <4> HIDE DEF p, q, rest, a
      <4>1. R(p \o rest) = p \o R(rest)
        <5>1. DoesNotStand(c, p, rest)
          BY <3>6
        <5> QED
          BY <1>2, <3>4, <3>5, <5>1, ReplacedLater
      <4> HIDE DEF R
      <4> QED
        BY <3>2, <3>3, <3>6, <4>1
    <3>7. CASE text[i] # Marker
      <4>1. p = <<text[i]>> /\ q = <<text[i]>>
        BY <3>7 DEF Piece
      <4>2. Len(p) = 1 /\ p[1] # Marker
        BY <3>7, <4>1
      <4>3. \A k \in 1 .. Len(p) : p[k] # Marker
        BY <4>2
      <4> HIDE DEF p, q, rest, a
      <4>4. DoesNotStand(c, p, rest)
        BY <1>2, <3>4, <3>5, <4>3, NotWithoutAMarker DEF DoesNotStand
      <4> QED
        BY <3>6, <4>1, <4>4
    <3>8. CASE text[i] = Marker /\ Token(i) \in O
      <4>1. p = opens[Token(i)] /\ q = opens[Token(i)]
        BY <3>8 DEF Piece
      <4>2. \A k \in 1 .. Len(p) : p[k] # Marker
        BY <3>8, <4>1 DEF AreOpened
      <4> HIDE DEF p, q, rest, a
      <4>3. DoesNotStand(c, p, rest)
        BY <1>2, <3>4, <3>5, <4>2, NotWithoutAMarker DEF DoesNotStand
      <4> QED
        BY <3>6, <4>1, <4>3
    <3>9. CASE text[i] = Marker /\ Token(i) \notin O /\ Token(i) = c
      <4>1. p = c /\ q = opens[c]
        BY <3>9 DEF Piece
      <4> HIDE DEF p, q, rest, a
      <4>2. R(c \o rest) = opens[c] \o R(rest)
        BY <1>2, <3>4, ReplacedHere
      <4> HIDE DEF R
      <4> QED
        BY <3>2, <3>3, <4>1, <4>2
    <3>10. CASE text[i] = Marker /\ Token(i) \notin O /\ Token(i) # c
      <4>1. p = Token(i) /\ q = Token(i)
        BY <3>10 DEF Piece
      <4>2. i \in Sought(text, 1)
        BY <1>1, <1>4, <2>2, <3>10 DEF Sought
      <4>3. Len(Token(i)) <= Len(c) /\ Token(i) \in Seq(Sealing!Sealable)
        BY <2>2, <3>10, <4>2, Runs
      <4>4. Len(Token(i)) \in Nat
        BY <4>3
      <4>5. rest # << >> => rest[1] \notin Sealing!Sealable
        <5> SUFFICES ASSUME rest # << >> PROVE rest[1] \notin Sealing!Sealable
          OBVIOUS
        <5>1. a # n + 1
          BY <1>3
        <5>2. a \in 1 .. n /\ a = Sealing!End(text, i) + 1 /\ Sealing!End(text, i) \in i .. n
          BY <1>1, <2>2, <3>1, <3>10, <5>1, Runs DEF After
        <5>3. text[a] \notin Sealing!Sealable
          <6>1. IsEnd(text, i, Sealing!End(text, i))
            BY <2>2, <3>10, Runs
          <6>2. Sealing!End(text, i) < n
            BY <1>1, <5>2
          <6> QED
            BY <5>2, <6>1, <6>2 DEF IsEnd
        <5> DEFINE z == f[After(text, a)]
        <5>4. rest = <<text[a]>> \o z
          <6>1. text[a] # Marker
            BY <5>3, MarkIsSealable
          <6> HIDE DEF a
          <6> QED
            BY <5>2, <6>1 DEF IsReading, Piece
        <5>5. z \in Seq(Symbols) /\ text[a] \in Symbols
          <6>1. After(text, a) \in a + 1 .. n + 1
            BY <5>2, AfterGoesOn
          <6>2. After(text, a) \in 1 .. n + 1
            BY <1>1, <5>2, <6>1
          <6> QED
            BY <1>1, <5>2, <6>2 DEF IsReading
        <5> HIDE DEF rest, z, a
        <5>6. rest[1] = text[a]
          BY <5>4, <5>5
        <5> QED
          BY <5>3, <5>6
      <4> HIDE DEF p, q, rest, a, Token
      <4>6. DoesNotStand(c, p, rest)
        BY <1>2, <3>4, <3>10, <4>1, <4>3, <4>4, <4>5, NotInAShorter DEF DoesNotStand
      <4> QED
        BY <3>6, <4>1, <4>6
    <3> QED
      BY <3>7, <3>8, <3>9, <3>10
  <2> QED
    BY <1>1, <2>1, <2>2
<1>5. 1 .. n + 1 \subseteq S
  <2>1. ASSUME NEW i \in 1 .. n + 1, \A j \in i + 1 .. n + 1 : j \in S PROVE i \in S
    BY <1>4, <2>1
  <2> HIDE DEF S, n
  <2> QED
    BY <1>1, <2>1, Downwards
<1>6. 1 \in S
  <2> HIDE DEF S, n
  <2> QED
    BY <1>1, <1>5
<1> QED
  BY <1>6, TheFirstIsReached

-----------------------------------------------------------------------------
(* One ciphertext after another.                                            *)

\* What is asked for is a text that begins with a marker and holds more, and everything
\* that is sealed and holds more is asked for.
LEMMA WhatIsAskedFor ==
    ASSUME NEW text \in Written
    PROVE  LET c == Sealing!Ciphertexts(text) IN
           /\ IsDistinct(c)
           /\ Said(c) = {Sealing!Token(text, i) :
                            i \in {j \in Sought(text, 1) : Len(Sealing!Token(text, j)) > 1}}
           /\ \A t \in Said(c) : /\ t \in Seq(Sealing!Sealable)
                                 /\ Len(t) \in Nat /\ Len(t) >= 2 /\ t[1] = Marker
<1> DEFINE c == Sealing!Ciphertexts(text)
           Token(i) == Sealing!Token(text, i)
           n == Len(text)
<1>1. n \in Nat
  BY DEF Written
<1>2. IsDistinct(c) /\ Said(c) = {t \in Said(Sealing!Tokens(text)) : Len(t) > 1}
  BY CiphertextsAreTheTokens
<1>3. Said(Sealing!Tokens(text)) = {Token(i) : i \in Sought(text, 1)}
  BY TokensAreTheRuns DEF Said
<1>4. Said(c) = {Token(i) : i \in {j \in Sought(text, 1) : Len(Token(j)) > 1}}
  BY <1>2, <1>3
<1>5. ASSUME NEW i \in Sought(text, 1), Len(Token(i)) > 1
      PROVE  /\ Token(i) \in Seq(Sealing!Sealable) /\ Len(Token(i)) \in Nat
             /\ Len(Token(i)) >= 2 /\ Token(i)[1] = Marker
  <2> DEFINE e == Sealing!End(text, i)
             t == Token(i)
  <2>1. i \in 1 .. n /\ text[i] = Marker
    BY DEF Sought
  <2>2. /\ e \in i .. n /\ t \in Seq(Sealing!Sealable)
        /\ \A k \in 1 .. (e + 1) - i : t[k] = text[(i + k) - 1]
    BY <2>1, Runs
  <2> HIDE DEF e
  <2>3. 1 \in 1 .. (e + 1) - i /\ (i + 1) - 1 = i
    BY <1>1, <2>1, <2>2
  <2>4. t[1] = Marker
    BY <2>1, <2>2, <2>3
  <2>5. Len(t) \in Nat
    BY <2>2
  <2> HIDE DEF t
  <2>6. Len(t) >= 2
    BY <1>5, <2>5 DEF t
  <2> QED
    BY <2>2, <2>4, <2>5, <2>6 DEF t
<1> HIDE DEF c, Token
<1> QED
  BY <1>2, <1>4, <1>5 DEF c, Token

LEMMA SubstitutedStepByStep ==
    ASSUME NEW text \in Seq(Symbols), NEW c \in Seq(Seq(Sealing!Sealable)),
           \A i \in 1 .. Len(c) : Len(c[i]) >= 1,
           NEW plain \in [1 .. Len(c) -> Secrets],
           NEW order \in [1 .. Len(c) -> 1 .. Len(c)]
    PROVE  \E f :
               /\ f[0] = text
               /\ \A k \in 1 .. Len(c) :
                      f[k] = Sealing!Replace(f[k - 1], c[order[k]], plain[order[k]])
               /\ Sealing!Substitutions(text, c, plain, order) = f[Len(c)]
<1> DEFINE n == Len(c)
           V == Seq(Symbols)
           Step(v, k) == Sealing!Replace(v, c[order[k]], plain[order[k]])
           next == [k \in 1 .. n |-> [v \in V |-> Step(v, k)]]
           Fold(f) == [k \in 0 .. n |-> IF k = 0 THEN text ELSE Step(f[k - 1], k)]
           readable == CHOOSE f : f = Fold(f)
<1>1. n \in Nat
  OBVIOUS
<1>2. Sealing!Substitutions(text, c, plain, order) = readable[n]
  BY DEF Sealing!Substitutions
<1>3. ASSUME NEW v \in V, NEW k \in 1 .. n PROVE Step(v, k) \in V
  <2> DEFINE what == c[order[k]]
             with == plain[order[k]]
  <2>1. order[k] \in 1 .. n
    OBVIOUS
  <2>2. what \in Seq(Symbols) /\ Len(what) >= 1
    BY <2>1, SealableIsWritten
  <2>3. with \in Seq(Symbols)
    BY <2>1, SecretsAreTexts
  <2> HIDE DEF what, with
  <2>4. PICK f : IsReplaced(f, v, what, with) /\ Sealing!Replace(v, what, with) = f[1]
    BY <2>2, <2>3, Replaces
  <2>5. 1 \in 1 .. Len(v) + 1
    <3>1. Len(v) \in Nat
      OBVIOUS
    <3> QED
      BY <3>1
  <2>6. f[1] \in Seq(Symbols)
    BY <2>4, <2>5 DEF IsReplaced
  <2> QED
    BY <2>4, <2>6 DEF what, with
<1> HIDE DEF Step
<1>4. next \in [1 .. n -> [V -> V]]
  <2> HIDE DEF V
  <2> QED
    BY <1>3
<1>5. PICK f : Iteration(f, V, text, n, next)
  <2>1. text \in V
    OBVIOUS
  <2> HIDE DEF n, V, next
  <2> QED
    BY <1>1, <1>4, <2>1, Iterates
<1>6. f \in [0 .. n -> V] /\ f[0] = text
  BY <1>5 DEF Iteration
<1>7. ASSUME NEW k \in 1 .. n PROVE f[k] = Step(f[k - 1], k)
  <2> DEFINE h == k - 1
  <2>1. f[k] = next[k][f[h]]
    <3> HIDE DEF n, V, next
    <3> QED
      BY <1>5 DEF Iteration
  <2>2. h \in 0 .. n
    BY <1>1
  <2> HIDE DEF n, V, h
  <2>3. f[h] \in V
    BY <1>6, <2>2
  <2>4. next[k][f[h]] = Step(f[h], k)
    BY <2>3
  <2> HIDE DEF next
  <2> QED
    BY <2>1, <2>4 DEF h
<1>8. ASSUME NEW g, NEW k \in 1 .. n PROVE Fold(g)[k] = Step(g[k - 1], k)
  <2>1. k \in 0 .. n /\ k # 0
    BY <1>1
  <2> HIDE DEF n
  <2> QED
    BY <2>1
<1>9. ASSUME NEW g PROVE Fold(g)[0] = text
  <2>1. 0 \in 0 .. n
    BY <1>1
  <2> HIDE DEF n
  <2> QED
    BY <2>1
<1>10. f = Fold(f)
  <2>1. Fold(f) = [k \in 0 .. n |-> Fold(f)[k]]
    OBVIOUS
  <2>2. \A k \in 0 .. n : k = 0 \/ k \in 1 .. n
    BY <1>1
  <2> HIDE DEF Fold, n, V
  <2>3. \A k \in 0 .. n : f[k] = Fold(f)[k]
    BY <1>6, <1>7, <1>8, <1>9, <2>2
  <2> QED
    BY <1>6, <2>1, <2>3
<1>11. readable = Fold(readable)
  BY <1>10
<1> HIDE DEF readable
<1>12. readable[0] = text /\ \A k \in 1 .. n : readable[k] = Step(readable[k - 1], k)
  <2> HIDE DEF Fold, n
  <2> QED
    BY <1>8, <1>9, <1>11
<1> QED
  BY <1>2, <1>12 DEF Step

\* What a ciphertext opens to, by itself.
Opening(c, p) == [t \in Said(c) |-> p[CHOOSE j \in DOMAIN c : c[j] = t]]

LEMMA OpeningIsOfIt ==
    ASSUME NEW c, IsDistinct(c), NEW p \in [1 .. Len(c) -> Secrets]
    PROVE  /\ \A j \in 1 .. Len(c) : c[j] \in Said(c) /\ Opening(c, p)[c[j]] = p[j]
           /\ AreOpened(Said(c), Opening(c, p))
<1> DEFINE n == Len(c)
<1>1. DOMAIN c = 1 .. n
  BY DEF IsDistinct
<1>2. ASSUME NEW j \in 1 .. n PROVE c[j] \in Said(c) /\ Opening(c, p)[c[j]] = p[j]
  <2>1. c[j] \in Said(c)
    BY DEF Said
  <2> DEFINE i == CHOOSE k \in DOMAIN c : c[k] = c[j]
  <2>2. i \in 1 .. n /\ c[i] = c[j]
    BY <1>1
  <2>3. Opening(c, p)[c[j]] = p[i]
    BY <2>1 DEF Opening
  <2> HIDE DEF i
  <2>4. i = j
    BY <2>2 DEF IsDistinct
  <2> QED
    BY <2>1, <2>3, <2>4
<1>3. ASSUME NEW t \in Said(c)
      PROVE  /\ Opening(c, p)[t] \in Seq(Symbols)
             /\ \A k \in 1 .. Len(Opening(c, p)[t]) : Opening(c, p)[t][k] # Marker
  <2>1. PICK j \in 1 .. n : t = c[j]
    BY DEF Said
  <2>2. Opening(c, p)[t] = p[j] /\ p[j] \in Secrets
    BY <1>2, <2>1
  <2> QED
    BY <2>2, SecretsAreTexts
<1> QED
  BY <1>2, <1>3 DEF AreOpened

\* One after another, the longest first, comes to the same as all of them at once.
LEMMA SubstitutedIsReadAtOnce ==
    ASSUME NEW text \in Written,
           NEW p \in [1 .. Len(Sealing!Ciphertexts(text)) -> Secrets]
    PROVE  LET c == Sealing!Ciphertexts(text) IN
           \E g : /\ IsReading(g, text, Said(c), Opening(c, p))
                  /\ Sealing!Substituted(text, c, p) = g[1]
<1> DEFINE c == Sealing!Ciphertexts(text)
           n == Len(c)
           opens == Opening(c, p)
           order == Sealing!LongestFirst(c)
           Token(i) == Sealing!Token(text, i)
           length == [i \in 1 .. n |-> Len(c[i])]
           O(k) == {c[order[j]] : j \in 1 .. k}
<1>1. /\ IsDistinct(c) /\ c \in Seq(Seq(Sealing!Sealable)) /\ n \in Nat
      /\ Said(c) = {Token(i) : i \in {j \in Sought(text, 1) : Len(Token(j)) > 1}}
      /\ \A t \in Said(c) : /\ t \in Seq(Sealing!Sealable)
                            /\ Len(t) \in Nat /\ Len(t) >= 2 /\ t[1] = Marker
  BY WhatIsAskedFor DEF IsDistinct
<1>2. /\ \A j \in 1 .. n : c[j] \in Said(c) /\ opens[c[j]] = p[j]
      /\ AreOpened(Said(c), opens)
  BY <1>1, OpeningIsOfIt
<1>3. IsOrder(order, n, length)
  BY <1>1, TheLongestFirst
<1>4. /\ order \in [1 .. n -> 1 .. n]
      /\ \A k \in 1 .. n : \E i \in 1 .. n : order[i] = k
      /\ \A i, j \in 1 .. n : i < j => Len(c[order[i]]) >= Len(c[order[j]])
  <2>1. /\ order \in [1 .. n -> 1 .. n]
        /\ \A k \in 1 .. n : \E i \in 1 .. n : order[i] = k
        /\ \A i, j \in 1 .. n : i < j => length[order[i]] >= length[order[j]]
    BY <1>3 DEF IsOrder
  <2>2. \A i \in 1 .. n : length[order[i]] = Len(c[order[i]])
    BY <2>1
  <2> HIDE DEF length, order, n, c
  <2> QED
    BY <2>1, <2>2
<1>5. text \in Seq(Symbols)
  BY DEF Written, Symbols
<1>6. PICK f :
          /\ f[0] = text
          /\ \A k \in 1 .. n : f[k] = Sealing!Replace(f[k - 1], c[order[k]], p[order[k]])
          /\ Sealing!Substituted(text, c, p) = f[n]
  <2>1. \A i \in 1 .. n : Len(c[i]) >= 1
    BY <1>1, <1>2
  <2>2. p \in [1 .. n -> Secrets]
    OBVIOUS
  <2>3. Sealing!Substituted(text, c, p) = Sealing!Substitutions(text, c, p, order)
    BY DEF Sealing!Substituted
  <2>4. c \in Seq(Seq(Sealing!Sealable)) /\ order \in [1 .. n -> 1 .. n]
    BY <1>1, <1>4
  <2> HIDE DEF c, order
  <2>5. \E f :
            /\ f[0] = text
            /\ \A k \in 1 .. n : f[k] = Sealing!Replace(f[k - 1], c[order[k]], p[order[k]])
            /\ Sealing!Substitutions(text, c, p, order) = f[n]
    BY <1>5, <2>1, <2>2, <2>4, SubstitutedStepByStep
  <2> QED
    BY <2>3, <2>5
<1> HIDE DEF c, n, opens, order, Token, length
<1> DEFINE ReadAs(k) == \E g : IsReading(g, text, O(k), opens) /\ f[k] = g[1]
           S == {k \in Nat : k <= n => ReadAs(k)}
<1>7. 0 \in S
  <2>1. O(0) = {}
    OBVIOUS
  <2>2. AreOpened({}, opens)
    BY DEF AreOpened
  <2>3. PICK g : IsReading(g, text, {}, opens)
    BY <2>2, Readings
  <2>4. g[1] = text
    BY <2>3, ReadAsWritten
  <2> QED
    BY <1>6, <2>1, <2>3, <2>4
<1>8. ASSUME NEW k \in Nat, k \in S PROVE k + 1 \in S
  <2> DEFINE m == k + 1
  <2> SUFFICES ASSUME m <= n PROVE ReadAs(m)
    <3> HIDE DEF ReadAs
    <3> QED
      OBVIOUS
  <2>1. m \in 1 .. n /\ m - 1 = k /\ k <= n
    BY <1>1
  <2>2. PICK g : IsReading(g, text, O(k), opens) /\ f[k] = g[1]
    <3>1. ReadAs(k)
      <4> HIDE DEF ReadAs, m
      <4> QED
        BY <1>8, <2>1
    <3> QED
      BY <3>1
  <2> DEFINE t == c[order[m]]
  <2>3. order[m] \in 1 .. n
    <3> HIDE DEF m
    <3> QED
      BY <1>4, <2>1
  <2>4. /\ t \in Said(c) /\ opens[t] = p[order[m]] /\ t \in Seq(Sealing!Sealable)
        /\ Len(t) \in Nat /\ Len(t) >= 2 /\ t[1] = Marker
    <3> HIDE DEF m
    <3> QED
      BY <1>1, <1>2, <2>3
  <2>5. O(m) = O(k) \cup {t}
    <3>1. 1 .. m = 1 .. k \cup {m}
      OBVIOUS
    <3> HIDE DEF m
    <3> QED
      BY <3>1
  <2>6. O(m) \subseteq Said(c)
    <3> SUFFICES ASSUME NEW j \in 1 .. m PROVE c[order[j]] \in Said(c)
      OBVIOUS
    <3>1. j \in 1 .. n
      BY <1>1, <2>1
    <3> QED
      BY <1>2, <1>4, <3>1
  <2>7. AreOpened(O(m), opens)
    <3> HIDE DEF m, O
    <3> QED
      BY <1>2, <2>6 DEF AreOpened
  <2>8. ASSUME NEW i \in Sought(text, 1) PROVE Token(i) \in O(k) \/ Len(Token(i)) <= Len(t)
    <3>1. Len(Token(i)) \in Nat
      <4>1. i \in 1 .. Len(text) /\ text[i] = Marker
        BY DEF Sought
      <4>2. Token(i) \in Seq(Sealing!Sealable)
        BY <4>1, Runs DEF Token
      <4> QED
        BY <4>2
    <3>2. CASE ~(Len(Token(i)) > 1)
      <4> HIDE DEF t
      <4> QED
        BY <2>4, <3>1, <3>2
    <3>3. CASE Len(Token(i)) > 1
      <4>1. Token(i) \in Said(c)
        BY <1>1, <3>3
      <4>2. PICK j \in 1 .. n : Token(i) = c[j]
        BY <4>1 DEF Said, n
      <4>3. PICK l \in 1 .. n : order[l] = j
        BY <1>4
      <4>4. CASE l \in 1 .. k
        BY <4>2, <4>3, <4>4
      <4>5. CASE l = m
        <5>1. Token(i) = t
          BY <4>2, <4>3, <4>5
        <5> HIDE DEF t
        <5> QED
          BY <2>4, <5>1
      <4>6. CASE l > m
        <5>1. Len(t) >= Len(c[order[l]])
          <6> HIDE DEF m
          <6> QED
            BY <1>4, <2>1, <4>6
        <5>2. c[order[l]] = Token(i)
          BY <4>2, <4>3
        <5> HIDE DEF t
        <5> QED
          BY <2>4, <3>1, <5>1, <5>2
      <4>7. l \in 1 .. k \/ l = m \/ l > m
        BY <1>1
      <4> QED
        BY <4>4, <4>5, <4>6, <4>7
    <3> QED
      BY <3>2, <3>3
  <2>9. PICK h : IsReading(h, text, O(m), opens)
    <3> HIDE DEF m, O
    <3> QED
      BY <2>7, Readings
  <2>10. Sealing!Replace(g[1], t, opens[t]) = h[1]
    <3>1. IsReading(h, text, O(k) \cup {t}, opens) /\ AreOpened(O(k) \cup {t}, opens)
      BY <2>5, <2>7, <2>9
    <3> HIDE DEF t, m, O
    <3> QED
      BY <2>2, <2>4, <2>8, <3>1, OneMoreOpened DEF Token
  <2>11. f[m] = Sealing!Replace(g[1], t, opens[t])
    <3>1. f[m] = Sealing!Replace(f[k], c[order[m]], p[order[m]])
      <4> HIDE DEF m
      <4> QED
        BY <1>6, <2>1
    <3> HIDE DEF m
    <3> QED
      BY <2>2, <2>4, <3>1
  <2>12. f[m] = h[1]
    BY <2>10, <2>11
  <2> HIDE DEF m, O
  <2> QED
    BY <2>9, <2>12
<1>9. ReadAs(n)
  <2>1. n \in S
    <3> HIDE DEF S
    <3> QED
      BY <1>1, <1>7, <1>8, Upwards
  <2> HIDE DEF ReadAs
  <2>2. n <= n
    BY <1>1
  <2> QED
    BY <2>1, <2>2
<1>10. O(n) = Said(c)
  <2>1. ASSUME NEW j \in 1 .. n PROVE c[order[j]] \in Said(c)
    BY <1>2, <1>4
  <2>2. ASSUME NEW t \in Said(c) PROVE t \in O(n)
    <3>1. PICK k \in 1 .. n : t = c[k]
      BY DEF Said, n
    <3>2. PICK i \in 1 .. n : order[i] = k
      BY <1>4
    <3> QED
      BY <3>1, <3>2
  <2> QED
    BY <2>1, <2>2
<1> HIDE DEF O
<1> QED
  BY <1>6, <1>9, <1>10 DEF c, n, opens

-----------------------------------------------------------------------------
(* What is handed over.                                                     *)

LEMMA TextsAreWritten == Sealing!Texts \subseteq Written
<1>1. \A m \in 0 .. MostSymbols : [1 .. m -> Sealing!Sealable \cup Punctuation] \subseteq Written
  BY SealingBounds DEF Sealing!Bounds, Written
<1> QED
  BY <1>1 DEF Sealing!Texts, Sealing!BoundedSeq, Sealing!SeqOf

LEMMA SealingInit == Sealing!Init => Sealing!IndInv
  BY DEF Sealing!Init, Sealing!IndInv, Sealing!Delivered

LEMMA SealingNext == Sealing!IndInv /\ [Sealing!Next]_(Sealing!vars) => Sealing!IndInv'
<1> SUFFICES ASSUME Sealing!IndInv, [Sealing!Next]_(Sealing!vars) PROVE Sealing!IndInv'
  OBVIOUS
<1> USE DEF Sealing!IndInv, Sealing!Delivered
<1>1. CASE Sealing!PassThrough
  BY <1>1 DEF Sealing!PassThrough, Sealing!Hand, Sealing!Sealed
<1>2. CASE Sealing!Ask
  BY <1>2 DEF Sealing!Ask, Sealing!Sealed
<1>3. CASE Sealing!Decrypted
  BY <1>3 DEF Sealing!Decrypted, Sealing!Sealed
<1>4. CASE Sealing!Undecrypted
  BY <1>4 DEF Sealing!Undecrypted, Sealing!Fail, Sealing!Sealed
<1>5. CASE Sealing!Unreadable
  BY <1>5 DEF Sealing!Unreadable, Sealing!Fail, Sealing!Sealed
<1>6. CASE Sealing!Apply
  BY <1>6 DEF Sealing!Apply, Sealing!Hand, Sealing!Sealed
<1>7. CASE Sealing!Again
  BY <1>7 DEF Sealing!Again, Sealing!Sealed
<1>8. CASE UNCHANGED Sealing!vars
  BY <1>8 DEF Sealing!vars, Sealing!Sealed
<1> QED
  BY <1>1, <1>2, <1>3, <1>4, <1>5, <1>6, <1>7, <1>8 DEF Sealing!Next

LEMMA SealingIsKept == Sealing!Spec => []Sealing!IndInv
  BY SealingInit, SealingNext, PTL DEF Sealing!Spec

\* The reading of a document with everything in it opened.
LEMMA ReadableIsTheReading ==
    ASSUME fetched.text \in Written, batch = Sealing!Ciphertexts(fetched.text),
           opened \in [1 .. Len(batch) -> Secrets],
           NEW f, IsReading(f, fetched.text, Said(batch), Opening(batch, opened))
    PROVE  Sealing!Readable = f[1]
<1> DEFINE text == fetched.text
           n == Len(text)
           Token(i) == Sealing!Token(text, i)
           Opens(t) == opened[CHOOSE j \in DOMAIN batch : batch[j] = t]
           Runs1(i) == text[i] = Marker /\ Len(Token(i)) > 1
           Read(g) == [i \in 1 .. n + 1 |->
               IF i > n THEN << >>
               ELSE IF Runs1(i) THEN Opens(Token(i)) \o g[i + Len(Token(i))]
                    ELSE <<text[i]>> \o g[i + 1]]
           read == CHOOSE g : g = Read(g)
           pieces == [i \in 1 .. n |-> IF Runs1(i) THEN Opens(Token(i)) ELSE <<text[i]>>]
           next == [i \in 1 .. n |-> IF Runs1(i) THEN i + Len(Token(i)) ELSE i + 1]
<1>1. n \in Nat
  BY DEF Written
<1>2. Sealing!Readable = read[1]
  BY DEF Sealing!Readable
<1>3. ASSUME NEW i \in 1 .. n, text[i] = Marker
      PROVE  /\ After(text, i) = i + Len(Token(i)) /\ After(text, i) \in i + 1 .. n + 1
             /\ Len(Token(i)) \in Nat /\ Len(Token(i)) >= 1 /\ Token(i)[1] = Marker
             /\ Token(i) \in Seq(Sealing!Sealable)
  <2> DEFINE e == Sealing!End(text, i)
             t == Token(i)
  <2>1. /\ e \in i .. n /\ t \in Seq(Sealing!Sealable) /\ Len(t) = (e + 1) - i
        /\ \A k \in 1 .. (e + 1) - i : t[k] = text[(i + k) - 1]
    BY <1>3, Runs
  <2>2. After(text, i) = e + 1
    BY <1>3 DEF After
  <2> HIDE DEF e, t
  <2>3. 1 \in 1 .. (e + 1) - i /\ (i + 1) - 1 = i
    BY <1>1, <2>1
  <2>4. t[1] = Marker
    BY <1>3, <2>1, <2>3
  <2>5. e + 1 = i + Len(t) /\ e + 1 \in i + 1 .. n + 1 /\ Len(t) \in Nat /\ Len(t) >= 1
    BY <1>1, <2>1
  <2> QED
    BY <2>1, <2>2, <2>4, <2>5 DEF t
<1> HIDE DEF Token, Opens
<1>4. GoesOn(next, n)
  <2> SUFFICES ASSUME NEW i \in 1 .. n PROVE next[i] \in i + 1 .. n + 1
    BY DEF GoesOn
  <2>1. next[i] = IF Runs1(i) THEN i + Len(Token(i)) ELSE i + 1
    OBVIOUS
  <2> HIDE DEF next, n
  <2> QED
    BY <1>1, <1>3, <2>1
<1>5. PICK g : g = [i \in 1 .. n + 1 |-> g[i]] /\ IsPut(g, n, pieces, next)
  <2> HIDE DEF n, pieces, next
  <2> QED
    BY <1>1, <1>4, Walks
<1>6. ASSUME NEW h, NEW i \in 1 .. n
      PROVE  Read(h)[i] = IF Runs1(i) THEN Opens(Token(i)) \o h[i + Len(Token(i))]
                          ELSE <<text[i]>> \o h[i + 1]
  <2> HIDE DEF Runs1, n
  <2>1. i \in 1 .. n + 1 /\ ~(i > n)
    BY <1>1
  <2> QED
    BY <2>1
<1>7. ASSUME NEW h PROVE Read(h)[n + 1] = << >>
  <2> HIDE DEF Runs1, n
  <2> DEFINE e == n + 1
  <2>1. e \in 1 .. n + 1 /\ e > n
    BY <1>1
  <2> HIDE DEF e
  <2>2. Read(h)[e] = << >>
    BY <2>1
  <2> QED
    BY <2>2 DEF e
<1>8. g = Read(g)
  <2>1. Read(g) = [i \in 1 .. n + 1 |-> Read(g)[i]]
    OBVIOUS
  <2>2. \A i \in 1 .. n + 1 : i = n + 1 \/ i \in 1 .. n
    BY <1>1
  <2>3. \A i \in 1 .. n : g[i] = IF Runs1(i) THEN Opens(Token(i)) \o g[i + Len(Token(i))]
                                 ELSE <<text[i]>> \o g[i + 1]
    <3> HIDE DEF Runs1, n
    <3> QED
      BY <1>5 DEF IsPut
  <2>4. g[n + 1] = << >>
    BY <1>5 DEF IsPut
  <2> HIDE DEF Read, pieces, next, n, Runs1
  <2>5. \A i \in 1 .. n + 1 : Read(g)[i] = g[i]
    BY <1>6, <1>7, <2>2, <2>3, <2>4
  <2> QED
    BY <1>5, <2>1, <2>5
<1>9. read = Read(read)
  BY <1>8
<1> HIDE DEF read
<1>10. read[n + 1] = << >>
  <2> HIDE DEF Read, n
  <2> QED
    BY <1>7, <1>9
<1>11. ASSUME NEW i \in 1 .. n, Reached(text, i)
       PROVE  read[i] = Piece(text, Said(batch), Opening(batch, opened), i) \o read[After(text, i)]
  <2> DEFINE p == Piece(text, Said(batch), Opening(batch, opened), i)
  <2>1. read[i] = IF Runs1(i) THEN Opens(Token(i)) \o read[i + Len(Token(i))]
                  ELSE <<text[i]>> \o read[i + 1]
    <3> HIDE DEF Read, n, Runs1
    <3> QED
      BY <1>6, <1>9
  <2>2. /\ Said(batch) = {Token(j) : j \in {k \in Sought(text, 1) : Len(Token(k)) > 1}}
        /\ \A t \in Said(batch) : Len(t) >= 2
    BY WhatIsAskedFor DEF Token
  <2>3. CASE Runs1(i)
    <3>1. i \in Sought(text, 1)
      BY <1>11, <2>3 DEF Sought
    <3>2. Token(i) \in Said(batch)
      BY <2>2, <2>3, <3>1
    <3>3. p = Opens(Token(i))
      BY <2>3, <3>2 DEF Piece, Opening, Token, Opens
    <3>4. After(text, i) = i + Len(Token(i))
      BY <1>3, <2>3
    <3>5. read[i] = Opens(Token(i)) \o read[i + Len(Token(i))]
      <4> HIDE DEF Runs1
      <4> QED
        BY <2>1, <2>3
    <3> HIDE DEF p
    <3>6. read[i] = p \o read[After(text, i)]
      BY <3>3, <3>4, <3>5
    <3> QED
      BY <3>6 DEF p
  <2>4. CASE text[i] = Marker /\ ~(Len(Token(i)) > 1)
    <3>1. Len(Token(i)) = 1 /\ After(text, i) = i + 1
      <4>1. /\ After(text, i) = i + Len(Token(i)) /\ Len(Token(i)) \in Nat
            /\ Len(Token(i)) >= 1
        BY <1>3, <2>4
      <4> DEFINE l == Len(Token(i))
      <4>2. l \in Nat /\ l >= 1 /\ ~(l > 1)
        BY <2>4, <4>1
      <4> HIDE DEF l
      <4>3. l = 1
        BY <4>2
      <4> QED
        BY <4>1, <4>3 DEF l
    <3>2. Token(i) \notin Said(batch)
      <4> SUFFICES ASSUME Token(i) \in Said(batch) PROVE FALSE
        OBVIOUS
      <4>1. Len(Token(i)) >= 2
        BY <2>2
      <4> QED
        BY <3>1, <4>1
    <3>3. Token(i) = <<text[i]>>
      <4>1. Token(i) \in Seq(Sealing!Sealable) /\ Token(i)[1] = Marker
        BY <1>3, <2>4
      <4> QED
        BY <2>4, <3>1, <4>1
    <3>4. p = <<text[i]>>
      BY <2>4, <3>2, <3>3 DEF Piece, Token
    <3>5. read[i] = <<text[i]>> \o read[i + 1]
      BY <2>1, <2>4
    <3> HIDE DEF p
    <3>6. read[i] = p \o read[After(text, i)]
      BY <3>1, <3>4, <3>5
    <3> QED
      BY <3>6 DEF p
  <2>5. CASE text[i] # Marker
    <3>1. p = <<text[i]>> /\ After(text, i) = i + 1
      BY <2>5 DEF Piece, After
    <3>2. read[i] = <<text[i]>> \o read[i + 1]
      BY <2>1, <2>5
    <3> HIDE DEF p
    <3>3. read[i] = p \o read[After(text, i)]
      BY <3>1, <3>2
    <3> QED
      BY <3>3 DEF p
  <2> QED
    BY <2>3, <2>4, <2>5
<1>12. ReadsWhereReached(read, text, Said(batch), Opening(batch, opened))
  <2> HIDE DEF Read, Runs1, pieces, next
  <2> QED
    BY <1>10, <1>11 DEF ReadsWhereReached
<1>13. read[1] = f[1]
  <2> HIDE DEF Read, Runs1, pieces, next
  <2> QED
    BY <1>12, OneReading
<1> QED
  BY <1>2, <1>13

LEMMA SameNumber == ASSUME NEW S PROVE Sealing!Cardinality(S) = Cardinality(S)
  BY DEF Sealing!Cardinality, Cardinality

\* A document is rewritten as if everything sealed in it were opened at once, by one
\* request that names each ciphertext once.
THEOREM EverythingIsOpened == Sealing!Spec => []EverythingIsOpenedAtOnce
<1>1. Sealing!IndInv => EverythingIsOpenedAtOnce
  <2> SUFFICES ASSUME Sealing!IndInv, Sealing!Delivered
               PROVE  Sealing!SubstitutedAllAtOnce /\ Sealing!OneRequestForEverything
    BY DEF EverythingIsOpenedAtOnce, Sealing!SubstitutedAllAtOnce,
           Sealing!OneRequestForEverything
  <2> DEFINE text == fetched.text
             Token(i) == Sealing!Token(text, i)
  <2>1. /\ text \in Written /\ batch = Sealing!Ciphertexts(text)
        /\ requests = IF batch = << >> THEN 0 ELSE 1
        /\ batch # << >> => opened \in [1 .. Len(batch) -> Secrets]
        /\ transitHanded = [fetched EXCEPT !.text =
               IF batch = << >> THEN @ ELSE Sealing!Substituted(@, batch, opened)]
    BY TextsAreWritten DEF Sealing!IndInv, Sealing!Sealed
  <2>2. Sealing!SubstitutedAllAtOnce
    <3>1. CASE batch = << >>
      BY <2>1, <3>1 DEF Sealing!SubstitutedAllAtOnce
    <3>2. CASE batch # << >>
      <4>1. PICK g : /\ IsReading(g, text, Said(batch), Opening(batch, opened))
                     /\ Sealing!Substituted(text, batch, opened) = g[1]
        BY <2>1, <3>2, SubstitutedIsReadAtOnce
      <4>2. Sealing!Readable = g[1]
        BY <2>1, <3>2, <4>1, ReadableIsTheReading
      <4> QED
        BY <2>1, <3>2, <4>1, <4>2 DEF Sealing!SubstitutedAllAtOnce
    <3> QED
      BY <3>1, <3>2
  <2>3. Sealing!OneRequestForEverything
    <3> DEFINE n == Len(text)
               runs == {i \in DOMAIN text :
                           /\ text[i] = Marker
                           /\ Sealing!End(text, i) > i
                           /\ \A j \in 1 .. i - 1 :
                                 text[j] = Marker => Sealing!End(text, j) < i}
               sealed == {Token(i) : i \in runs}
    <3>1. DOMAIN text = 1 .. n /\ n \in Nat
      BY <2>1 DEF Written
    <3>2. runs = {j \in Sought(text, 1) : Len(Token(j)) > 1}
      <4>1. ASSUME NEW i \in 1 .. n, text[i] = Marker
            PROVE  Sealing!End(text, i) > i <=> Len(Token(i)) > 1
        <5> DEFINE e == Sealing!End(text, i)
                   l == Len(Token(i))
        <5>1. e \in i .. n /\ l = (e + 1) - i
          BY <2>1, <4>1, Runs
        <5> HIDE DEF e, l
        <5>2. e > i <=> l > 1
          BY <3>1, <5>1
        <5> QED
          BY <5>2 DEF e, l
      <4> HIDE DEF Token
      <4> QED
        BY <3>1, <4>1 DEF Sought, Reached
    <3>3. IsDistinct(batch) /\ Said(batch) = sealed
      BY <2>1, <3>2, WhatIsAskedFor
    <3>4. batch \in Seq(Seq(Sealing!Sealable)) /\ Len(batch) \in Nat
          /\ DOMAIN batch = 1 .. Len(batch)
      BY <3>3 DEF IsDistinct
    <3>5. Sealing!Range(batch) = sealed
      BY <3>3, <3>4 DEF Sealing!Range, Said
    <3>6. sealed = {} <=> batch = << >>
      <4>1. batch = << >> => Said(batch) = {}
        BY DEF Said
      <4>2. ASSUME batch # << >> PROVE Said(batch) # {}
        <5>1. 1 \in 1 .. Len(batch)
          BY <3>4, <4>2
        <5> QED
          BY <5>1 DEF Said
      <4> HIDE DEF sealed
      <4> QED
        BY <3>3, <4>1, <4>2
    <3>7. Len(batch) = Sealing!Cardinality(sealed)
      <4> HIDE DEF sealed
      <4>1. batch \in Bijection(1 .. Len(batch), sealed)
        BY <3>3, <3>4 DEF IsDistinct, Said, Bijection, Injection, Surjection, IsInjective
      <4>2. Cardinality(sealed) = Len(batch)
        BY <3>4, <4>1, FS_CountingElements DEF ExistsBijection
      <4> QED
        BY <4>2, SameNumber
    <3> HIDE DEF sealed
    <3>8. /\ requests = IF sealed = {} THEN 0 ELSE 1
          /\ Sealing!Range(batch) = sealed /\ Len(batch) = Sealing!Cardinality(sealed)
      BY <2>1, <3>5, <3>6, <3>7
    <3> QED
      BY <3>8 DEF Sealing!OneRequestForEverything, sealed
  <2> QED
    BY <2>2, <2>3
<1> QED
  BY <1>1, SealingIsKept, PTL
=============================================================================
