-------------------------- MODULE InFlight_proofs ---------------------------
(***************************************************************************)
(* That the counter is the permits that are out, at every instant, and     *)
(* that the loop implements Permits, for any ceiling and any number of     *)
(* threads.  The count is what connects the two: a thread compares a       *)
(* number, and what it is granted is a place in a set.                     *)
(***************************************************************************)
EXTENDS InFlight, FiniteSetTheorems, TLAPS

\* The permits that are out are finitely many, and a thread adds one or takes
\* one away.
LEMMA HoldingIsFinite == IsFiniteSet(Holding) /\ Cardinality(Holding) \in Nat
  BY CallersAreFinite, FS_Subset, FS_CardinalityType DEF Holding

\* Nobody holds a permit of a policy nobody has used.
LEMMA InitInv == Init => IndInv
<1> SUFFICES ASSUME Init PROVE IndInv
  OBVIOUS
<1>1. Holding = {}
  BY DEF Init, Out, Holding
<1>2. Cardinality(Holding) = 0
  BY <1>1, FS_EmptySet
<1> QED
  BY <1>2, LimitIsNatural DEF Init, Out, IndInv, TypeOK, CountIsExact, UncountedIffUnbounded

\* Every step keeps the types and who may be where.
LEMMA NextTypeOK ==
    IndInv /\ [Next]_vars => TypeOK' /\ UncountedIffUnbounded'
<1> SUFFICES ASSUME IndInv, [Next]_vars PROVE TypeOK' /\ UncountedIffUnbounded'
  OBVIOUS
<1> USE LimitIsNatural DEF IndInv, TypeOK, UncountedIffUnbounded, Out
<1>1. ASSUME NEW c \in Callers, AdmitUncounted(c) PROVE TypeOK' /\ UncountedIffUnbounded'
  BY <1>1 DEF AdmitUncounted
<1>2. ASSUME NEW c \in Callers, Load(c) PROVE TypeOK' /\ UncountedIffUnbounded'
  BY <1>2 DEF Load
<1>3. ASSUME NEW c \in Callers, TurnedAway(c) PROVE TypeOK' /\ UncountedIffUnbounded'
  BY <1>3 DEF TurnedAway
<1>4. ASSUME NEW c \in Callers, Exchange(c) PROVE TypeOK' /\ UncountedIffUnbounded'
  BY <1>4 DEF Exchange
<1>5. ASSUME NEW c \in Callers, ExchangeFails(c) PROVE TypeOK' /\ UncountedIffUnbounded'
  BY <1>5 DEF ExchangeFails
<1>6. ASSUME NEW c \in Callers, Drop(c) PROVE TypeOK' /\ UncountedIffUnbounded'
  <2>1. CASE thread[c].at = "holding"
    <3>1. c \in Holding /\ in_flight # 0
      BY <2>1, HoldingIsFinite, FS_EmptySet DEF CountIsExact, Holding
    <3> QED
      BY <1>6, <2>1, <3>1 DEF Drop
  <2>2. CASE thread[c].at = "uncounted"
    BY <1>6, <2>2 DEF Drop
  <2> QED
    BY <1>6, <2>1, <2>2 DEF Drop
<1>7. CASE UNCHANGED vars
  BY <1>7 DEF vars
<1> QED
  BY <1>1, <1>2, <1>3, <1>4, <1>5, <1>6, <1>7 DEF Next

\* Every step keeps the count: one place is taken as the number grows and given
\* back as it shrinks, in the same instant.
LEMMA NextCount == IndInv /\ [Next]_vars => CountIsExact'
<1> SUFFICES ASSUME IndInv, [Next]_vars PROVE CountIsExact'
  OBVIOUS
<1> USE LimitIsNatural DEF IndInv, TypeOK, CountIsExact, Out
<1>1. ASSUME NEW c \in Callers, AdmitUncounted(c) PROVE CountIsExact'
  <2>1. Holding' = Holding
    BY <1>1 DEF AdmitUncounted, Holding
  <2> QED
    BY <1>1, <2>1 DEF AdmitUncounted
<1>2. ASSUME NEW c \in Callers, Load(c) PROVE CountIsExact'
  <2>1. Holding' = Holding
    BY <1>2 DEF Load, Holding
  <2> QED
    BY <1>2, <2>1 DEF Load
<1>3. ASSUME NEW c \in Callers, TurnedAway(c) PROVE CountIsExact'
  <2>1. Holding' = Holding
    BY <1>3 DEF TurnedAway, Holding
  <2> QED
    BY <1>3, <2>1 DEF TurnedAway
<1>4. ASSUME NEW c \in Callers, Exchange(c) PROVE CountIsExact'
  <2>1. c \notin Holding /\ Holding' = Holding \cup {c}
    BY <1>4 DEF Exchange, Holding
  <2>2. Cardinality(Holding') = Cardinality(Holding) + 1
    BY <2>1, HoldingIsFinite, FS_AddElement
  <2>3. in_flight < Limit /\ in_flight' = in_flight + 1
    BY <1>4 DEF Exchange
  <2> QED
    BY <2>2, <2>3
<1>5. ASSUME NEW c \in Callers, ExchangeFails(c) PROVE CountIsExact'
  <2>1. Holding' = Holding
    BY <1>5 DEF ExchangeFails, Holding
  <2> QED
    BY <1>5, <2>1 DEF ExchangeFails
<1>6. ASSUME NEW c \in Callers, Drop(c) PROVE CountIsExact'
  <2>1. CASE thread[c].at = "holding"
    <3>1. c \in Holding /\ Holding' = Holding \ {c}
      BY <1>6, <2>1 DEF Drop, Holding
    <3>2. Cardinality(Holding') = Cardinality(Holding) - 1
      BY <3>1, HoldingIsFinite, FS_RemoveElement
    <3> QED
      BY <1>6, <2>1, <3>2 DEF Drop
  <2>2. CASE thread[c].at = "uncounted"
    <3>1. Holding' = Holding
      BY <1>6, <2>2 DEF Drop, Holding
    <3> QED
      BY <1>6, <2>2, <3>1 DEF Drop
  <2> QED
    BY <1>6, <2>1, <2>2 DEF Drop
<1>7. CASE UNCHANGED vars
  BY <1>7 DEF vars, Holding
<1> QED
  BY <1>1, <1>2, <1>3, <1>4, <1>5, <1>6, <1>7 DEF Next

\* The invariant holds in every reachable state.
THEOREM Invariance == Spec => []IndInv
<1>1. IndInv /\ [Next]_vars => IndInv'
  BY NextTypeOK, NextCount DEF IndInv
<1> QED
  BY InitInv, <1>1, PTL DEF Spec

\* StoreRuntimePolicy::admit, Server::open_stream: the counter is exactly the
\* permits that are out, and never above the ceiling.
THEOREM CountAlwaysExact == Spec => []CountIsExact
<1>1. IndInv => CountIsExact
  BY DEF IndInv
<1> QED
  BY Invariance, <1>1, PTL

-----------------------------------------------------------------------------
(* The loop implements Permits.                                            *)

verdict == [c \in Callers |-> Verdict(c)]

\* What Permits counts is what the loop counts, when it counts at all.
LEMMA FullMeansFull ==
    ASSUME IndInv, ~Unbounded
    PROVE  Ceiling!Granted = Holding /\ (Ceiling!Full <=> in_flight >= Limit)
<1>1. \A c \in Callers : Verdict(c) = "granted" <=> thread[c].at = "holding"
  BY DEF IndInv, TypeOK, UncountedIffUnbounded, Verdict
<1>2. Ceiling!Granted = Holding
  BY <1>1 DEF Ceiling!Granted, Holding
<1>3. Ceiling!Cardinality(Holding) = Cardinality(Holding)
  BY DEF Ceiling!Cardinality, Cardinality
<1> QED
  BY <1>2, <1>3 DEF Ceiling!Full, Unbounded, IndInv, CountIsExact

\* Every step of the loop is a step of Permits, or none.
LEMMA NextRefines == IndInv /\ [Next]_vars => [Ceiling!Next]_verdict
<1> SUFFICES ASSUME IndInv, [Next]_vars PROVE [Ceiling!Next]_verdict
  OBVIOUS
<1> USE LimitIsNatural DEF IndInv, TypeOK, UncountedIffUnbounded, Out, verdict, Verdict
<1>1. ASSUME NEW c \in Callers, AdmitUncounted(c) PROVE [Ceiling!Next]_verdict
  <2>1. verdict[c] = "none" /\ verdict' = [verdict EXCEPT ![c] = "granted"]
    BY <1>1 DEF AdmitUncounted
  <2>2. ~Ceiling!Full
    BY <1>1 DEF AdmitUncounted, Ceiling!Full, Unbounded
  <2>3. Ceiling!Grant(c)
    BY <2>1, <2>2 DEF Ceiling!Grant
  <2> QED
    BY <2>3 DEF Ceiling!Next
<1>2. ASSUME NEW c \in Callers, Load(c) PROVE [Ceiling!Next]_verdict
  <2>1. CASE in_flight >= Limit
    <3>1. verdict[c] = "none" /\ verdict' = [verdict EXCEPT ![c] = "refused"]
      BY <1>2, <2>1 DEF Load
    <3>2. Ceiling!Refuse(c)
      BY <1>2, <2>1, <3>1, FullMeansFull DEF Load, Ceiling!Refuse
    <3> QED
      BY <3>2 DEF Ceiling!Next
  <2>2. CASE ~(in_flight >= Limit)
    BY <1>2, <2>2 DEF Load
  <2> QED
    BY <2>1, <2>2
<1>3. ASSUME NEW c \in Callers, TurnedAway(c) PROVE [Ceiling!Next]_verdict
  <2>1. verdict[c] = "refused" /\ verdict' = [verdict EXCEPT ![c] = "none"]
    BY <1>3 DEF TurnedAway
  <2> QED
    BY <2>1 DEF Ceiling!Finish, Ceiling!Next
<1>4. ASSUME NEW c \in Callers, Exchange(c) PROVE [Ceiling!Next]_verdict
  <2>1. verdict[c] = "none" /\ verdict' = [verdict EXCEPT ![c] = "granted"]
    <3>1. verdict[c] = "none"
      BY <1>4 DEF Exchange
    <3>2. Verdict(c)' = "granted" /\ \A d \in Callers \ {c} : Verdict(d)' = Verdict(d)
      BY <1>4 DEF Exchange
    <3> QED
      BY <3>1, <3>2
  <2>2. ~Ceiling!Full
    BY <1>4, FullMeansFull DEF Exchange
  <2>3. Ceiling!Grant(c)
    BY <2>1, <2>2 DEF Ceiling!Grant
  <2> QED
    BY <2>3 DEF Ceiling!Next
<1>5. ASSUME NEW c \in Callers, ExchangeFails(c) PROVE [Ceiling!Next]_verdict
  <2>1. CASE in_flight >= Limit
    <3>1. verdict[c] = "none" /\ verdict' = [verdict EXCEPT ![c] = "refused"]
      <4>1. verdict[c] = "none"
        BY <1>5 DEF ExchangeFails
      <4>2. Verdict(c)' = "refused" /\ \A d \in Callers \ {c} : Verdict(d)' = Verdict(d)
        BY <1>5, <2>1 DEF ExchangeFails
      <4> QED
        BY <4>1, <4>2
    <3>2. Ceiling!Refuse(c)
      BY <1>5, <2>1, <3>1, FullMeansFull DEF ExchangeFails, Ceiling!Refuse
    <3> QED
      BY <3>2 DEF Ceiling!Next
  <2>2. CASE ~(in_flight >= Limit)
    BY <1>5, <2>2 DEF ExchangeFails
  <2> QED
    BY <2>1, <2>2
<1>6. ASSUME NEW c \in Callers, Drop(c) PROVE [Ceiling!Next]_verdict
  <2>1. verdict[c] = "granted" /\ verdict' = [verdict EXCEPT ![c] = "none"]
    BY <1>6 DEF Drop
  <2> QED
    BY <2>1 DEF Ceiling!Finish, Ceiling!Next
<1>7. CASE UNCHANGED vars
  BY <1>7 DEF vars
<1> QED
  BY <1>1, <1>2, <1>3, <1>4, <1>5, <1>6, <1>7 DEF Next

\* The loop is indivisible to its callers: it implements Permits.
THEOREM LoopKeepsTheCeiling == Spec => KeepsTheCeiling
<1>1. Init => Ceiling!Init
  BY DEF Init, Out, Ceiling!Init, Verdict
<1>2. IndInv /\ [Next]_vars => [Ceiling!Next]_([c \in Callers |-> Verdict(c)])
  BY NextRefines DEF verdict
<1> QED
  BY Invariance, <1>1, <1>2, PTL DEF Spec, KeepsTheCeiling, Ceiling!Spec
=============================================================================
