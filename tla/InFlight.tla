------------------------------ MODULE InFlight ------------------------------
(***************************************************************************)
(* The compare-and-swap loop behind both ceilings: the requests one source *)
(* has out (StoreRuntimePolicy::admit, concurrency.rs) and the streams one *)
(* server has open (Server::open_stream, server.rs).  One atomic access is *)
(* one action.                                                             *)
(*                                                                         *)
(* The two differ in what a ceiling of zero means: no ceiling for a source *)
(* and no streams for a server.                                            *)
(***************************************************************************)
EXTENDS Naturals, FiniteSets

CONSTANTS
    Callers,            \* the threads asking for a permit
    Limit,              \* limit, max_streams
    ZeroIsUnbounded     \* TRUE for a source, FALSE for a server

ASSUME CallersAreFinite == IsFiniteSet(Callers)

ASSUME LimitIsNatural == Limit \in Nat /\ ZeroIsUnbounded \in BOOLEAN

VARIABLES
    in_flight,          \* the counter
    thread              \* where each thread is, and the count it last saw

vars == <<in_flight, thread>>

Unbounded == Limit = 0 /\ ZeroIsUnbounded
Out == [at |-> "out", saw |-> 0]

Init ==
    /\ in_flight = 0
    /\ thread = [c \in Callers |-> Out]

\* No ceiling: a permit that counts for nothing.
AdmitUncounted(c) ==
    /\ thread[c].at = "out" /\ Unbounded
    /\ thread' = [thread EXCEPT ![c] = [at |-> "uncounted", saw |-> 0]]
    /\ UNCHANGED in_flight

\* The first load of the counter.
Load(c) ==
    /\ thread[c].at = "out" /\ ~Unbounded
    /\ thread' = [thread EXCEPT ![c] = [at |-> "looping", saw |-> in_flight]]
    /\ UNCHANGED in_flight

\* The ceiling, as far as this thread has seen.
TurnedAway(c) ==
    /\ thread[c].at = "looping" /\ thread[c].saw >= Limit
    /\ thread' = [thread EXCEPT ![c] = Out]
    /\ UNCHANGED in_flight

\* Mutant: the count is stored without comparing.
ExchangeBlindly(c) ==
    /\ thread[c].at = "looping" /\ thread[c].saw < Limit
    /\ in_flight' = thread[c].saw + 1
    /\ thread' = [thread EXCEPT ![c] = [at |-> "holding", saw |-> 0]]

\* compare_exchange_weak finds the count it expected...
Exchange(c) ==
    /\ thread[c].at = "looping" /\ thread[c].saw < Limit
    /\ in_flight = thread[c].saw
    /\ in_flight' = thread[c].saw + 1
    /\ thread' = [thread EXCEPT ![c] = [at |-> "holding", saw |-> 0]]

\* Mutant: an exchange that fails is taken for a ceiling that was reached.
ExchangeFailsForGood(c) ==
    /\ thread[c].at = "looping" /\ thread[c].saw < Limit
    /\ thread' = [thread EXCEPT ![c] = [at |-> "looping", saw |-> Limit]]
    /\ UNCHANGED in_flight

\* ...or another, or fails for no reason, as the weak form may.
ExchangeFails(c) ==
    /\ thread[c].at = "looping" /\ thread[c].saw < Limit
    /\ thread' = [thread EXCEPT ![c] = [at |-> "looping", saw |-> in_flight]]
    /\ UNCHANGED in_flight

\* The permit drops, at the end of the request, on an early return or a panic.
Drop(c) ==
    /\ \/ thread[c].at = "holding" /\ in_flight' = in_flight - 1
       \/ thread[c].at = "uncounted" /\ in_flight' = in_flight
    /\ thread' = [thread EXCEPT ![c] = Out]

Next ==
    \E c \in Callers :
        \/ AdmitUncounted(c) \/ Load(c) \/ TurnedAway(c)
        \/ Exchange(c) \/ ExchangeFails(c)
        \/ Drop(c)

Spec == Init /\ [][Next]_vars

-----------------------------------------------------------------------------
(* Properties.                                                             *)

Holding == {c \in Callers : thread[c].at = "holding"}

\* Every variable holds a value of its type.
TypeOK ==
    /\ in_flight \in Nat
    /\ thread \in [Callers -> [at : {"out", "looping", "holding", "uncounted"}, saw : Nat]]

\* The counter is the number of permits that are out at every instant, and never
\* more than the ceiling: no reader ever sees a number that never happened.
\* (The comment in StoreRuntimePolicy::admit, against fetch_add-then-check.)
CountIsExact ==
    /\ in_flight = Cardinality(Holding)
    /\ in_flight <= Limit

\* Only an unbounded policy hands out permits that count for nothing.
UncountedIffUnbounded ==
    \A c \in Callers :
        /\ thread[c].at = "uncounted" => Unbounded
        /\ thread[c].at \in {"looping", "holding"} => ~Unbounded

IndInv == TypeOK /\ CountIsExact /\ UncountedIffUnbounded

\* A thread that has seen the ceiling is refused, whatever it does next.
Verdict(c) ==
    CASE thread[c].at \in {"holding", "uncounted"} -> "granted"
      [] thread[c].at = "looping" /\ thread[c].saw >= Limit -> "refused"
      [] OTHER -> "none"

Ceiling == INSTANCE Permits WITH
    Unbounded <- Limit = 0 /\ ZeroIsUnbounded,
    verdict <- [c \in Callers |-> Verdict(c)]

\* The loop is indivisible to whoever uses it: it grants only while there is
\* room and refuses only what finds the ceiling reached, however many threads
\* race and however often the exchange fails.
KeepsTheCeiling == Ceiling!Spec
=============================================================================
