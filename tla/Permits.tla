------------------------------ MODULE Permits ------------------------------
(***************************************************************************)
(* What a ceiling promises its callers, as if asking were one instant: a   *)
(* permit while there is room, a refusal only when there is none, and room *)
(* again for every permit that comes back.                                 *)
(***************************************************************************)
EXTENDS Naturals, FiniteSets

CONSTANTS Callers, Limit, Unbounded

VARIABLE verdict      \* what each caller has been told

Granted == {c \in Callers : verdict[c] = "granted"}
Full == ~Unbounded /\ Cardinality(Granted) >= Limit

Init == verdict = [c \in Callers |-> "none"]

Grant(c) ==
    /\ verdict[c] = "none" /\ ~Full
    /\ verdict' = [verdict EXCEPT ![c] = "granted"]

Refuse(c) ==
    /\ verdict[c] = "none" /\ Full
    /\ verdict' = [verdict EXCEPT ![c] = "refused"]

\* The permit is returned, or the refusal taken.
Finish(c) ==
    /\ verdict[c] # "none"
    /\ verdict' = [verdict EXCEPT ![c] = "none"]

Next == \E c \in Callers : Grant(c) \/ Refuse(c) \/ Finish(c)

Spec == Init /\ [][Next]_verdict
=============================================================================
