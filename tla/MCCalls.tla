------------------------------- MODULE MCCalls -------------------------------
(* The permit loops and the calls of a Vault source, one part at a time.    *)
EXTENDS Calls, TLC

VARIABLE which

MCInit == which \in {"permits", "vault"} /\ Init /\ Free!Init /\ Vault!Init

MCNext ==
    \/ /\ which = "permits"
       /\ \/ Next /\ UNCHANGED freeVars
          \/ Free!Next /\ UNCHANGED vars
       /\ UNCHANGED <<which, vaultVars>>
    \/ /\ which = "vault" /\ Vault!Next
       /\ UNCHANGED <<which, vars, freeVars>>

MCSpec == MCInit /\ [][MCNext]_<<which, vars, freeVars, vaultVars>> /\ Vault!Fairness
=============================================================================
