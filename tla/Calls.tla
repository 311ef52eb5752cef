-------------------------------- MODULE Calls --------------------------------
(***************************************************************************)
(* The permit loop and what takes its permits: the loop with a ceiling     *)
(* (InFlight), beside it one whose ceiling of zero is none, and the calls  *)
(* of a Vault source.  They share no state.                                *)
(***************************************************************************)
EXTENDS InFlight

CONSTANTS
    FreeCallers,                              \* of the policy without a ceiling
    Threads, NoThread, VaultLimit,            \* of the Vault source
    MaxIssued, MaxLost, MaxCalls              \* bounds

VARIABLES
    free_in_flight, free_thread,
    lock, held, issued, live, caller, calls, lost, obtained, permits

freeVars == <<free_in_flight, free_thread>>
vaultVars == <<lock, held, issued, live, caller, calls, lost, obtained, permits>>

Free == INSTANCE InFlight WITH
    Callers <- FreeCallers, Limit <- 0, ZeroIsUnbounded <- TRUE,
    in_flight <- free_in_flight, thread <- free_thread

Vault == INSTANCE VaultCalls WITH Limit <- VaultLimit

ASSUME Instances == IsFiniteSet(FreeCallers) /\ Vault!Bounds

\* The permits that are out are those of the calls that hold one, on every path; one
\* of a policy without a ceiling counts for nothing, taken or given back.
PermitsBalance == Vault!PermitsBalance /\ Free!CountIsExact /\ Free!UncountedIffUnbounded

\* Every call ends.
CallsEnd == Vault!CallsEnd
=============================================================================
