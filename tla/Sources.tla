------------------------------- MODULE Sources -------------------------------
(***************************************************************************)
(* What the sources have in common: the credential that the threads of one *)
(* share, which this module extends, and beside it a fetch of several      *)
(* keys, the options a client is made with, the transit engine in front of *)
(* a store, and the leases of dynamic secrets.  They share no state in the *)
(* model; each has its constants and variables here, and its properties    *)
(* under their own names.                                                  *)
(***************************************************************************)
EXTENDS CredentialCache, Integers, Sequences

CONSTANTS
    \* Of a fetch.
    InKeyOrder, Lists, Supplies, MostKeys, MostRounds, FetchWrites,
    \* Of the options.
    Configs, Deadlines, Default, Formats, MaxRotations,
    \* Of the transit engine.
    Marker, Alphabet, Punctuation, MostSymbols, Revisions, Secrets,
    \* Of the leases.
    Durations, Lifetimes, Skews, MaxTime, MaxMinted, MaxRenewals

VARIABLES
    history, fetchStore, list, fetchAt, found, cursor, rounds, left, fetchHeld, commit,
    fetchAnswer,
    store, secure, named, at, tls, agent, timeout, chosen, complaint, file, kept, sent,
    fetched, transitAt, watched, batch, requests, opened, transitHanded,
    now, skew, several, minted, leaseAt, token, answer, leaseHeld, handed, leaseLost,
    renewals

fetchVars == <<history, fetchStore, list, fetchAt, found, cursor, rounds, left, fetchHeld,
    commit, fetchAnswer>>
optionsVars == <<store, secure, named, at, tls, agent, timeout, chosen, complaint, file,
    kept, sent>>
transitVars == <<fetched, transitAt, watched, batch, requests, opened, transitHanded>>
leaseVars == <<now, skew, several, minted, leaseAt, token, answer, leaseHeld, handed,
    leaseLost, renewals>>

-----------------------------------------------------------------------------

Fetching == INSTANCE SourceFetch WITH
    MaxWrites <- FetchWrites,
    store <- fetchStore, at <- fetchAt, held <- fetchHeld, answer <- fetchAnswer

Options == INSTANCE SourceOptions

Sealing == INSTANCE Transit WITH at <- transitAt, handed <- transitHanded

Leasing == INSTANCE Leases WITH
    MaxIssued <- MaxMinted, at <- leaseAt, held <- leaseHeld, lost <- leaseLost

ASSUME SourcesBounds ==
    Fetching!Bounds /\ Options!Bounds /\ Sealing!Bounds /\ Leasing!Bounds

-----------------------------------------------------------------------------
(* The properties of the parts, stated in their modules.                    *)

\* A document leaves no key out, however many requests it takes.
NothingIsLeftOut == Fetching!NothingIsLeftOut
\* A read that is said to be atomic returns one state of the store.
AtomicReadsAreOneState == Fetching!AtomicReadsAreOneState
\* Which of two keys supplies a value is the caller's order, or nobody's.
PrecedenceIsTheCallers == Fetching!PrecedenceIsTheCallers

\* A fetch is made with the TLS, the timeout and the format that were set last.
OptionsAreTheLastOnesSet ==
    /\ Options!SettingsAreAppliedOrRefused
    /\ Options!DeadlineIsTheLastOneSet
    /\ Options!FormatIsNobodysGuess
\* So is one of the config server's client.
ServerSettingsAreApplied == Options!ServerSettingsAreApplied

\* A document is rewritten as if everything sealed in it were opened at once, in one
\* request.
EverythingIsOpenedAtOnce ==
    Sealing!SubstitutedAllAtOnce /\ Sealing!OneRequestForEverything

\* A lease is over no later than its credential, and not at once.
LeaseIsAsLongAsItLives ==
    Leasing!HeldNoLongerThanItLives /\ Leasing!NothingIsReissuedAtOnce
\* What Vault leased can be renewed and revoked by whoever read it.
NoLeaseIsDropped == Leasing!NoLeaseIsDropped
=============================================================================
