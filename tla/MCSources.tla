------------------------------ MODULE MCSources ------------------------------
(* The parts of the sources, one at a time: `which' says whose behaviour it *)
(* is; the others do nothing.                                               *)
EXTENDS Sources, TLC

VARIABLE which

ThreadSymmetry == Permutations(Threads)

-----------------------------------------------------------------------------
(* Values that a configuration file cannot spell.                           *)

MCInKeyOrder == <<"a", "b", "c">>
MCLists == {<<"a">>, <<"b", "a">>}
MCSupplies == {{"p"}, {"q"}}

Tls(ca, client, name, skip) == [ca |-> ca, client |-> client, name |-> name, skip |-> skip]

MCConfigs ==
    {Tls("none", "none", FALSE, FALSE), Tls("file", "none", FALSE, FALSE),
     Tls("pem", "none", FALSE, FALSE), Tls("file", "file", FALSE, FALSE),
     Tls("none", "pem", FALSE, FALSE), Tls("file", "none", TRUE, FALSE),
     Tls("none", "none", FALSE, TRUE)}

MCSecrets == {<<"A">>, <<".", "p">>}
MCSkews == {-1, 0, 1}

-----------------------------------------------------------------------------

NoFetch ==
    /\ history = <<[k \in Fetching!Keys |-> Fetching!Nothing]>>
    /\ fetchStore = "etcd" /\ list = << >> /\ fetchAt = "done"
    /\ found = {} /\ cursor = {} /\ rounds = 0 /\ left = << >> /\ fetchHeld = << >>
    /\ commit = [k \in Fetching!Keys |-> Fetching!Nothing]
    /\ fetchAnswer = Fetching!Pending

NoOptions ==
    /\ store = "etcd" /\ secure = TRUE /\ named = {} /\ at = "refused"
    /\ tls = Options!NoTls /\ agent = FALSE /\ timeout = Default /\ chosen = "none"
    /\ complaint = FALSE /\ file = 0
    /\ kept = Options!Nothing /\ sent = Options!Unsent

NoSealing ==
    /\ fetched = [text |-> << >>, revision |-> "r1", lease |-> "r1"]
    /\ transitAt = "ended" /\ watched = FALSE /\ batch = << >> /\ requests = 0
    /\ opened = << >> /\ transitHanded = Sealing!Nothing

NoLeasing ==
    /\ now = 0 /\ skew = 0 /\ several = TRUE /\ minted = << >> /\ leaseAt = "refused"
    /\ token = "good" /\ answer = Leasing!NoAnswer /\ leaseHeld = Leasing!NothingHeld
    /\ handed = {} /\ leaseLost = {} /\ renewals = 0

MCInit ==
    /\ Init
    /\ \/ which = "credential" /\ NoFetch /\ NoOptions /\ NoSealing /\ NoLeasing
       \/ which = "fetch" /\ Fetching!Init /\ NoOptions /\ NoSealing /\ NoLeasing
       \/ which = "options" /\ NoFetch /\ Options!Init /\ NoSealing /\ NoLeasing
       \/ which = "transit" /\ NoFetch /\ NoOptions /\ Sealing!Init /\ NoLeasing
       \/ which = "leases" /\ NoFetch /\ NoOptions /\ NoSealing /\ Leasing!Init

MCNext ==
    \/ /\ which = "credential" /\ Next
       /\ UNCHANGED <<which, fetchVars, optionsVars, transitVars, leaseVars>>
    \/ /\ which = "fetch" /\ Fetching!Next
       /\ UNCHANGED <<which, cacheVars, optionsVars, transitVars, leaseVars>>
    \/ /\ which = "options" /\ Options!Next
       /\ UNCHANGED <<which, cacheVars, fetchVars, transitVars, leaseVars>>
    \/ /\ which = "transit" /\ Sealing!Next
       /\ UNCHANGED <<which, cacheVars, fetchVars, optionsVars, leaseVars>>
    \/ /\ which = "leases" /\ Leasing!Next
       /\ UNCHANGED <<which, cacheVars, fetchVars, optionsVars, transitVars>>

MCSpec ==
    MCInit /\ [][MCNext]_<<which, cacheVars, fetchVars, optionsVars, transitVars, leaseVars>>

=============================================================================
