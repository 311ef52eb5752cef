---------------------------- MODULE ConsulWatch ----------------------------
(***************************************************************************)
(* Consul::watch: blocking queries over one key or one prefix.             *)
(*                                                                         *)
(* A query carries the index the last one was answered with; the agent     *)
(* answers it at once if its own has moved on, and when the wait is over   *)
(* if it has not.  The answer is the key, or the subtree, at one index,    *)
(* and the document is folded from it: nothing is read back.               *)
(*                                                                         *)
(* `states' is the history of what is under the key or prefix, and what is *)
(* delivered is named by its position there.                               *)
(***************************************************************************)
EXTENDS Naturals, Sequences

CONSTANTS
    Shapes,       \* what is watched: among "key", "prefix"
    Documents,    \* what a key may say, or a subtree fold into
    MaxWrites,    \* bound: states of what is watched
    MaxRestarts,  \* bound: times the agent starts counting again
    MaxFaults     \* bound: queries that fail while there is something to answer

Bounds ==
    /\ Shapes \subseteq {"key", "prefix"}
    /\ Documents \cap {"absent", "empty", "clash"} = {}
    /\ MaxWrites \in Nat \ {0} /\ MaxRestarts \in Nat /\ MaxFaults \in Nat

VARIABLES
    shape,          \* the source's Keys, chosen once
    states,         \* what was there, in order
    agent_index,    \* X-Consul-Index, were the agent to answer now
    restarts,
    at,             \* where the loop is
    answer,         \* the answer in hand: its index, the state it shows, and the agent's life
    index,          \* the index of the next query
    last, priming,  \* the document to compare with, and whether the first is still due
    baseline,       \* history: the state that primed the comparison, or 0
    delivered,      \* history: what the callback was handed, as `answer's
    answered,       \* whether the agent, last asked, answered with a document
    failing,        \* what the sink was last told: RemoteStatus::reachable, negated
    faults

storeVars == <<shape, states, agent_index, restarts>>
vars == <<storeVars, at, answer, index, last, priming, baseline, delivered, answered,
          failing, faults>>

\* "absent": there is nothing, and the agent says 404.  "empty": it answers, with
\* nothing to load.  "clash": keys that do not fold, or a value that is not text.
Unusable == {"absent", "empty", "clash"}
None == "none"
NoAnswer == [index |-> 0, state |-> 0, life |-> 0]

Latest == Len(states)
Held == IF delivered = << >> THEN baseline ELSE delivered[Len(delivered)].state

Init ==
    /\ shape \in Shapes
    /\ \E s \in Documents \cup Unusable : states = <<s>>
    /\ agent_index = 1 /\ restarts = 0
    /\ at = "querying" /\ answer = NoAnswer
    /\ index = 0
    /\ last = None /\ priming = TRUE
    /\ baseline = 0 /\ delivered = << >>
    /\ answered = TRUE /\ failing = FALSE
    /\ faults = 0

-----------------------------------------------------------------------------
(* The agent.                                                              *)

\* The index is bumped by every write, also one that changes nothing.
Write ==
    /\ Latest < MaxWrites
    /\ \E s \in Documents \cup Unusable : states' = Append(states, s)
    /\ agent_index' = agent_index + 1
    /\ UNCHANGED <<shape, restarts, at, answer, index, last, priming, baseline,
                   delivered, answered, failing, faults>>

\* It counts again after a restart.
Restart ==
    /\ restarts < MaxRestarts
    /\ restarts' = restarts + 1
    /\ agent_index' = 1
    /\ UNCHANGED <<shape, states, at, answer, index, last, priming, baseline,
                   delivered, answered, failing, faults>>

-----------------------------------------------------------------------------
(* The query: Consul::blocking_read.                                       *)

Answer ==
    /\ at = "querying" /\ states[Latest] # "absent"
    /\ at' = "answered"
    /\ answer' = [index |-> agent_index, state |-> Latest, life |-> restarts]
    /\ UNCHANGED <<storeVars, index, last, priming, baseline, delivered, answered,
                   failing, faults>>

\* A query fails MaxFaults times, and whenever there is nothing under the key.
QueryMayFail ==
    \/ states[Latest] = "absent" /\ UNCHANGED faults
    \/ faults < MaxFaults /\ faults' = faults + 1

\* Reported, and asked again with the same index after a pause.
QueryFails ==
    /\ at = "querying" /\ QueryMayFail
    /\ answered' = FALSE /\ failing' = TRUE
    /\ UNCHANGED <<storeVars, at, answer, index, last, priming, baseline, delivered>>

\* Watching::stop, noticed between two queries.
Stop ==
    /\ at = "querying"
    /\ at' = "stopped"
    /\ UNCHANGED <<storeVars, answer, index, last, priming, baseline, delivered,
                   answered, failing, faults>>

-----------------------------------------------------------------------------
(* The answer.                                                             *)

Found == states[answer.state]

\* An index that went back is not asked with.
Answered ==
    /\ at = "answered"
    /\ index' = IF answer.index < index THEN 0 ELSE answer.index
    /\ answer' = NoAnswer
    /\ UNCHANGED <<storeVars, faults>>

\* A subtree that does not fold ends the watch.
FoldFails ==
    /\ Answered /\ shape = "prefix" /\ Found = "clash"
    /\ at' = "ended"
    /\ answered' = FALSE /\ failing' = TRUE
    /\ UNCHANGED <<last, priming, baseline, delivered>>

NothingToLoad == Found = "empty" \/ (Found = "clash" /\ shape = "key")

\* Mutant: an answer with nothing in it passes for an answer.
FoundNothingQuietly ==
    /\ Answered /\ NothingToLoad
    /\ at' = "querying"
    /\ answered' = FALSE
    /\ UNCHANGED <<last, priming, baseline, delivered, failing>>

\* No configuration is no document; it is waited through, and reported.
FoundNothing ==
    /\ Answered /\ NothingToLoad
    /\ at' = "querying"
    /\ answered' = FALSE /\ failing' = TRUE
    /\ UNCHANGED <<last, priming, baseline, delivered>>

\* The first document is the one the caller already has.
Primed ==
    /\ Answered /\ Found \in Documents
    /\ priming
    /\ at' = "querying"
    /\ last' = Found /\ priming' = FALSE
    /\ baseline' = answer.state
    /\ answered' = TRUE
    /\ UNCHANGED <<delivered, failing>>

\* The same document is not delivered again, and nobody is told of the answer.
Unchanged ==
    /\ Answered /\ ~priming /\ Found = last
    /\ at' = "querying"
    /\ answered' = TRUE
    /\ UNCHANGED <<last, priming, baseline, delivered, failing>>

\* A callback that accepts the document applies it to the sink, which clears the
\* failures; one that does not ends the watch.
HandedOver ==
    /\ Answered /\ ~priming /\ Found \in Documents /\ Found # last
    /\ last' = Found
    /\ delivered' = Append(delivered, [answer EXCEPT !.index = index'])
    /\ answered' = TRUE
    /\ \/ at' = "querying" /\ failing' = FALSE
       \/ at' = "ended" /\ UNCHANGED failing
    /\ UNCHANGED <<priming, baseline>>

-----------------------------------------------------------------------------

Query == Answer \/ QueryFails
Process == FoldFails \/ FoundNothing \/ Primed \/ Unchanged \/ HandedOver

Next == Write \/ Restart \/ Query \/ Stop \/ Process

Spec == Init /\ [][Next]_vars

\* The loop's thread runs and its pauses end; the agent answers when the wait is
\* over at the latest, and fails MaxFaults times at most while it has an answer.
Fairness == WF_vars(Query) /\ WF_vars(Process)

FairSpec == Spec /\ Fairness

-----------------------------------------------------------------------------
(* Properties.                                                             *)

Answers == [index : 0 .. MaxWrites, state : 0 .. MaxWrites, life : 0 .. MaxRestarts]

\* Every variable holds a value of its type.
TypeOK ==
    /\ shape \in Shapes
    /\ states \in Seq(Documents \cup Unusable) /\ Latest \in 1 .. MaxWrites
    /\ agent_index \in 1 .. MaxWrites /\ restarts \in 0 .. MaxRestarts
    /\ at \in {"querying", "answered", "ended", "stopped"}
    /\ answer \in Answers /\ (answer = NoAnswer <=> at # "answered")
    /\ index \in 0 .. MaxWrites
    /\ last \in Documents \cup {None} /\ priming \in BOOLEAN
    /\ baseline \in 0 .. MaxWrites /\ (baseline = 0 <=> priming)
    /\ delivered \in Seq(Answers)
    /\ answered \in BOOLEAN /\ failing \in BOOLEAN /\ faults \in 0 .. MaxFaults

\* The loop compares with what the program was handed last, or with what was
\* there to begin with: neither a failure nor an index that went back makes it
\* take for known what it never delivered.
LastIsHeld == ~priming => last = states[Held]

\* A delivery is of a later state than the one before it, through every restart
\* of the agent, and its revision is a greater one as long as the agent has not
\* restarted.  (`It counts up, so a late delivery is recognisable as old'.)
DeliveredForward ==
    \A i \in 1 .. Len(delivered) :
        /\ delivered[i].state > (IF i = 1 THEN baseline ELSE delivered[i - 1].state)
        /\ i > 1 /\ delivered[i].life = delivered[i - 1].life
               => delivered[i].index > delivered[i - 1].index

\* What did not come back as a document is a failure the sink has been told of: a
\* query, an answer with nothing in it, a subtree that does not fold.
FailuresAreReported == ~answered => failing

\* What makes these inductive: an answer shows a state no older than the one held, and
\* the index counts the states of one life of the agent.
HeldIsPast ==
    /\ priming => delivered = << >>
    /\ ~priming => Held \in 1 .. Latest
    /\ at = "answered" => answer.state \in 1 .. Latest /\ Held <= answer.state

IndexCounts ==
    /\ agent_index <= Latest
    /\ at = "answered" =>
           /\ answer.index >= 1 /\ answer.life <= restarts
           /\ answer.life = restarts => answer.index + (Latest - answer.state) <= agent_index

DeliveryIsCounted ==
    delivered # << >> =>
        LET d == delivered[Len(delivered)] IN
        /\ d.life <= restarts
        /\ d.life = restarts =>
               d.index + (Latest - d.state) <= agent_index /\ index <= agent_index
        /\ at = "answered" =>
               /\ d.life <= answer.life
               /\ d.life = answer.life =>
                      /\ index <= answer.index
                      /\ d.index + (answer.state - d.state) <= answer.index

IndInv ==
    /\ TypeOK /\ HeldIsPast /\ IndexCounts /\ DeliveryIsCounted
    /\ LastIsHeld /\ DeliveredForward /\ FailuresAreReported

\* A document other than the one compared with is delivered, or a later one is, or
\* the one the program holds comes back, or there is none, or the watch ends.
ChangeIsDelivered ==
    \A n \in 1 .. MaxWrites :
        (~priming /\ Latest = n /\ states[n] \in Documents \ {last})
            ~> \/ Held >= n
               \/ ~priming /\ states[Held] = states[Latest]
               \/ states[Latest] \in Unusable
               \/ at \in {"ended", "stopped"}

\* Once the loop has been told that there is nothing, what is created is a change:
\* the caller does not have it.  (`A key that does not exist yet' is what a watch is
\* `supposed to survive'; the first answer is `the value the caller already has'.)
CreatedKeyIsDelivered ==
    states[1] = "absent" /\ failing /\ last # None => delivered # << >>
=============================================================================
