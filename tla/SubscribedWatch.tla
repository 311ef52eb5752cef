-------------------------- MODULE SubscribedWatch --------------------------
(***************************************************************************)
(* The watches that are told: Redis::watch, over one key or a named list,  *)
(* and Nats::watch, over one key.                                          *)
(*                                                                         *)
(* NATS sends the entry that was put, and that is what is delivered.       *)
(* Redis only says that something happened to a key; the loop then reads   *)
(* all its keys in one MGET, which may find something newer.               *)
(*                                                                         *)
(* `states' is the history of the watched keys, one state for each command *)
(* of the store, and `queue' what it has said and the loop has not heard.  *)
(***************************************************************************)
EXTENDS Naturals, Sequences, FiniteSets, Functions

CONSTANTS
    Kinds,        \* among "redis_key", "redis_list", "nats"
    Keys,         \* the list; one of them is the key of the other kinds
    Values,       \* what a key may say
    MaxWrites,    \* bound: states of the keys
    MaxFaults     \* bound: reads that fail while every key has a value

Bounds ==
    /\ Kinds \subseteq {"redis_key", "redis_list", "nats"}
    /\ Keys # {} /\ IsFiniteSet(Keys) /\ "absent" \notin Values
    /\ MaxWrites \in Nat \ {0} /\ MaxFaults \in Nat

VARIABLES
    kind,         \* the store and the shape of the source, chosen once
    states,       \* what the keys said, in order
    subscribed,   \* the keys whose channel is subscribed to
    queue,        \* what the subscription has to offer
    at,           \* where the loop is
    document,     \* what was read and is not handed over, if at = "holding"
    last,         \* of a list: the last document delivered
    delivered,    \* history: the documents handed to the callback
    complete_at,  \* history: the state in which the last key was subscribed to
    answered,     \* whether the store, last asked, answered with a document
    failing,      \* what the sink was last told: RemoteStatus::reachable, negated
    faults

vars == <<kind, states, subscribed, queue, at, document, last, delivered, complete_at,
          answered, failing, faults>>

Watched == IF kind = "redis_list" THEN Keys ELSE {CHOOSE key \in Keys : TRUE}

\* "absent" is also a value that cannot be read as a document.
States == [Watched -> Values \cup {"absent"}]
Complete(state) == \A key \in Watched : state[key] # "absent"
Latest == Len(states)
Current == states[Latest]
None == << >>

Init ==
    /\ kind \in Kinds
    /\ \E s \in States : states = <<s>>
    /\ subscribed = {}
    /\ queue = << >>
    /\ at = "subscribing" /\ document = None
    /\ last = None /\ delivered = << >>
    /\ complete_at = 0
    /\ answered = TRUE /\ failing = FALSE
    /\ faults = 0

-----------------------------------------------------------------------------
(* The store.                                                              *)

\* One command changes some of the keys, and says so of each that is subscribed
\* to: quietly if the loop is to make nothing of it.
Command(keys, values, quiet) ==
    /\ Latest < MaxWrites
    /\ states' = Append(states, [key \in Watched |->
                                    IF key \in keys THEN values[key] ELSE Current[key]])
    /\ \E told \in 0 .. Cardinality(Keys) :
           /\ Bijection(1 .. told, keys \cap subscribed) # {}
           /\ queue' = queue \o [i \in 1 .. told |-> [quiet |-> quiet, state |-> Latest + 1]]
    /\ UNCHANGED <<kind, subscribed, at, document, last, delivered, complete_at,
                   answered, failing, faults>>

Put ==
    \E keys \in (SUBSET Watched) \ {{}} :
        \E values \in [keys -> Values] : Command(keys, values, FALSE)

\* A deletion or an expiry is quiet.  Redis may also evict or rename a key, which
\* is another event.
Remove ==
    \E key \in Watched :
        /\ Current[key] # "absent"
        /\ \E quiet \in (IF kind = "nats" THEN {TRUE} ELSE BOOLEAN) :
               Command({key}, [k \in {key} |-> "absent"], quiet)

-----------------------------------------------------------------------------
(* The subscription.                                                       *)

\* One channel after the other.
Subscribe ==
    /\ at = "subscribing"
    /\ \E key \in Watched \ subscribed : subscribed' = subscribed \cup {key}
    /\ IF subscribed' = Watched THEN at' = "waiting" /\ complete_at' = Latest
                                ELSE UNCHANGED <<at, complete_at>>
    /\ UNCHANGED <<kind, states, queue, document, last, delivered, answered, failing,
                   faults>>

\* It cannot be established, or it fails, ends, or NATS sends what is not text: the
\* watch ends, and says so.  Redis says so of every refusal it was a round trip to
\* hear of; those that ask nothing of the server, a format or a prefix, are not here.
SubscriptionFails ==
    /\ at \in {"subscribing", "waiting"}
    /\ at' = "ended"
    /\ answered' = FALSE /\ failing' = TRUE
    /\ UNCHANGED <<kind, states, subscribed, queue, document, last, delivered,
                   complete_at, faults>>

\* Watching::stop, or the future is dropped.
Stop ==
    /\ at = "waiting"
    /\ at' = "stopped"
    /\ UNCHANGED <<kind, states, subscribed, queue, document, last, delivered,
                   complete_at, answered, failing, faults>>

-----------------------------------------------------------------------------
(* A notification.                                                         *)

Hear ==
    /\ at = "waiting" /\ queue # << >>
    /\ queue' = Tail(queue)
    /\ UNCHANGED <<kind, states, subscribed, last, delivered, complete_at>>

\* No configuration is not a configuration.
Skip ==
    /\ Hear /\ Head(queue).quiet
    /\ UNCHANGED <<at, document, answered, failing, faults>>

\* Mutant: one GET for each key, with writes free to land between them.
ReadKeyByKey ==
    LET recent == {states[n] : n \in {m \in 1 .. Latest : m >= Latest - 1}}
    IN  {s \in States : \A key \in Watched : \E r \in recent : s[key] = r[key]}

\* Redis::read: what the one MGET answers with.
Read == {Current}

\* The keys are read again, whichever it was that changed.
ReadAgain ==
    /\ Hear /\ ~Head(queue).quiet /\ kind # "nats"
    /\ document' \in Read /\ Complete(document')
    /\ at' = "holding"
    /\ answered' = TRUE
    /\ UNCHANGED <<failing, faults>>

\* A key has no value, or the server does not answer.  The notification is lost.
ReadFails ==
    /\ Hear /\ ~Head(queue).quiet /\ kind # "nats"
    /\ \/ ~Complete(Current) /\ UNCHANGED faults
       \/ faults < MaxFaults /\ faults' = faults + 1
    /\ answered' = FALSE /\ failing' = TRUE
    /\ UNCHANGED <<at, document>>

\* The entry of NATS carries what was put.
Entry ==
    /\ Hear /\ ~Head(queue).quiet /\ kind = "nats"
    /\ document' = states[Head(queue).state]
    /\ at' = "holding"
    /\ answered' = TRUE
    /\ UNCHANGED <<failing, faults>>

\* Of a list, a command that changed several keys is delivered once.
Coalesced ==
    /\ at = "holding" /\ kind = "redis_list" /\ document = last
    /\ at' = "waiting" /\ document' = None
    /\ UNCHANGED <<kind, states, subscribed, queue, last, delivered, complete_at,
                   answered, failing, faults>>

\* A callback that accepts the document applies it to the sink, which clears the
\* failures; one that does not ends the watch.
HandOver ==
    /\ at = "holding" /\ ~(kind = "redis_list" /\ document = last)
    /\ delivered' = Append(delivered, document)
    /\ last' = IF kind = "redis_list" THEN document ELSE None
    /\ document' = None
    /\ \/ at' = "waiting" /\ failing' = FALSE
       \/ at' = "ended" /\ UNCHANGED failing
    /\ UNCHANGED <<kind, states, subscribed, queue, complete_at, answered, faults>>

-----------------------------------------------------------------------------

Next ==
    \/ Put \/ Remove
    \/ Subscribe \/ SubscriptionFails \/ Stop
    \/ Skip \/ ReadAgain \/ ReadFails \/ Entry
    \/ Coalesced \/ HandOver

Spec == Init /\ [][Next]_vars

-----------------------------------------------------------------------------
(* Properties.                                                             *)

\* Every variable holds a value of its type.
TypeOK ==
    /\ kind \in Kinds
    /\ states \in Seq(States) /\ Latest \in 1 .. MaxWrites
    /\ subscribed \subseteq Watched
    /\ queue \in Seq([quiet : BOOLEAN, state : 1 .. MaxWrites])
    /\ at \in {"subscribing", "waiting", "holding", "ended", "stopped"}
    /\ document \in States \cup {None} /\ (document = None <=> at # "holding")
    /\ last \in States \cup {None}
    /\ delivered \in Seq({s \in States : Complete(s)})
    /\ complete_at \in 0 .. MaxWrites
    /\ answered \in BOOLEAN /\ failing \in BOOLEAN /\ faults \in 0 .. MaxFaults

\* `Spurious, never torn': each delivery is a state the store was in, and never
\* an older one than the delivery before it.  Of a list and of NATS, each is of a
\* later state.
NeverTornNorOlder ==
    \E was \in [1 .. Len(delivered) -> 1 .. Latest] :
        /\ \A i \in DOMAIN was : states[was[i]] = delivered[i]
        /\ \A i \in 1 .. Len(delivered) - 1 :
               IF kind = "redis_key" THEN was[i] <= was[i + 1] ELSE was[i] < was[i + 1]

\* A loop with nothing left to hear has delivered what the store says, if it was
\* written after the subscription, however its writes and the reads fell: unless
\* the last read failed, and then the sink has been told.
AtRestIsCurrent ==
    /\ at = "waiting" /\ queue = << >> /\ answered
    /\ complete_at < Latest /\ Complete(Current)
    => delivered # << >> /\ delivered[Len(delivered)] = Current

\* A subscription that failed and a read that came back with nothing are failures
\* the sink has been told of.
FailuresAreReported == ~answered => failing

\* `The refusals at the door - a prefix, no format, no keys, notifications off, a
\* server that will not accept the subscription - are not' reported.
\* (The doc of Redis::watch; the code reports the last two.)
RefusalsAtTheDoorAreNotReported ==
    kind # "nats" /\ at = "ended" /\ subscribed # Watched => ~failing

\* What makes these inductive.  What is in hand can be delivered, of a list the last
\* document is the last delivery, and NATS says each put once, in order.
InHand ==
    /\ at \in {"waiting", "holding"} => subscribed = Watched
    /\ at = "holding" => answered /\ Complete(document)
    /\ kind = "redis_list" =>
           last = IF delivered = << >> THEN None ELSE delivered[Len(delivered)]

SaidInOrder ==
    kind = "nats" =>
        /\ \A i \in 1 .. Len(queue) :
               queue[i].state <= Latest /\ (~queue[i].quiet => Complete(states[queue[i].state]))
        /\ \A i, j \in 1 .. Len(queue) : i < j => queue[i].state < queue[j].state

\* The deliveries are of states `was', and the last state the loop has heard of is
\* `heard': the state of the document in hand, if there is one.
HeardUntil(was, heard) ==
    /\ \A i \in DOMAIN was : states[was[i]] = delivered[i] /\ was[i] <= heard
    /\ \A i \in 1 .. Len(delivered) - 1 :
           IF kind = "redis_key" THEN was[i] <= was[i + 1] ELSE was[i] < was[i + 1]
    /\ at = "holding" =>
           /\ heard # 0 /\ states[heard] = document
           /\ kind = "nats" => \A i \in DOMAIN was : was[i] < heard
    /\ kind = "nats" => \A i \in 1 .. Len(queue) : heard < queue[i].state

GoesForward ==
    \E was \in [1 .. Len(delivered) -> 1 .. Latest], heard \in 0 .. Latest :
        HeardUntil(was, heard)

\* What the store says last is the last to be heard of, and until then nothing else is
\* taken for current.
LatestIsHeardOf ==
    at \in {"waiting", "holding"} /\ complete_at < Latest =>
        /\ queue # << >> =>
               /\ queue[Len(queue)].state = Latest
               /\ Complete(Current) => ~queue[Len(queue)].quiet
        /\ queue = << >> /\ answered /\ Complete(Current) =>
               \/ at = "holding" /\ document = Current
               \/ /\ at = "waiting" /\ delivered # << >>
                  /\ delivered[Len(delivered)] = Current

IndInv ==
    /\ TypeOK /\ InHand /\ SaidInOrder /\ GoesForward /\ LatestIsHeardOf
    /\ FailuresAreReported
=============================================================================
