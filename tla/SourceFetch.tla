----------------------------- MODULE SourceFetch -----------------------------
(***************************************************************************)
(* One fetch of a source that reads several keys, while they are written.  *)
(* A list of keys is merged in the caller's order, later wins; what is     *)
(* under a prefix is merged as sections that must not overlap.  Every      *)
(* store ends in the same fold; how the keys are found and read differs:   *)
(*                                                                         *)
(*   etcd       a transaction for a list, a range read for a prefix        *)
(*   Consul     a request per key, `?recurse' for a prefix                 *)
(*   Redis      MGET, of what SCAN found when it is a prefix               *)
(*   S3         a GET per object, of what was listed when it is a prefix   *)
(*   NATS       a get per key                                              *)
(*   Vault      a read per path                                            *)
(*   Firestore  one batchGet, whose results come in any order              *)
(*   git        one commit's tree, for a list and for a directory          *)
(*                                                                         *)
(* A document is the set of paths it supplies, and the write it came from. *)
(***************************************************************************)
EXTENDS Naturals, Sequences, FiniteSets, SequencesExt

CONSTANTS
    InKeyOrder,   \* the keys of the store, all of them under the prefix, sorted
    Lists,        \* the lists of keys a caller may name, none of them twice
    Supplies,     \* what a document may supply: sets of paths
    MostKeys,     \* MOST_KEYS: how many keys of a prefix are folded
    MostRounds,   \* MOST_SCAN_ROUNDS, MOST_LIST_PAGES
    MaxWrites     \* bound: how often the keys are written during the fetch

Keys == ToSet(InKeyOrder)

Bounds ==
    /\ InKeyOrder \in Seq(Keys) /\ IsInjective(InKeyOrder)
    /\ \A l \in Lists : l \in Seq(Keys) /\ IsInjective(l)
    /\ {MostKeys, MostRounds} \subseteq Nat \ {0} /\ MaxWrites \in Nat

\* The shapes of each store's Keys.
EtcdKeys == {"one", "several", "prefix"}
ConsulKeys == {"one", "several", "prefix"}
RedisKeys == {"one", "several", "prefix"}
S3Keys == {"one", "several", "prefix"}
NatsKeys == {"one", "several"}
VaultKeys == {"one", "several"}
FirestoreKeys == {"one", "several"}
GitKeys == {"one", "several", "prefix"}

KeysOf ==
    [etcd |-> EtcdKeys, consul |-> ConsulKeys, redis |-> RedisKeys, s3 |-> S3Keys,
     nats |-> NatsKeys, vault |-> VaultKeys, firestore |-> FirestoreKeys, git |-> GitKeys]

\* The shapes a watch accepts; it refuses the others before its first request.
EtcdWatches == EtcdKeys \ {"several"}
ConsulWatches == ConsulKeys \ {"several"}
RedisWatches == RedisKeys \ {"prefix"}
S3Watches == {"one"}
NatsWatches == {"one"}
VaultWatches == {"one"}
FirestoreWatches == {"one"}
GitWatches == GitKeys

WatchesOf ==
    [etcd |-> EtcdWatches, consul |-> ConsulWatches, redis |-> RedisWatches,
     s3 |-> S3Watches, nats |-> NatsWatches, vault |-> VaultWatches,
     firestore |-> FirestoreWatches, git |-> GitWatches]

Nothing == [supplies |-> {}, write |-> -1]
Document == [supplies : Supplies, write : Nat]

VARIABLES
    history,      \* the states of the store since the fetch began, one per write
    store, list,  \* the store, and the list of keys read; << >> for a prefix
    at,           \* where the fetch is
    found,        \* the keys found under a prefix so far
    cursor,       \* SCAN: the keys not yet passed; a listing: those after the last page
    rounds,       \* the rounds or pages asked for
    left,         \* the keys still to be read
    held,         \* what was read, in merge order: <<key, document>> pairs
    commit,       \* git: the tree of the commit that was fetched
    answer        \* what the fetch came back with

place == <<store, list>>
finding == <<found, cursor, rounds>>
vars == <<history, place, at, finding, left, held, commit, answer>>

Pending == [kind |-> "pending", why |-> "pending", document |-> << >>]
Refusal(kind, why) == [kind |-> kind, why |-> why, document |-> << >>]

Now == history[Len(history)]

\* Some of the keys, in key order.
Precedes(k, l) ==
    \E i, j \in DOMAIN InKeyOrder : i < j /\ InKeyOrder[i] = k /\ InKeyOrder[j] = l
InOrder(keys) ==
    CHOOSE s \in [1 .. Cardinality(keys) -> keys] :
        \A i, j \in 1 .. Cardinality(keys) : i < j => Precedes(s[i], s[j])

Holding(state) == {k \in Keys : state[k] # Nothing}
Present(state) == InOrder(Holding(state))
Pairs(keys, state) == [i \in DOMAIN keys |-> <<keys[i], state[keys[i]]>>]

ReadsPrefix == list = << >>
Shape == CASE ReadsPrefix -> "prefix" [] Len(list) = 1 -> "one" [] OTHER -> "several"

Init ==
    /\ history \in {<<s>> : s \in [Keys -> {Nothing} \cup [supplies : Supplies, write : {0}]]}
    /\ store \in DOMAIN KeysOf /\ list \in Lists \cup {<< >>}
    /\ Shape \in KeysOf[store]
    /\ at = "finding"
    /\ found = {} /\ cursor = Keys /\ rounds = 0
    /\ left = list /\ held = << >> /\ commit = Now
    /\ answer = Pending

-----------------------------------------------------------------------------
(* The fold every store ends in.                                           *)

\* Which write a path's value comes from, once `pair' is merged into `tree'.
Merge(tree, pair) ==
    [p \in DOMAIN tree \cup pair[2].supplies |->
        IF p \in pair[2].supplies THEN <<pair[1], pair[2].write>> ELSE tree[p]]

Folded(pairs) ==
    LET folded[n \in 0 .. Len(pairs)] ==
            IF n = 0 THEN << >> ELSE Merge(folded[n - 1], pairs[n])
    IN  folded[Len(pairs)]

Overlapping(pairs) ==
    \E i \in 2 .. Len(pairs) :
        DOMAIN Folded(SubSeq(pairs, 1, i - 1)) \cap pairs[i][2].supplies # {}

\* A single document is passed through, and cannot overlap.
Merged(pairs) ==
    CASE Len(pairs) = 0 -> Refusal("absent", "missing")
      [] Len(pairs) = 1 -> [kind |-> "document", why |-> "read", document |-> Folded(pairs)]
      [] ReadsPrefix /\ Overlapping(pairs) -> Refusal("remote", "overlap")
      [] OTHER -> [kind |-> "document", why |-> "read", document |-> Folded(pairs)]

WithinKeyBudget(matched) == matched <= MostKeys

-----------------------------------------------------------------------------
(* How a fetch goes on and ends.                                           *)

Finish(result) ==
    /\ answer' = result
    /\ at' = "done"
    /\ UNCHANGED <<history, place, finding, left, held, commit>>

\* What was asked for in one request has come, whole: it is folded.
Take(pairs) ==
    /\ held' = pairs
    /\ answer' = Merged(pairs)
    /\ at' = "done"
    /\ UNCHANGED <<history, place, finding, left, commit>>

\* One request per key; one key with nothing in it fails the whole fetch.
ReadNextOf(state, missing) ==
    IF state[Head(left)] = Nothing
    THEN Finish(Refusal(missing, "missing"))
    ELSE LET pairs == Append(held, <<Head(left), state[Head(left)]>>) IN
         /\ held' = pairs
         /\ left' = Tail(left)
         /\ IF Tail(left) = << >>
            THEN at' = "done" /\ answer' = Merged(pairs)
            ELSE UNCHANGED <<at, answer>>
         /\ UNCHANGED <<history, place, finding, commit>>

ReadNext(missing) == ReadNextOf(Now, missing)

\* A list, of which every key must hold something.
TakeList ==
    IF \E k \in ToSet(list) : Now[k] = Nothing
    THEN Finish(Refusal("remote", "missing"))
    ELSE Take(Pairs(list, Now))

\* A store is away, does not answer in time, refuses the credential, or answers
\* with what is not text or, of several, not a document.  `kinds' are those it
\* tells apart.
Fail(kinds) ==
    /\ at \in {"finding", "reading"}
    /\ \E kind \in kinds : Finish(Refusal(kind, "failed"))

Write ==
    /\ at # "done" /\ Len(history) <= MaxWrites
    /\ \E k \in Keys, d \in {Nothing} \cup [supplies : Supplies, write : {Len(history)}] :
        /\ d # Now[k]
        /\ history' = Append(history, [Now EXCEPT ![k] = d])
    /\ UNCHANGED <<place, at, finding, left, held, commit, answer>>

-----------------------------------------------------------------------------
(* The stores.                                                             *)

EtcdFails == store = "etcd" /\ Fail({"remote", "auth"})

EtcdGetOne ==
    /\ store = "etcd" /\ at = "finding" /\ Shape = "one"
    /\ TakeList

\* A transaction is evaluated at one revision; a list longer than one carries is among
\* the failures.
EtcdGetSeveral ==
    /\ store = "etcd" /\ at = "finding" /\ Shape = "several"
    /\ TakeList

\* Mutant: a range is asked for no more keys than the budget.
EtcdRangeWithin == SubSeq(Present(Now), 1, Min({Len(Present(Now)), MostKeys}))

\* One key more than the budget, so that a range too big is known to be.
EtcdRange == SubSeq(Present(Now), 1, Min({Len(Present(Now)), MostKeys + 1}))

EtcdGetPrefix ==
    /\ store = "etcd" /\ at = "finding" /\ Shape = "prefix"
    /\ IF WithinKeyBudget(Len(EtcdRange))
       THEN Take(Pairs(EtcdRange, Now))
       ELSE Finish(Refusal("remote", "budget"))

ConsulFails == store = "consul" /\ Fail({"remote", "auth"})

\* documents: key by key.
ConsulDocuments ==
    /\ store = "consul" /\ at = "finding" /\ Shape # "prefix"
    /\ ReadNext("remote")

\* `?recurse': the whole subtree at one index.
ConsulSubtree ==
    /\ store = "consul" /\ at = "finding" /\ Shape = "prefix"
    /\ IF WithinKeyBudget(Len(Present(Now)))
       THEN Take(Pairs(Present(Now), Now))
       ELSE Finish(Refusal("remote", "budget"))

RedisFails == store = "redis" /\ Fail({"remote", "auth"})

\* One round of SCAN returns some of the keys the cursor passes, and perhaps one
\* it returned before.  Every key that stays is passed and returned once.
RedisScan ==
    /\ store = "redis" /\ ReadsPrefix /\ at = "finding"
    /\ IF rounds = MostRounds
       THEN Finish(Refusal("remote", "rounds"))
       ELSE \E passed \in SUBSET cursor :
            LET all == found \cup {k \in passed : Now[k] # Nothing} IN
            IF ~WithinKeyBudget(Cardinality(all))
            THEN Finish(Refusal("remote", "budget"))
            ELSE /\ found' = all
                 /\ cursor' = cursor \ passed
                 /\ rounds' = rounds + 1
                 /\ at' = IF passed = cursor THEN "reading" ELSE "finding"
                 /\ left' = IF passed = cursor THEN InOrder(all) ELSE left
                 /\ UNCHANGED <<history, place, held, commit, answer>>

\* Mutant: a GET for each key.
RedisReadEach ==
    /\ store = "redis"
    /\ at = IF ReadsPrefix THEN "reading" ELSE "finding"
    /\ IF left = << >> THEN Finish(Refusal("remote", "missing")) ELSE ReadNext("remote")

\* Every shape of Redis ends in one MGET.
RedisRead ==
    /\ store = "redis"
    /\ at = IF ReadsPrefix THEN "reading" ELSE "finding"
    /\ IF left = << >> \/ \E k \in ToSet(left) : Now[k] = Nothing
       THEN Finish(Refusal("remote", "missing"))
       ELSE Take(Pairs(left, Now))

S3Fails == store = "s3" /\ Fail({"remote", "auth"})

\* A page lists some of the keys after the last page's, in key order; the last
\* page says that nothing follows.
S3Listed ==
    /\ store = "s3" /\ ReadsPrefix /\ at = "finding"
    /\ IF rounds = MostRounds
       THEN Finish(Refusal("remote", "rounds"))
       ELSE \E n \in 0 .. Len(InKeyOrder) :
            LET passed == {k \in cursor : \E i \in 1 .. n : InKeyOrder[i] = k}
                all == found \cup {k \in passed : Now[k] # Nothing} IN
            IF ~WithinKeyBudget(Cardinality(all))
            THEN Finish(Refusal("remote", "budget"))
            ELSE IF passed = cursor /\ all = {}
            THEN Finish(Refusal("remote", "missing"))
            ELSE /\ found' = all
                 /\ cursor' = cursor \ passed
                 /\ rounds' = rounds + 1
                 /\ at' = IF passed = cursor THEN "reading" ELSE "finding"
                 /\ left' = IF passed = cursor THEN InOrder(all) ELSE left
                 /\ UNCHANGED <<history, place, held, commit, answer>>

\* An object that is gone is an error of the service like any other.
S3Object ==
    /\ store = "s3"
    /\ at = IF ReadsPrefix THEN "reading" ELSE "finding"
    /\ ReadNext("remote")

NatsFails == store = "nats" /\ Fail({"remote"})
NatsRead == store = "nats" /\ at = "finding" /\ ReadNext("remote")

VaultFails == store = "vault" /\ Fail({"remote", "auth"})

\* A 404, and a version whose values are deleted, are absent rather than remote.
VaultReadOne == store = "vault" /\ at = "finding" /\ ReadNext("absent")

FirestoreFails == store = "firestore" /\ Fail({"remote", "auth"})

FirestoreRead ==
    /\ store = "firestore" /\ at = "finding" /\ Shape = "one"
    /\ ReadNext("remote")

\* The service reads each document at a time of its own, in an order of its own.
\* It may answer twice for one.
FirestoreServes ==
    /\ store = "firestore" /\ at = "finding" /\ Shape = "several" /\ Len(held) <= Len(list)
    /\ \E k \in ToSet(list) : held' = Append(held, <<k, Now[k]>>)
    /\ UNCHANGED <<history, place, at, finding, left, commit, answer>>

\* Mutant: the results are folded in the order they came in.
FirestoreBatchAsAnswered ==
    /\ store = "firestore" /\ at = "finding" /\ Shape = "several"
    /\ IF \E i \in DOMAIN held : held[i][2] = Nothing
       THEN Finish(Refusal("remote", "missing"))
       ELSE IF \E k \in ToSet(list) : Cardinality({i \in DOMAIN held : held[i][1] = k}) # 1
       THEN Finish(Refusal("remote", "unanswered"))
       ELSE Take(held)

\* A result that came twice or did not come fails the fetch; the others are put
\* back into the order of the call.
FirestoreBatch ==
    LET Found(k) == {i \in DOMAIN held : held[i][1] = k} IN
    /\ store = "firestore" /\ at = "finding" /\ Shape = "several"
    /\ IF \E i \in DOMAIN held : held[i][2] = Nothing
       THEN Finish(Refusal("remote", "missing"))
       ELSE IF \E k \in ToSet(list) : Cardinality(Found(k)) # 1
       THEN Finish(Refusal("remote", "unanswered"))
       ELSE Take([i \in DOMAIN list |-> held[CHOOSE j \in Found(list[i]) : TRUE]])

GitFails == store = "git" /\ Fail({"remote", "auth"})

\* The commit the ref advertised is fetched, and its tree is what is read.
GitAdvertised ==
    /\ store = "git" /\ at = "finding"
    /\ commit' = Now
    /\ at' = IF ReadsPrefix THEN "walking" ELSE "reading"
    /\ UNCHANGED <<history, place, finding, left, held, answer>>

\* Every file below a directory; the walk stops at the first past the budget.
GitUnder ==
    /\ store = "git" /\ at = "walking"
    /\ IF Present(commit) = << >>
       THEN Finish(Refusal("remote", "missing"))
       ELSE IF ~WithinKeyBudget(Len(Present(commit)))
       THEN Finish(Refusal("remote", "budget"))
       ELSE /\ left' = Present(commit)
            /\ at' = "reading"
            /\ UNCHANGED <<history, place, finding, held, commit, answer>>

GitReadBlob ==
    /\ store = "git" /\ at = "reading"
    /\ ReadNextOf(commit, "remote")

Next ==
    \/ Write
    \/ EtcdFails \/ EtcdGetOne \/ EtcdGetSeveral \/ EtcdGetPrefix
    \/ ConsulFails \/ ConsulDocuments \/ ConsulSubtree
    \/ RedisFails \/ RedisScan \/ RedisRead
    \/ S3Fails \/ S3Listed \/ S3Object
    \/ NatsFails \/ NatsRead \/ VaultFails \/ VaultReadOne
    \/ FirestoreFails \/ FirestoreRead \/ FirestoreServes \/ FirestoreBatch
    \/ GitFails \/ GitAdvertised \/ GitUnder \/ GitReadBlob

Spec == Init /\ [][Next]_vars

-----------------------------------------------------------------------------
(* Properties.                                                             *)

Values == {Nothing} \cup [supplies : Supplies, write : 0 .. MaxWrites]

\* Every variable holds a value of its type.
TypeOK ==
    /\ \A i \in DOMAIN history : history[i] \in [Keys -> Values]
    /\ Len(history) \in 1 .. MaxWrites + 1
    /\ store \in DOMAIN KeysOf /\ list \in Lists \cup {<< >>}
    /\ at \in {"finding", "walking", "reading", "done"}
    /\ found \subseteq Keys /\ cursor \subseteq Keys /\ rounds \in 0 .. MostRounds
    /\ ToSet(left) \subseteq Keys
    /\ \A i \in DOMAIN held : held[i] \in Keys \X Values
    /\ commit \in [Keys -> Values]
    /\ answer.kind \in {"pending", "document", "remote", "auth", "absent"}

Answered == answer.kind = "document"
HeldAt(state) == \A i \in DOMAIN held : held[i][2] = state[held[i][1]]
SaidToBeAtomic ==
    \/ store \in {"etcd", "git"}
    \/ store = "consul" /\ Shape = "prefix"
    \/ store = "redis" /\ Shape = "several"
HeldKeys == {held[i][1] : i \in DOMAIN held}

\* A document leaves nothing out: each key of the list is in it once, with what
\* that key held during the fetch, and under a prefix so is every key that held
\* something all the while, however many rounds, pages and requests it took.
\* (`one unreadable key out of five must fail the whole fetch rather than merge
\* the four'.)
NothingIsLeftOut ==
    Answered =>
        /\ \A i \in DOMAIN held : \E s \in ToSet(history) :
            held[i][2] = s[held[i][1]] /\ held[i][2] # Nothing
        /\ Cardinality(HeldKeys) = Len(held)
        /\ IF ReadsPrefix
           THEN {k \in Keys : \A s \in ToSet(history) : s[k] # Nothing} \subseteq HeldKeys
           ELSE HeldKeys = ToSet(list)

\* The reads the documentation calls atomic return one state of the store: a
\* transaction, a range, a subtree, an MGET, a commit's tree.  So does every read of
\* a shape that may be watched; a watch of any other is what the stores refuse.
\* (`a write landing between two of the keys cannot produce a document that never
\* existed'; the table of remote-stores.md says of which stores.)
AtomicReadsAreOneState ==
    Answered /\ (SaidToBeAtomic \/ Shape \in WatchesOf[store]) =>
        \E s \in ToSet(history) :
            HeldAt(s) /\ (ReadsPrefix => HeldKeys = Holding(s))

\* Which of two keys supplies a path is the caller's order or nobody's: of a list
\* the last one named wins, whatever order the store answered in, and of a prefix
\* no two supply one.
PrecedenceIsTheCallers ==
    Answered =>
        IF ReadsPrefix
        THEN \A i, j \in DOMAIN held :
                i # j => held[i][2].supplies \cap held[j][2].supplies = {}
        ELSE \A i \in DOMAIN list : \A pair \in ToSet(held) :
                pair[1] = list[i] =>
                \A p \in pair[2].supplies :
                    \/ answer.document[p] = <<pair[1], pair[2].write>>
                    \/ \E j \in i + 1 .. Len(list) : answer.document[p][1] = list[j]

-----------------------------------------------------------------------------
(* Why they hold.                                                          *)

State == [Keys -> {Nothing} \cup Document]
AllTheWhile == {k \in Keys : \A s \in ToSet(history) : s[k] # Nothing}
Batch == store = "firestore" /\ Shape = "several"

FetchIsTyped ==
    /\ history \in Seq(State) /\ Len(history) > 0
    /\ commit \in ToSet(history)
    /\ store \in DOMAIN KeysOf /\ list \in Lists \cup {<< >>} /\ Shape \in KeysOf[store]
    /\ at \in {"finding", "walking", "reading", "done"}
    /\ at = "walking" => store = "git" /\ ReadsPrefix
    /\ found \subseteq Keys /\ cursor \subseteq Keys
    /\ held \in Seq(Keys \X ({Nothing} \cup Document))

\* What is read was in the store, at some time during the fetch.
WereThere(pairs) ==
    \A i \in DOMAIN pairs : \E s \in ToSet(history) : pairs[i][2] = s[pairs[i][1]]

\* What is read key by key: a list, or what was found under a prefix.
ToRead ==
    CASE ~ReadsPrefix -> list
      [] ReadsPrefix /\ store = "git" -> Present(commit)
      [] OTHER -> InOrder(found)

\* What is held and what is left are the keys to be read, in their order.
ReadsInOrder ==
    at # "done" /\ ~Batch =>
        IF ReadsPrefix /\ at # "reading"
        THEN held = << >>
        ELSE /\ IF store = "redis" THEN held = << >> ELSE Len(held) < Len(ToRead)
             /\ left = SubSeq(ToRead, Len(held) + 1, Len(ToRead))
             /\ \A i \in DOMAIN held : held[i][1] = ToRead[i] /\ held[i][2] # Nothing

\* git reads the commit, and nothing before there is one.
ReadsTheCommit ==
    store = "git" =>
        /\ HeldAt(commit)
        /\ at = "finding" => held = << >>

\* What the cursor has passed was found, if it was there all the while.
PassedIsFound ==
    store \in {"redis", "s3"} /\ ReadsPrefix =>
        /\ AllTheWhile \ cursor \subseteq found
        /\ at = "reading" => cursor = {}

\* All there was to read, and of one state where that is promised.
IsWhole(pairs) ==
    LET keys == {pairs[i][1] : i \in DOMAIN pairs} IN
    /\ \A i \in DOMAIN pairs : pairs[i][2] # Nothing
    /\ IF ReadsPrefix
       THEN /\ \A i, j \in DOMAIN pairs : pairs[i][1] = pairs[j][1] => i = j
            /\ AllTheWhile \subseteq keys
       ELSE /\ DOMAIN pairs = DOMAIN list
            /\ \A i \in DOMAIN list : pairs[i][1] = list[i]
    /\ SaidToBeAtomic =>
           \E s \in ToSet(history) :
               /\ \A i \in DOMAIN pairs : pairs[i][2] = s[pairs[i][1]]
               /\ ReadsPrefix => keys = Holding(s)

AnswerIsWhole == Answered => at = "done" /\ answer = Merged(held) /\ IsWhole(held)

IndInv ==
    FetchIsTyped /\ WereThere(held) /\ ReadsInOrder /\ ReadsTheCommit /\ PassedIsFound
        /\ AnswerIsWhole
=============================================================================
