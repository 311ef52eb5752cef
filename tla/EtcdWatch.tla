----------------------------- MODULE EtcdWatch -----------------------------
(***************************************************************************)
(* Etcd::watch: one stream of events over one key or one prefix, which is  *)
(* established again when its auth token expires.                          *)
(*                                                                         *)
(* The store is its log: the n-th entry is revision n, a put or a delete   *)
(* of something watched, or a change of something else.  A stream is the   *)
(* next revision it has to offer; what it has sent and the loop has not    *)
(* received is lost with it, as if it had not been sent.                   *)
(*                                                                         *)
(* A message of a stream says up to which revision it speaks (its header). *)
(* Whether the first one is the creation of the watch, which speaks for    *)
(* the whole store, or the client library keeps that one to itself, is not *)
(* assumed.                                                                *)
(***************************************************************************)
EXTENDS Naturals, Sequences, Functions

CONSTANTS
    Shapes,       \* what is watched: among "key", "prefix"
    Announcing,   \* whether the creation of a watch is a message: among TRUE, FALSE
    MaxRevision,  \* bound: revisions of the store
    MaxExpiries   \* bound: streams whose token expires

Bounds ==
    /\ Shapes \subseteq {"key", "prefix"} /\ Announcing \subseteq BOOLEAN
    /\ MaxRevision \in Nat \ {0} /\ MaxExpiries \in Nat

MOST_TOKEN_RECOVERIES == 3

VARIABLES
    shape, announces,   \* the source's Keys and the client library, chosen once
    log, compacted,     \* the store, and the oldest revision it still has
    at,                 \* where the loop is
    next,               \* the next revision of the stream
    creation,           \* the header of the creation still to be received, or 0
    resume_from,        \* 0 until the first message
    token_recoveries,
    reading,            \* the revision a prefix is being read at
    expiries,           \* how many streams have lost their token
    opened,             \* history: the first revision of the first stream
    first,              \* history: of the stream of the first message
    delivered           \* history: the revisions handed to the callback

storeVars == <<shape, announces, log, compacted>>
loopVars == <<at, next, creation, resume_from, token_recoveries, reading>>
vars == <<storeVars, loopVars, expiries, opened, first, delivered>>

Revision == Len(log)
Watched(r) == log[r] # "other"

\* Whether there is anything to deliver at revision r: the last that happened
\* to what is watched is not its deletion.
Stored(r) ==
    \E p \in 1 .. r : log[p] = "put" /\ \A d \in p + 1 .. r : log[d] # "delete"

Init ==
    /\ shape \in Shapes /\ announces \in Announcing
    /\ log = <<"put">> /\ compacted = 1
    /\ at = "opening"
    /\ next = 0 /\ creation = 0
    /\ resume_from = 0 /\ token_recoveries = 0 /\ reading = 0
    /\ expiries = 0
    /\ opened = 0 /\ first = 0 /\ delivered = << >>

-----------------------------------------------------------------------------
(* The store.                                                              *)

Change ==
    /\ Revision < MaxRevision
    /\ \E event \in {"put", "delete", "other"} : log' = Append(log, event)
    /\ UNCHANGED <<shape, announces, compacted, loopVars, expiries, opened, first, delivered>>

Compact ==
    /\ compacted < Revision
    /\ compacted' = Revision
    /\ UNCHANGED <<shape, announces, log, loopVars, expiries, opened, first, delivered>>

-----------------------------------------------------------------------------
(* The stream.                                                             *)

End ==
    /\ at' = "ended"
    /\ UNCHANGED <<storeVars, next, creation, resume_from, token_recoveries, reading,
                   expiries, opened, first, delivered>>

\* Etcd::watch_once: from a revision, or from now on.
Establish(from) ==
    /\ at' = "streaming"
    /\ next' = IF from = 0 THEN Revision + 1 ELSE from
    /\ creation' = IF announces THEN Revision ELSE 0

\* The first stream, after a refresh of the token if it has to be.
Open ==
    /\ at = "opening"
    /\ Establish(0)
    /\ opened' = Revision + 1
    /\ UNCHANGED <<storeVars, resume_from, token_recoveries, reading, expiries, first,
                   delivered>>

OpenFails == at = "opening" /\ End

\* A message: the token works, and this is how far the loop has come.
Heard(revision) ==
    /\ token_recoveries' = 0
    /\ resume_from' = revision + 1
    /\ first' = IF first = 0 THEN next ELSE first

\* The creation of the watch carries no event.  Nothing the loop does with a
\* progress notification differs.
Created ==
    /\ at = "streaming" /\ creation # 0
    /\ creation' = 0
    /\ Heard(creation)
    /\ UNCHANGED <<storeVars, at, next, reading, expiries, opened, delivered>>

\* The events of the stream up to revision b.
Offers(b) ==
    /\ at = "streaming" /\ creation = 0
    /\ next >= compacted
    /\ \E r \in next .. b : Watched(r)

Ascending(s) == \A i \in 1 .. Len(s) - 1 : s[i] < s[i + 1]

\* The puts of the stream up to revision b, in order.
Puts(b) ==
    LET those == {r \in next .. b : log[r] = "put"}
    IN  {puts \in UNION {[1 .. n -> those] : n \in 0 .. b} :
            Ascending(puts) /\ Range(puts) = those}

\* Mutant: the callback is handed the last put of a batch only.
KeyEventsLastOnly(b) ==
    /\ shape = "key" /\ Offers(b)
    /\ Heard(b)
    /\ next' = b + 1
    /\ \E puts \in Puts(b) :
           delivered' = IF puts = << >> THEN delivered
                        ELSE Append(delivered, puts[Len(puts)])
    /\ at' \in {"streaming", "ended"}
    /\ UNCHANGED <<storeVars, creation, reading, expiries, opened>>

\* One key: every put is handed over, in order; a deletion is no change.  A
\* put that is not text, or that the callback refuses, ends the watch.
KeyEvents(b) ==
    /\ shape = "key" /\ Offers(b)
    /\ Heard(b)
    /\ next' = b + 1
    /\ \E puts \in Puts(b) :
           \/ at' = "streaming" /\ delivered' = delivered \o puts
           \/ /\ at' = "ended" /\ puts # << >>
              /\ \E n \in 0 .. Len(puts) : delivered' = delivered \o SubSeq(puts, 1, n)
    /\ UNCHANGED <<storeVars, creation, reading, expiries, opened>>

\* A prefix: the set moved, and is to be read at the revision of the message.
PrefixMoved(b) ==
    /\ shape = "prefix" /\ Offers(b)
    /\ Heard(b)
    /\ next' = b + 1
    /\ at' = "reading" /\ reading' = b
    /\ UNCHANGED <<storeVars, creation, expiries, opened, delivered>>

\* Etcd::range_at, as long as the revision is there.  An empty prefix is not
\* delivered.
RangeRead ==
    /\ at = "reading" /\ reading >= compacted
    /\ reading' = 0
    /\ \/ ~Stored(reading) /\ at' = "streaming" /\ UNCHANGED delivered
       \/ /\ Stored(reading)
          /\ delivered' = Append(delivered, reading)
          /\ at' \in {"streaming", "ended"}
    /\ UNCHANGED <<storeVars, next, creation, resume_from, token_recoveries, expiries,
                   opened, first>>

\* It is gone, or the read fails for good, or the keys do not merge.
RangeReadFails == at = "reading" /\ End

\* The store cancels a watch that it can no longer serve, or the stream fails or
\* ends: all of them end the watch.
StreamEnds == at = "streaming" /\ End

\* The token of the stream expires, MOST_TOKEN_RECOVERIES times in a row at most.
TokenExpires ==
    /\ at = "streaming" /\ expiries < MaxExpiries
    /\ token_recoveries < MOST_TOKEN_RECOVERIES
    /\ at' = "recovering"
    /\ expiries' = expiries + 1
    /\ token_recoveries' = token_recoveries + 1
    /\ UNCHANGED <<storeVars, next, creation, resume_from, reading, opened, first,
                   delivered>>

TokenExpiresAgain ==
    /\ at = "streaming" /\ token_recoveries >= MOST_TOKEN_RECOVERIES
    /\ End

\* Mutant: the new stream starts from now.
RecoverFromNow ==
    /\ at = "recovering"
    /\ Establish(0)
    /\ UNCHANGED <<storeVars, resume_from, token_recoveries, reading, expiries, opened,
                   first, delivered>>

\* The token is refreshed and the stream established where the last one was.
Recover ==
    /\ at = "recovering"
    /\ Establish(resume_from)
    /\ UNCHANGED <<storeVars, resume_from, token_recoveries, reading, expiries, opened,
                   first, delivered>>

RecoverFails == at = "recovering" /\ End

-----------------------------------------------------------------------------

Receive ==
    \/ Created
    \/ \E b \in next .. Revision : KeyEvents(b) \/ PrefixMoved(b)

Next ==
    \/ Change \/ Compact
    \/ Open \/ OpenFails
    \/ Receive
    \/ RangeRead \/ RangeReadFails
    \/ StreamEnds
    \/ TokenExpires \/ TokenExpiresAgain
    \/ Recover \/ RecoverFails

Spec == Init /\ [][Next]_vars

\* The loop's task runs, etcd sends what a stream has to offer, and a login and
\* a read come back.  A stream that the store no longer has the revisions of is
\* cancelled.  Tokens expire MaxExpiries times at most.
Fairness ==
    /\ WF_vars(Receive)
    /\ WF_vars(RangeRead \/ RangeReadFails)
    /\ WF_vars(Recover \/ RecoverFails)
    /\ WF_vars(at = "streaming" /\ next < compacted /\ StreamEnds)

FairSpec == Spec /\ Fairness

-----------------------------------------------------------------------------
(* Properties.                                                             *)

Revisions == 1 .. MaxRevision

\* Every variable holds a value of its type.
TypeOK ==
    /\ shape \in Shapes
    /\ log \in Seq({"put", "delete", "other"}) /\ Len(log) \in Revisions
    /\ compacted \in 1 .. Revision
    /\ at \in {"opening", "streaming", "reading", "recovering", "ended"}
    /\ next \in 0 .. MaxRevision + 1
    /\ announces \in Announcing
    /\ creation \in 0 .. Revision
    /\ resume_from \in 0 .. MaxRevision + 1
    /\ token_recoveries \in 0 .. MOST_TOKEN_RECOVERIES
    /\ reading \in 0 .. Revision
    /\ expiries \in 0 .. MaxExpiries
    /\ opened \in 0 .. MaxRevision + 1 /\ first \in 0 .. MaxRevision + 1
    /\ delivered \in Seq(Revisions)

\* What is handed over is newer than what was handed over before, through every
\* stream that was established again: nothing is replayed twice.
\* (`Just past the last batch this loop was handed'.)
DeliveredInOrder == Ascending(delivered)

\* What is due of revision r has been handed over: of a key, each put; of a
\* prefix, that revision or a later one, unless it is still being read or a
\* later read found the prefix empty.
HandedOver(r) ==
    IF shape = "key" THEN log[r] = "put" => r \in Range(delivered)
    ELSE Watched(r) => \/ \E d \in Range(delivered) : d >= r
                       \/ reading >= r
                       \/ \E e \in r .. resume_from - 1 : ~Stored(e)

\* From the first message on, nothing the store said before `resume_from' was
\* skipped, however many streams it took.  Not so if the creation of a stream
\* that resumes is a message: it speaks for revisions still to be sent.
NothingIsSkipped ==
    ~announces /\ at # "ended" => \A r \in first .. resume_from - 1 : r > 0 => HandedOver(r)

\* The same from the first stream on: `a write that lands while the stream is
\* down is replayed rather than lost'.
ReplayedRatherThanLost ==
    at = "streaming" /\ opened # 0 => \A r \in opened .. next - 1 : HandedOver(r)

\* What makes these inductive: a stream goes on where the last message ended, and what
\* was handed over lies behind that, and behind a creation that was not heard yet.
StreamGoesOn ==
    /\ ~announces => creation = 0
    /\ resume_from <= Revision + 1 /\ (first = 0 <=> resume_from = 0)
    /\ at \in {"opening", "streaming", "recovering"} => reading = 0
    /\ at = "opening" => resume_from = 0
    /\ at \in {"streaming", "reading"} => next \in 1 .. Revision + 1
    /\ at = "reading" =>
           creation = 0 /\ reading # 0 /\ next = reading + 1 /\ resume_from = next
    /\ ~announces /\ at \in {"streaming", "reading"} /\ resume_from # 0 => next = resume_from

DeliveredIsBehind ==
    \A d \in Range(delivered) :
        /\ d <= Revision /\ d < resume_from
        /\ at \in {"streaming", "reading"} => d < next
        /\ at = "reading" => d < reading
        /\ creation # 0 => d <= creation

IndInv ==
    TypeOK /\ StreamGoesOn /\ DeliveredIsBehind /\ DeliveredInOrder /\ NothingIsSkipped

\* What is put once the loop has its bearings is handed over, or something newer
\* is, or the prefix is emptied, or the watch ends (creations aside, as above).
PutIsDelivered ==
    \A n \in Revisions :
        (~announces /\ resume_from # 0 /\ resume_from <= n /\ Revision = n /\ log[n] = "put")
            ~> \/ \E d \in Range(delivered) : d >= n
               \/ ~Stored(Revision)
               \/ at = "ended"
=============================================================================
