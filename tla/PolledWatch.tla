---------------------------- MODULE PolledWatch ----------------------------
(***************************************************************************)
(* The watch of a store that is polled: Vault KV v2, S3, Firestore, git.   *)
(* Every interval the loop asks which version the store has; when that is  *)
(* not the version it has seen it reads the document and hands it to the   *)
(* caller's callback.  Vault, S3 and git ask first and read after, as two  *)
(* requests; Firestore reads every time.                                   *)
(*                                                                         *)
(* A version is a tag.  Vault and Firestore number or date each write; an  *)
(* ETag or a commit says what was written, and comes back with it.         *)
(*                                                                         *)
(* `writes' is the history of the document, `delivered' what was handed to *)
(* the callback, as positions in it; `baseline' is the write that the      *)
(* first tick found.  Only `seen' and `checked' are the loop's own.        *)
(***************************************************************************)
EXTENDS Naturals, Sequences

CONSTANTS
    Kinds,        \* which stores are polled: among "vault", "s3", "firestore", "git"
    Contents,     \* what a document may say
    MaxWrites,    \* bound: writes
    MaxFaults     \* bound: requests that fail while the document is there

Bounds ==
    /\ Kinds \subseteq {"vault", "s3", "firestore", "git"}
    /\ 0 \notin Contents /\ MaxWrites \in Nat \ {0} /\ MaxFaults \in Nat

VARIABLES
    kind,         \* the store, chosen once
    writes,       \* what was written, in order
    present,      \* whether the document is there, or was deleted since
    at,           \* where the loop is
    seen,         \* the version the loop has seen, 0 before the first tick
    checked,      \* the write whose tag moved, while the document is read
    baseline,     \* history: the write the first tick found
    delivered,    \* history: the writes handed to the callback
    untagged,     \* history: whether a read came without its tag
    answered,     \* whether the store, last asked, answered with what was wanted
    failing,      \* what the sink was last told: RemoteStatus::reachable, negated
    faults        \* how many requests have failed

storeVars == <<kind, writes, present>>
vars == <<storeVars, at, seen, checked, baseline, delivered, untagged, answered,
          failing, faults>>

Numbered == kind \in {"vault", "firestore"}

\* The tag of the n-th write.
Tag(n) == IF Numbered THEN n ELSE writes[n]
Latest == Len(writes)

\* The write the program holds, as far as the loop is concerned.
Held == IF delivered = << >> THEN baseline ELSE delivered[Len(delivered)]

Init ==
    /\ kind \in Kinds
    /\ \E c \in Contents : writes = <<c>>
    /\ present = TRUE
    /\ at = "waiting"
    /\ seen = 0 /\ checked = 0
    /\ baseline = 0 /\ delivered = << >> /\ untagged = FALSE
    /\ answered = TRUE /\ failing = FALSE
    /\ faults = 0

-----------------------------------------------------------------------------
(* The store.                                                              *)

Write ==
    /\ Latest < MaxWrites
    /\ \E c \in Contents : writes' = Append(writes, c)
    /\ present' = TRUE
    /\ UNCHANGED <<kind, at, seen, checked, baseline, delivered, untagged, answered,
                   failing, faults>>

Delete ==
    /\ present
    /\ present' = FALSE
    /\ UNCHANGED <<kind, writes, at, seen, checked, baseline, delivered, untagged,
                   answered, failing, faults>>

\* A request may fail whenever it likes, MaxFaults times, and does if there is
\* nothing to answer with.
RequestFails ==
    \/ ~present /\ UNCHANGED faults
    \/ faults < MaxFaults /\ faults' = faults + 1

-----------------------------------------------------------------------------
(* A tick: the check.                                                      *)

\* What the check may answer with.  A deleted secret of Vault's keeps its
\* metadata, and the version in it.
CheckAnswers == at = "waiting" /\ kind # "firestore" /\ (present \/ kind = "vault")

\* The first version is recorded and nothing is delivered.
FirstTick ==
    /\ CheckAnswers /\ seen = 0
    /\ seen' = Tag(Latest)
    /\ baseline' = Latest
    /\ answered' = TRUE
    /\ UNCHANGED <<storeVars, at, checked, delivered, untagged, failing, faults>>

\* Mutant: the version is taken for seen before the document is read.
CheckMovedSeen ==
    /\ CheckAnswers /\ seen # 0 /\ Tag(Latest) # seen
    /\ at' = "reading"
    /\ checked' = Latest
    /\ seen' = Tag(Latest)
    /\ answered' = TRUE
    /\ UNCHANGED <<storeVars, baseline, delivered, untagged, failing, faults>>

\* The version moved: what it names is to be read.
CheckMoved ==
    /\ CheckAnswers /\ seen # 0 /\ Tag(Latest) # seen
    /\ at' = "reading"
    /\ checked' = Latest
    /\ answered' = TRUE
    /\ UNCHANGED <<storeVars, seen, baseline, delivered, untagged, failing, faults>>

\* Nothing is delivered, and nobody is told that the store answered.
CheckUnchanged ==
    /\ CheckAnswers /\ Tag(Latest) = seen
    /\ answered' = TRUE
    /\ UNCHANGED <<storeVars, at, seen, checked, baseline, delivered, untagged,
                   failing, faults>>

\* The loop of git reports to nobody.
Reported == failing' = (failing \/ kind # "git")

\* The check failed and may yet come good.
CheckFails ==
    /\ at = "waiting" /\ RequestFails
    /\ answered' = FALSE
    /\ Reported
    /\ UNCHANGED <<storeVars, at, seen, checked, baseline, delivered, untagged>>

\* The check failed in a way waiting will not cure, and the watch ends: not a
\* KV v2 mount, a document without a time, a credential that cannot be replaced.
CheckRefused ==
    /\ at = "waiting" /\ kind \in {"vault", "firestore", "git"}
    /\ at' = "ended"
    /\ answered' = FALSE
    /\ Reported
    /\ UNCHANGED <<storeVars, seen, checked, baseline, delivered, untagged, faults>>

-----------------------------------------------------------------------------
(* A tick: the document.                                                   *)

\* The document is handed over.  A callback that accepts it applies it to the
\* sink, which clears the failures; one that does not ends the watch.
HandedOver ==
    /\ delivered' = Append(delivered, Latest)
    /\ answered' = TRUE
    /\ \/ at' = "waiting" /\ failing' = FALSE
       \/ at' = "ended" /\ UNCHANGED failing

\* The version recorded is that of the document read.  S3 may leave it out, and
\* then it is that of the check.
ReadAnswers ==
    /\ at = "reading" /\ present
    /\ \/ seen' = Tag(Latest) /\ UNCHANGED untagged
       \/ kind = "s3" /\ seen' = Tag(checked) /\ untagged' = TRUE
    /\ checked' = 0
    /\ HandedOver
    /\ UNCHANGED <<storeVars, baseline, faults>>

\* The version is left unseen, so that the next tick reads again.
ReadFails ==
    /\ at = "reading" /\ RequestFails
    /\ at' = "waiting"
    /\ checked' = 0
    /\ answered' = FALSE
    /\ Reported
    /\ UNCHANGED <<storeVars, seen, baseline, delivered, untagged>>

\* Firestore: the document and its time in one request.
Polls == at = "waiting" /\ kind = "firestore" /\ present

PollFirst ==
    /\ Polls /\ seen = 0
    /\ seen' = Tag(Latest)
    /\ baseline' = Latest
    /\ answered' = TRUE
    /\ UNCHANGED <<storeVars, at, checked, delivered, untagged, failing, faults>>

PollMoved ==
    /\ Polls /\ seen # 0 /\ Tag(Latest) # seen
    /\ seen' = Tag(Latest)
    /\ HandedOver
    /\ UNCHANGED <<storeVars, checked, baseline, untagged, faults>>

PollUnchanged ==
    /\ Polls /\ Tag(Latest) = seen
    /\ answered' = TRUE
    /\ UNCHANGED <<storeVars, at, seen, checked, baseline, delivered, untagged,
                   failing, faults>>

\* Watching::stop, noticed between two ticks.
Stop ==
    /\ at = "waiting"
    /\ at' = "stopped"
    /\ UNCHANGED <<storeVars, seen, checked, baseline, delivered, untagged, answered,
                   failing, faults>>

-----------------------------------------------------------------------------

Check == FirstTick \/ CheckMoved \/ CheckUnchanged
Poll == PollFirst \/ PollMoved \/ PollUnchanged
Tick == Check \/ CheckFails \/ CheckRefused \/ ReadAnswers \/ ReadFails \/ Poll

Next == Write \/ Delete \/ Tick \/ Stop

Spec == Init /\ [][Next]_vars

\* The loop's thread runs, and its interval passes.  Nobody is obliged to write
\* or to stop, and the store fails MaxFaults times at most while it has an
\* answer.
Fairness == WF_vars(Check \/ CheckFails \/ ReadAnswers \/ ReadFails \/ Poll)

FairSpec == Spec /\ Fairness

-----------------------------------------------------------------------------
(* Properties.                                                             *)

Position == 0 .. MaxWrites

\* Every variable holds a value of its type.
TypeOK ==
    /\ kind \in Kinds
    /\ writes \in Seq(Contents) /\ Len(writes) \in 1 .. MaxWrites
    /\ present \in BOOLEAN
    /\ at \in {"waiting", "reading", "ended", "stopped"}
    /\ seen \in {0} \cup {Tag(n) : n \in 1 .. Latest}
    /\ checked \in Position /\ (checked = 0 <=> at # "reading")
    /\ baseline \in Position /\ (baseline = 0 <=> seen = 0)
    /\ delivered \in Seq(1 .. MaxWrites)
    /\ untagged \in BOOLEAN /\ answered \in BOOLEAN /\ failing \in BOOLEAN
    /\ faults \in 0 .. MaxFaults

\* The version the loop takes for seen is one whose document the program was
\* handed, or the one found on the first tick: no failed read, and no write
\* between a check and its read, makes the loop skip what it has not delivered.
\* (The comments `seen is deliberately left where it was'.)
SeenWasHandedOver ==
    seen # 0 => \E n \in 1 .. Held : Tag(n) = seen

\* A write is handed over once, and in order, although a write between a check
\* and its read makes the check's answer old: only a store that leaves out the
\* tag of what it reads can deliver one twice.
\* (The comments `the version is taken from the read itself'.)
DeliveredOnce ==
    \A i \in 1 .. Len(delivered) :
        LET before == IF i = 1 THEN baseline ELSE delivered[i - 1]
        IN  before < delivered[i] \/ (untagged /\ before = delivered[i])

\* A failure the loop survives, or ends on, is one the sink has been told about:
\* a loop that polls into the void does not pass for healthy.
\* (Rule 1 of attempts.rs; the loop of git has no sink.)
FailuresAreReported == kind # "git" /\ ~answered => failing

\* The same of git, of which book/src/remote-stores.md says that its watch is a
\* poll, a poll is a fetch, and a fetch records itself.
GitFailuresAreRecorded == kind = "git" /\ ~answered => failing

\* What makes these inductive: the version seen is the tag of what the program holds,
\* unless a read came without its tag, and what the loop is about to read is newer.
SeenIsHeld ==
    /\ seen = 0 => delivered = << >>
    /\ seen # 0 => Held \in 1 .. Latest /\ (untagged \/ seen = Tag(Held))

ReadIsDue ==
    at = "reading" => seen # 0 /\ checked \in 1 .. Latest /\ (untagged \/ Held < checked)

OnlyS3OmitsTags == untagged => kind = "s3"

IndInv ==
    /\ TypeOK /\ SeenIsHeld /\ ReadIsDue /\ OnlyS3OmitsTags
    /\ SeenWasHandedOver /\ DeliveredOnce /\ FailuresAreReported

\* A write the loop has not seen is delivered, or a later one is, or the
\* document says again what was seen, or is deleted, or the watch ends.
ChangeIsDelivered ==
    \A n \in 1 .. MaxWrites :
        (seen # 0 /\ Latest = n /\ Tag(n) # seen)
            ~> \/ Held >= n
               \/ seen = Tag(Latest)
               \/ ~present
               \/ at \in {"ended", "stopped"}
=============================================================================
