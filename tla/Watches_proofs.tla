--------------------------- MODULE Watches_proofs ---------------------------
(***************************************************************************)
(* That nothing a call of a git source goes on to need is removed under    *)
(* it; and that the watches report their failures, go forward, and take    *)
(* nothing for seen that they did not hand over.                           *)
(*                                                                         *)
(* The directory.  Only RemoveEntry takes anything out of it.  Two callers *)
(* inside are one (OneInside): the claim leaves one source and the mutex   *)
(* one thread of it; so whoever empties is alone.  The caller's own        *)
(* repository is never emptied because the marker is only put into a       *)
(* database that was made here, and what is openable is not made again.    *)
(*                                                                         *)
(* The watches.  What each of them compares with, a tag, a document or a   *)
(* revision, is that of what the program was handed last; what is in its   *)
(* hands, read and not handed over, is newer than that.  The properties of *)
(* Watches are those of the four together.                                 *)
(***************************************************************************)
EXTENDS Watches, Integers, TLAPS

-----------------------------------------------------------------------------
(* The working directory of a git source.                                   *)

\* Two callers that hold the mutex are the same one.
LEMMA OneInside ==
    ASSUME IndInv,
           NEW c \in Callers, NEW d \in Callers, at[c] \in Inside, at[d] \in Inside
    PROVE  c = d
<1>1. c[1] = d[1]
  BY DEF IndInv, Inside
<1>2. c[2] = d[2]
  BY <1>1 DEF IndInv
<1> QED
  BY <1>1, <1>2 DEF Callers

\* A program that has not started satisfies the invariant.
LEMMA InitInv == Init => IndInv
  BY DirectoryBounds DEF Init, IndInv, TypeOK, Places, Inside, Openable, Ours, None,
     NothingNeededIsRemoved, TheirsIsKept, Callers

\* Every step keeps the types.
LEMMA NextTypeOK == TypeOK /\ [Next]_vars => TypeOK'
<1> SUFFICES ASSUME TypeOK, [Next]_vars PROVE TypeOK'
  OBVIOUS
<1> USE DEF TypeOK, Places, Move, directory, attempt, None
<1>1. CASE Push
  BY <1>1 DEF Push
<1>2. CASE Crash
  BY <1>2, DirectoryBounds DEF Crash
<1>3. ASSUME NEW s \in Sources, Build(s) \/ DropSource(s) PROVE TypeOK'
  BY <1>3 DEF Build, DropSource
<1>4. ASSUME NEW c \in Callers, NEW wanted \in BOOLEAN, Call(c, wanted) PROVE TypeOK'
  BY <1>4 DEF Call
<1>5. ASSUME NEW c \in Callers, CredentialFails(c) \/ Refused(c) PROVE TypeOK'
  BY <1>5 DEF CredentialFails, Refused
<1>6. ASSUME NEW c \in Callers, Lock(c) PROVE TypeOK'
  BY <1>6 DEF Lock, Callers
<1>7. ASSUME NEW c \in Callers, Compact(c) \/ Emptied(c) \/ Open(c) \/ ReadDocuments(c)
      PROVE TypeOK'
  BY <1>7 DEF Compact, Emptied, Open, ReadDocuments
<1>8. ASSUME NEW c \in Callers, RemoveEntry(c) PROVE TypeOK'
  BY <1>8 DEF RemoveEntry
<1>9. ASSUME NEW c \in Callers, InitBare(c) \/ Mark(c) PROVE TypeOK'
  BY <1>9 DEF InitBare, Mark
<1>10. ASSUME NEW c \in Callers, Advertised(c) PROVE TypeOK'
  <2>1. commit' \in [Callers -> Commits \cup {None}]
    BY <1>10 DEF Advertised
  <2>2. at' \in [Callers -> Places]
    BY <1>10 DEF Advertised
  <2> QED
    BY <1>10, <2>1, <2>2 DEF Advertised
<1>13. ASSUME NEW c \in Callers, Receive(c) PROVE TypeOK'
  <2>1. packs' \subseteq Commits \cup {Theirs}
    BY <1>13 DEF Receive
  <2>2. at' \in [Callers -> Places]
    BY <1>13 DEF Receive
  <2> QED
    BY <1>13, <2>1, <2>2 DEF Receive
<1>11. ASSUME NEW c \in Callers, Leave(c) PROVE TypeOK'
  BY <1>11 DEF Leave, Callers
<1>12. CASE UNCHANGED vars
  BY <1>12 DEF vars
<1> QED
  BY <1>1, <1>2, <1>3, <1>4, <1>5, <1>6, <1>7, <1>8, <1>9, <1>10, <1>11, <1>12,
     <1>13 DEF Next, Once

\* Every step keeps the invariant.
LEMMA NextInv == IndInv /\ [Next]_vars => IndInv'
<1> SUFFICES ASSUME IndInv, [Next]_vars PROVE IndInv'
  OBVIOUS
<1>a. \A c, d \in Callers : at[c] \in Inside /\ at[d] \in Inside => c = d
  BY OneInside
<1>0. TypeOK'
  BY NextTypeOK DEF IndInv
<1> USE <1>0 DEF IndInv, Inside, Openable, Ours, NothingNeededIsRemoved, TheirsIsKept
<1>1. CASE Push
  BY <1>1 DEF Push, directory, attempt
<1>2. CASE Crash
  BY <1>2 DEF Crash, directory
<1>3. ASSUME NEW s \in Sources, Build(s) PROVE IndInv'
  BY <1>3 DEF Build, directory, attempt
\* A source that is dropped has no caller at work, and it was the only one.
<1>4. ASSUME NEW s \in Sources, DropSource(s) PROVE IndInv'
  <2>1. \A c \in Callers : c[1] = s => at[c] = "idle"
    BY <1>4 DEF DropSource, Callers
  <2> QED
    BY <1>4, <2>1 DEF DropSource, directory, attempt
<1>5. ASSUME NEW c \in Callers, NEW wanted \in BOOLEAN, Call(c, wanted) PROVE IndInv'
  BY <1>5 DEF Call, Move, TypeOK, directory
<1>6. ASSUME NEW c \in Callers, CredentialFails(c) PROVE IndInv'
  BY <1>6 DEF CredentialFails, Move, TypeOK, directory
\* The mutex was free, so nobody was inside.
<1>7. ASSUME NEW c \in Callers, Lock(c) PROVE IndInv'
  <2>1. c[1] \in live /\ c[1] \in Sources /\ c[2] \in Threads
    BY <1>7 DEF Lock, Callers
  <2>2. \A d \in Callers : at[d] \notin Inside
    <3> SUFFICES ASSUME NEW d \in Callers, at[d] \in Inside PROVE FALSE
      OBVIOUS
    <3>1. d[1] = c[1] /\ d[2] \in Threads
      BY <2>1 DEF Callers
    <3> QED
      BY <1>7, <3>1, DirectoryBounds DEF Lock
  <2>3. \A d \in Callers : d # c => at'[d] = at[d]
    BY <1>7 DEF Lock, Move, TypeOK
  <2>4. at'[c] = "compacting" /\ fetching'[c[1]] = c[2]
    BY <1>7, <2>1 DEF Lock, Move, TypeOK
  <2> QED
    BY <1>7, <2>1, <2>2, <2>3, <2>4 DEF Lock, directory
<1>8. ASSUME NEW c \in Callers, Compact(c) PROVE IndInv'
  BY <1>8 DEF Compact, Compacts, Move, TypeOK, directory
\* Nobody else is inside, and the directory is not the caller's own.
<1>9. ASSUME NEW c \in Callers, RemoveEntry(c) PROVE IndInv'
  <2>1. at[c] = "emptying" /\ ~theirs
    BY <1>9 DEF RemoveEntry
  <2>2. \A d \in Callers : at[d] \in Inside => d = c
    BY <2>1, <1>a DEF Places
  <2>3. \A d \in Callers : at[d] \notin {"marking", "asking", "receiving", "reading"}
    BY <2>1, <2>2 DEF Places
  <2> QED
    BY <1>9, <2>1, <2>3 DEF RemoveEntry, attempt
<1>10. ASSUME NEW c \in Callers, Emptied(c) PROVE IndInv'
  BY <1>10 DEF Emptied, Move, TypeOK, directory
<1>11. ASSUME NEW c \in Callers, Open(c) PROVE IndInv'
  BY <1>11 DEF Open, Move, TypeOK, directory
\* What is not openable is not the caller's own.
<1>12. ASSUME NEW c \in Callers, InitBare(c) PROVE IndInv'
  BY <1>12 DEF InitBare, Move, TypeOK
<1>13. ASSUME NEW c \in Callers, Mark(c) PROVE IndInv'
  BY <1>13 DEF Mark, Move, TypeOK
<1>14. ASSUME NEW c \in Callers, Advertised(c) PROVE IndInv'
  BY <1>14 DEF Advertised, Move, TypeOK, directory
<1>15. ASSUME NEW c \in Callers, Receive(c) PROVE IndInv'
  BY <1>15 DEF Receive, Move, TypeOK
<1>16. ASSUME NEW c \in Callers, ReadDocuments(c) PROVE IndInv'
  BY <1>16 DEF ReadDocuments, Move, TypeOK, directory
\* Whoever gives the mutex back was the one inside.
<1>17. ASSUME NEW c \in Callers, Leave(c) \/ Refused(c) PROVE IndInv'
  <2>1. at[c] \in Inside
    BY <1>17 DEF Leave, Refused, Places
  <2>2. \A d \in Callers : at[d] \in Inside => d = c
    BY <2>1, <1>a
  <2>3. \A d \in Callers : d # c => at'[d] = at[d] /\ at'[d] \notin Inside
    BY <1>17, <2>2 DEF Leave, Refused, Move, TypeOK
  <2>4. at'[c] \in {"idle", "locking"}
    BY <1>17 DEF Leave, Refused, Move, TypeOK
  <2> QED
    BY <1>17, <2>1, <2>3, <2>4 DEF Leave, Refused, directory, Places
<1>18. CASE UNCHANGED vars
  BY <1>18 DEF vars, directory, attempt
<1> QED
  BY <1>1, <1>2, <1>3, <1>4, <1>5, <1>6, <1>7, <1>8, <1>9, <1>10, <1>11, <1>12, <1>13,
     <1>14, <1>15, <1>16, <1>17, <1>18 DEF Next, Once

\* The invariant always holds.
LEMMA AlwaysInv == Spec => []IndInv
  BY InitInv, NextInv, PTL DEF Spec

\* No call that has opened the object database, or reads a commit's tree, has it
\* emptied under it by another thread or source of the program (GitSource::once,
\* Claimed::new).
THEOREM NothingIsRemovedUnderACall == Spec => []NothingNeededIsRemoved
<1>1. IndInv => NothingNeededIsRemoved
  BY DEF IndInv
<1> QED
  BY <1>1, AlwaysInv, PTL

\* A repository the caller made keeps its objects and stays one, whatever fails and
\* however often the program dies (compact, ours, mark).
THEOREM TheCallersRepositoryIsKept == Spec => []TheirsIsKept
<1>1. IndInv => TheirsIsKept
  BY DEF IndInv
<1> QED
  BY <1>1, AlwaysInv, PTL

-----------------------------------------------------------------------------
(* The watch of a store that is polled.                                     *)

\* A tag is one of a write, and stays that of the write.
LEMMA Tags ==
    ASSUME Polled!Bounds, Polled!TypeOK, NEW n \in 1 .. Polled!Latest
    PROVE  Polled!Tag(n) # 0
  BY DEF Polled!Bounds, Polled!TypeOK, Polled!Latest, Polled!Tag, Polled!Numbered

\* What was handed over last is what is held.
LEMMA HeldIsLast ==
    ASSUME polledDelivered \in Seq(1 .. PolledWrites), NEW w \in 1 .. PolledWrites,
           polledDelivered' = Append(polledDelivered, w)
    PROVE  /\ Polled!Held' = w
           /\ polledDelivered' \in Seq(1 .. PolledWrites)
           /\ Polled!DeliveredOnce
              /\ (Polled!Held < w \/ (untagged' /\ Polled!Held = w))
              /\ (untagged => untagged') /\ baseline' = baseline
              => Polled!DeliveredOnce'
<1> Polled!Held' = w
  BY DEF Polled!Held
<1>1. ASSUME Polled!DeliveredOnce, Polled!Held < w \/ (untagged' /\ Polled!Held = w),
             untagged => untagged', baseline' = baseline
      PROVE  Polled!DeliveredOnce'
  <2> SUFFICES ASSUME NEW i \in 1 .. Len(polledDelivered) + 1
               PROVE  LET before == IF i = 1 THEN baseline ELSE polledDelivered'[i - 1]
                      IN  before < polledDelivered'[i]
                            \/ (untagged' /\ before = polledDelivered'[i])
    BY <1>1 DEF Polled!DeliveredOnce
  <2>1. CASE i \in 1 .. Len(polledDelivered)
    BY <1>1, <2>1 DEF Polled!DeliveredOnce
  <2>2. CASE i = Len(polledDelivered) + 1
    BY <1>1, <2>2 DEF Polled!Held
  <2> QED
    BY <2>1, <2>2
<1> QED
  BY <1>1

\* A loop that has not ticked.
LEMMA PolledInit == Polled!Bounds /\ Polled!Init => Polled!IndInv
<1> SUFFICES ASSUME Polled!Bounds, Polled!Init PROVE Polled!IndInv
  OBVIOUS
<1>1. writes \in Seq(Contents) /\ Len(writes) = 1
  BY DEF Polled!Init
<1>2. Polled!TypeOK
  <2>1. seen = 0 /\ checked = 0 /\ baseline = 0 /\ polledFaults = 0
    BY DEF Polled!Init
  <2>2. 1 \in 1 .. PolledWrites /\ 0 \in 0 .. PolledWrites /\ 0 \in 0 .. PolledFaults
    BY DEF Polled!Bounds
  <2>3. /\ kind \in PolledKinds /\ present \in BOOLEAN /\ untagged \in BOOLEAN
        /\ polledAnswered \in BOOLEAN /\ polledFailing \in BOOLEAN
        /\ polledAt = "waiting" /\ polledDelivered = << >>
    BY DEF Polled!Init
  <2> QED
    BY <1>1, <2>1, <2>2, <2>3 DEF Polled!TypeOK, Polled!Position
<1> QED
  BY <1>2 DEF Polled!Init, Polled!IndInv, Polled!SeenIsHeld, Polled!ReadIsDue,
     Polled!OnlyS3OmitsTags, Polled!SeenWasHandedOver, Polled!DeliveredOnce,
     Polled!FailuresAreReported

\* A write changes no tag that was seen.
LEMMA PolledStore ==
    ASSUME Polled!Bounds, Polled!IndInv, Polled!Write \/ Polled!Delete PROVE Polled!IndInv'
<1> USE DEF Polled!IndInv
<1>1. CASE Polled!Write
  <2>1. PICK c \in Contents : writes' = Append(writes, c)
    BY <1>1 DEF Polled!Write
  <2>2. /\ writes' \in Seq(Contents) /\ Len(writes') = Len(writes) + 1
        /\ Len(writes) \in Nat /\ Len(writes) < PolledWrites
        /\ \A n \in 1 .. Len(writes) : writes'[n] = writes[n]
    BY <1>1, <2>1 DEF Polled!Write, Polled!TypeOK, Polled!Latest
  <2>3. Polled!Held' = Polled!Held
    BY <1>1 DEF Polled!Write, Polled!Held
  <2>4. \A n \in 1 .. Polled!Latest : Polled!Tag(n)' = Polled!Tag(n)
    BY <1>1, <2>2 DEF Polled!Write, Polled!Tag, Polled!Numbered, Polled!Latest
  <2>5. Polled!Latest' = Polled!Latest + 1 /\ Polled!Latest \in 1 .. PolledWrites
    BY <2>2 DEF Polled!Latest, Polled!TypeOK
  <2>6. Polled!TypeOK'
    BY <1>1, <2>2, <2>4, <2>5 DEF Polled!Write, Polled!TypeOK, Polled!Position, Polled!Bounds
  <2>7. Polled!SeenIsHeld'
    BY <1>1, <2>3, <2>4, <2>5 DEF Polled!Write, Polled!SeenIsHeld
  <2>8. Polled!ReadIsDue' /\ Polled!OnlyS3OmitsTags' /\ Polled!FailuresAreReported'
    BY <1>1, <2>3, <2>5 DEF Polled!Write, Polled!ReadIsDue, Polled!OnlyS3OmitsTags,
       Polled!FailuresAreReported
  <2>9. Polled!SeenWasHandedOver'
    BY <1>1, <2>3, <2>4, <2>5 DEF Polled!Write, Polled!SeenWasHandedOver, Polled!SeenIsHeld
  <2>10. Polled!DeliveredOnce'
    BY <1>1 DEF Polled!Write, Polled!DeliveredOnce
  <2> QED
    BY <2>6, <2>7, <2>8, <2>9, <2>10
<1>2. CASE Polled!Delete
  BY <1>2 DEF Polled!Delete, Polled!TypeOK, Polled!SeenIsHeld, Polled!ReadIsDue,
     Polled!OnlyS3OmitsTags, Polled!SeenWasHandedOver, Polled!DeliveredOnce,
     Polled!FailuresAreReported, Polled!Held, Polled!Latest, Polled!Tag, Polled!Numbered
<1> QED
  BY <1>1, <1>2

\* What a check, or a failure, leaves of the invariant: nothing was read.
LEMMA PolledNoRead ==
    ASSUME Polled!Bounds, Polled!IndInv,
           UNCHANGED <<kind, writes, present, seen, baseline, polledDelivered, untagged>>,
           polledAt' \in {"waiting", "reading", "ended", "stopped"},
           checked' \in 0 .. PolledWrites, checked' = 0 <=> polledAt' # "reading",
           polledAt' = "reading" => seen # 0 /\ checked' \in 1 .. Polled!Latest
                                    /\ (untagged \/ Polled!Held < checked'),
           polledAnswered' \in BOOLEAN, polledFailing' \in BOOLEAN,
           polledFaults' \in 0 .. PolledFaults,
           Polled!FailuresAreReported'
    PROVE  Polled!IndInv'
<1> USE DEF Polled!IndInv
<1>1. Polled!Held' = Polled!Held /\ Polled!Latest' = Polled!Latest
  BY DEF Polled!Held, Polled!Latest
<1>2. \A n : Polled!Tag(n)' = Polled!Tag(n)
  BY DEF Polled!Tag, Polled!Numbered
<1>3. Polled!TypeOK'
  BY <1>1, <1>2 DEF Polled!TypeOK, Polled!Position
<1>4. Polled!SeenIsHeld' /\ Polled!ReadIsDue' /\ Polled!OnlyS3OmitsTags'
  BY <1>1, <1>2 DEF Polled!SeenIsHeld, Polled!ReadIsDue, Polled!OnlyS3OmitsTags
<1>5. Polled!SeenWasHandedOver' /\ Polled!DeliveredOnce'
  BY <1>1, <1>2 DEF Polled!SeenWasHandedOver, Polled!DeliveredOnce
<1> QED
  BY <1>3, <1>4, <1>5

\* The check of a version: what moved since it was seen is newer than what is held.
LEMMA PolledCheck ==
    ASSUME Polled!Bounds, Polled!IndInv,
           Polled!CheckMoved \/ Polled!CheckUnchanged \/ Polled!PollUnchanged
    PROVE  Polled!IndInv'
<1> USE DEF Polled!IndInv
<1>0. /\ polledAt = "waiting" /\ checked = 0
      /\ Polled!Latest \in 1 .. PolledWrites /\ Polled!Latest \in 0 .. PolledWrites
      /\ polledFailing \in BOOLEAN /\ polledFaults \in 0 .. PolledFaults
  BY DEF Polled!TypeOK, Polled!Latest, Polled!Position, Polled!CheckMoved,
     Polled!CheckUnchanged, Polled!PollUnchanged, Polled!CheckAnswers, Polled!Polls
<1>1. CASE Polled!CheckMoved
  <2>1. untagged \/ Polled!Held < Polled!Latest
    <3>1. seen # 0 /\ Polled!Tag(Polled!Latest) # seen
      BY <1>1 DEF Polled!CheckMoved
    <3>2. Polled!Held \in 1 .. Polled!Latest /\ (untagged \/ seen = Polled!Tag(Polled!Held))
      BY <3>1 DEF Polled!SeenIsHeld
    <3> QED
      BY <1>0, <3>1, <3>2
  <2>2. /\ polledAt' = "reading" /\ checked' = Polled!Latest /\ polledAnswered' = TRUE
        /\ seen # 0
        /\ UNCHANGED <<kind, writes, present, seen, baseline, polledDelivered, untagged,
                       polledFailing, polledFaults>>
    BY <1>1 DEF Polled!CheckMoved, Polled!storeVars
  <2>3. Polled!FailuresAreReported'
    BY <2>2 DEF Polled!FailuresAreReported
  <2> QED
    BY <1>0, <2>1, <2>2, <2>3, PolledNoRead
<1>2. CASE Polled!CheckUnchanged \/ Polled!PollUnchanged
  <2>1. /\ polledAnswered' = TRUE
        /\ UNCHANGED <<kind, writes, present, polledAt, seen, checked, baseline,
                       polledDelivered, untagged, polledFailing, polledFaults>>
    BY <1>2 DEF Polled!CheckUnchanged, Polled!PollUnchanged, Polled!storeVars
  <2>2. Polled!FailuresAreReported'
    BY <2>1 DEF Polled!FailuresAreReported
  <2>3. 0 \in 0 .. PolledWrites
    BY DEF Polled!Bounds
  <2> QED
    BY <1>0, <2>1, <2>2, <2>3, PolledNoRead
<1> QED
  BY <1>1, <1>2

\* A request that fails, and the end of a watch.
LEMMA PolledFailsOrStops ==
    ASSUME Polled!Bounds, Polled!IndInv,
           Polled!CheckFails \/ Polled!CheckRefused \/ Polled!ReadFails \/ Polled!Stop
    PROVE  Polled!IndInv'
<1>1. /\ checked \in 0 .. PolledWrites /\ (checked = 0 <=> polledAt # "reading")
      /\ polledAnswered \in BOOLEAN /\ polledFailing \in BOOLEAN
      /\ polledFaults \in 0 .. PolledFaults /\ PolledFaults \in Nat /\ PolledWrites \in Nat
  BY DEF Polled!IndInv, Polled!TypeOK, Polled!Position, Polled!Bounds
<1>2. /\ UNCHANGED <<kind, writes, present, seen, baseline, polledDelivered, untagged>>
      /\ polledAt' \in {"waiting", "ended", "stopped"} /\ checked' = 0
  BY <1>1 DEF Polled!CheckFails, Polled!CheckRefused, Polled!ReadFails, Polled!Stop,
     Polled!storeVars
<1>3. /\ polledAnswered' \in BOOLEAN /\ polledFailing' \in BOOLEAN
      /\ Polled!FailuresAreReported'
  <2>1. CASE Polled!Stop
    BY <1>1, <2>1 DEF Polled!Stop, Polled!storeVars, Polled!IndInv, Polled!FailuresAreReported
  <2>2. CASE Polled!CheckFails \/ Polled!CheckRefused \/ Polled!ReadFails
    <3>1. /\ polledAnswered' = FALSE /\ kind' = kind
          /\ polledFailing' = (polledFailing \/ kind # "git")
      BY <2>2 DEF Polled!CheckFails, Polled!CheckRefused, Polled!ReadFails, Polled!Reported,
         Polled!storeVars
    <3> QED
      BY <3>1 DEF Polled!FailuresAreReported
  <2> QED
    BY <2>1, <2>2
<1>4. polledFaults' \in 0 .. PolledFaults
  BY <1>1 DEF Polled!CheckFails, Polled!CheckRefused, Polled!ReadFails, Polled!Stop,
     Polled!RequestFails, Polled!storeVars
<1> QED
  BY <1>1, <1>2, <1>3, <1>4, PolledNoRead

\* The first tick holds what it found.
LEMMA PolledFirst ==
    ASSUME Polled!Bounds, Polled!IndInv, Polled!FirstTick \/ Polled!PollFirst
    PROVE  Polled!IndInv'
<1> USE DEF Polled!IndInv
<1>1. /\ seen = 0 /\ seen' = Polled!Tag(Polled!Latest) /\ baseline' = Polled!Latest
      /\ polledAt = "waiting" /\ polledAnswered' = TRUE
      /\ UNCHANGED <<kind, writes, present, polledAt, checked, polledDelivered, untagged,
                     polledFailing, polledFaults>>
  BY DEF Polled!FirstTick, Polled!PollFirst, Polled!CheckAnswers, Polled!Polls,
     Polled!storeVars
<1>2. /\ Polled!Latest' = Polled!Latest /\ Polled!Latest \in 1 .. PolledWrites
      /\ \A n : Polled!Tag(n)' = Polled!Tag(n)
  BY <1>1 DEF Polled!Latest, Polled!Tag, Polled!Numbered, Polled!TypeOK
<1>3. seen' # 0
  BY <1>1, <1>2, Tags
<1>4. polledDelivered' = << >> /\ Polled!Held' = Polled!Latest
  BY <1>1 DEF Polled!SeenIsHeld, Polled!Held
<1>5. Polled!TypeOK'
  BY <1>1, <1>2, <1>3 DEF Polled!TypeOK, Polled!Position
<1>6. Polled!SeenIsHeld' /\ Polled!SeenWasHandedOver'
  BY <1>1, <1>2, <1>3, <1>4 DEF Polled!SeenIsHeld, Polled!SeenWasHandedOver
<1>7. Polled!ReadIsDue' /\ Polled!OnlyS3OmitsTags' /\ Polled!DeliveredOnce'
      /\ Polled!FailuresAreReported'
  BY <1>1, <1>4 DEF Polled!ReadIsDue, Polled!OnlyS3OmitsTags, Polled!DeliveredOnce,
     Polled!FailuresAreReported
<1> QED
  BY <1>5, <1>6, <1>7

\* What is read is handed over, and is newer than what was held.
LEMMA PolledReads ==
    ASSUME Polled!Bounds, Polled!IndInv, Polled!ReadAnswers \/ Polled!PollMoved
    PROVE  Polled!IndInv'
<1> USE DEF Polled!IndInv
<1>1. /\ seen # 0 /\ Polled!HandedOver /\ checked' = 0
      /\ UNCHANGED <<kind, writes, present, baseline, polledFaults>>
  BY DEF Polled!ReadAnswers, Polled!PollMoved, Polled!ReadIsDue, Polled!storeVars,
     Polled!TypeOK, Polled!Polls
<1>2. /\ polledDelivered' = Append(polledDelivered, Polled!Latest) /\ polledAnswered' = TRUE
      /\ polledAt' \in {"waiting", "ended"} /\ polledFailing' \in BOOLEAN
  BY <1>1 DEF Polled!HandedOver, Polled!TypeOK
<1>3. /\ Polled!Latest' = Polled!Latest /\ Polled!Latest \in 1 .. PolledWrites
      /\ \A n : Polled!Tag(n)' = Polled!Tag(n)
  BY <1>1 DEF Polled!Latest, Polled!Tag, Polled!Numbered, Polled!TypeOK
<1>4. /\ Polled!Held' = Polled!Latest
      /\ polledDelivered' \in Seq(1 .. PolledWrites)
  BY <1>2, <1>3, HeldIsLast DEF Polled!TypeOK
<1>5. /\ untagged' \in BOOLEAN /\ (untagged => untagged') /\ (untagged' => kind = "s3")
      /\ \/ seen' = Polled!Tag(Polled!Latest) /\ untagged' = untagged
         \/ /\ seen' = Polled!Tag(checked) /\ untagged' = TRUE
            /\ checked \in 1 .. Polled!Latest
  <2>1. CASE Polled!ReadAnswers
    <3>1. checked \in 1 .. Polled!Latest
      BY <2>1 DEF Polled!ReadAnswers, Polled!ReadIsDue
    <3>2. untagged \in BOOLEAN /\ (untagged => kind = "s3")
      BY DEF Polled!OnlyS3OmitsTags, Polled!TypeOK
    <3>3. CASE seen' = Polled!Tag(Polled!Latest) /\ UNCHANGED untagged
      BY <3>2, <3>3
    <3>4. CASE kind = "s3" /\ seen' = Polled!Tag(checked) /\ untagged' = TRUE
      BY <3>1, <3>2, <3>4
    <3> QED
      BY <2>1, <3>3, <3>4 DEF Polled!ReadAnswers
  <2>2. CASE Polled!PollMoved
    BY <2>2 DEF Polled!PollMoved, Polled!OnlyS3OmitsTags, Polled!TypeOK
  <2> QED
    BY <2>1, <2>2
<1>6. Polled!Held < Polled!Latest \/ (untagged' /\ Polled!Held = Polled!Latest)
  <2>1. Polled!Held \in 1 .. Polled!Latest /\ (untagged \/ seen = Polled!Tag(Polled!Held))
    BY <1>1 DEF Polled!SeenIsHeld
  <2>2. CASE Polled!ReadAnswers
    <3>1. checked \in 1 .. Polled!Latest /\ (untagged \/ Polled!Held < checked)
      BY <2>2 DEF Polled!ReadAnswers, Polled!ReadIsDue
    <3> QED
      BY <1>3, <1>5, <2>1, <3>1
  <2>3. CASE Polled!PollMoved
    <3>1. ~untagged /\ Polled!Tag(Polled!Latest) # seen
      BY <2>3 DEF Polled!PollMoved, Polled!Polls, Polled!OnlyS3OmitsTags
    <3> QED
      BY <1>3, <2>1, <3>1
  <2> QED
    BY <2>2, <2>3
<1>7. seen' # 0 /\ \E n \in 1 .. Polled!Latest : Polled!Tag(n) = seen'
  BY <1>3, <1>5, Tags
<1>8. Polled!DeliveredOnce'
  BY <1>1, <1>2, <1>3, <1>5, <1>6, HeldIsLast DEF Polled!TypeOK
<1>9. Polled!TypeOK'
  <2>1. seen' \in {0} \cup {Polled!Tag(n)' : n \in 1 .. Polled!Latest'}
    BY <1>3, <1>7
  <2>2. /\ kind' \in PolledKinds /\ present' \in BOOLEAN
        /\ writes' \in Seq(Contents) /\ Len(writes') \in 1 .. PolledWrites
    BY <1>1 DEF Polled!TypeOK
  <2>3. /\ baseline' \in 0 .. PolledWrites /\ (baseline' = 0 <=> seen' = 0)
        /\ polledFaults' \in 0 .. PolledFaults
    BY <1>1, <1>7 DEF Polled!TypeOK, Polled!Position
  <2>4. 0 \in 0 .. PolledWrites
    BY DEF Polled!Bounds
  <2> QED
    BY <1>1, <1>2, <1>4, <1>5, <2>1, <2>2, <2>3, <2>4 DEF Polled!TypeOK, Polled!Position
<1>10. Polled!SeenIsHeld' /\ Polled!SeenWasHandedOver'
  BY <1>3, <1>4, <1>5, <1>7 DEF Polled!SeenIsHeld, Polled!SeenWasHandedOver
<1>11. Polled!ReadIsDue' /\ Polled!OnlyS3OmitsTags' /\ Polled!FailuresAreReported'
  BY <1>1, <1>2, <1>5 DEF Polled!ReadIsDue, Polled!OnlyS3OmitsTags,
     Polled!FailuresAreReported
<1> QED
  BY <1>8, <1>9, <1>10, <1>11

\* No step of a polling watch, or of its store, disturbs the invariant.
LEMMA PolledNext ==
    Polled!Bounds /\ Polled!IndInv /\ [Polled!Next]_(Polled!vars) => Polled!IndInv'
<1> SUFFICES ASSUME Polled!Bounds, Polled!IndInv, [Polled!Next]_(Polled!vars)
             PROVE  Polled!IndInv'
  OBVIOUS
<1>1. CASE Polled!Write \/ Polled!Delete
  BY <1>1, PolledStore
<1>2. CASE Polled!CheckMoved \/ Polled!CheckUnchanged \/ Polled!PollUnchanged
  BY <1>2, PolledCheck
<1>3. CASE Polled!CheckFails \/ Polled!CheckRefused \/ Polled!ReadFails \/ Polled!Stop
  BY <1>3, PolledFailsOrStops
<1>4. CASE Polled!FirstTick \/ Polled!PollFirst
  BY <1>4, PolledFirst
<1>5. CASE Polled!ReadAnswers \/ Polled!PollMoved
  BY <1>5, PolledReads
<1>6. CASE UNCHANGED Polled!vars
  BY <1>6 DEF Polled!vars, Polled!storeVars, Polled!IndInv, Polled!TypeOK,
     Polled!SeenIsHeld, Polled!ReadIsDue, Polled!OnlyS3OmitsTags, Polled!SeenWasHandedOver,
     Polled!DeliveredOnce, Polled!FailuresAreReported, Polled!Held, Polled!Latest,
     Polled!Tag, Polled!Numbered
<1> QED
  BY <1>1, <1>2, <1>3, <1>4, <1>5, <1>6
     DEF Polled!Next, Polled!Tick, Polled!Check, Polled!Poll

\* The invariant always holds.
LEMMA PolledInv == Polled!Bounds => (Polled!Spec => []Polled!IndInv)
<1> SUFFICES ASSUME Polled!Bounds PROVE Polled!Spec => []Polled!IndInv
  OBVIOUS
<1>1. Polled!Init => Polled!IndInv
  BY PolledInit
<1>2. Polled!IndInv /\ [Polled!Next]_(Polled!vars) => Polled!IndInv'
  BY PolledNext
<1> QED
  BY <1>1, <1>2, PTL DEF Polled!Spec

\* A history that gets longer.
LEMMA LongerHistory ==
    ASSUME NEW S, NEW h \in Seq(S), NEW x \in S
    PROVE  /\ Append(h, x) \in Seq(S) /\ Len(Append(h, x)) = Len(h) + 1 /\ Len(h) \in Nat
           /\ \A i \in 1 .. Len(h) : Append(h, x)[i] = h[i]
           /\ Append(h, x)[Len(h) + 1] = x /\ Append(h, x) # << >>
<1> DEFINE longer == Append(h, x)
<1>1. /\ longer \in Seq(S) /\ Len(longer) = Len(h) + 1 /\ Len(h) \in Nat
      /\ \A i \in 1 .. Len(h) : longer[i] = h[i]
      /\ longer[Len(h) + 1] = x
  OBVIOUS
<1>2. Len(longer) # 0 => longer # << >>
  OBVIOUS
<1> HIDE DEF longer
<1>3. longer # << >>
  BY <1>1, <1>2
<1> QED
  BY <1>1, <1>3 DEF longer

-----------------------------------------------------------------------------
(* The blocking queries of Consul.                                          *)

\* What the types say of the answer in hand.
LEMMA ConsulTypes ==
    ASSUME Consul!Bounds, Consul!TypeOK
    PROVE  /\ Consul!Latest \in 1 .. ConsulWrites /\ ConsulWrites \in Nat
           /\ Len(states) \in Nat /\ agent_index \in Nat /\ restarts \in Nat /\ index \in Nat
           /\ answer.index \in 0 .. ConsulWrites /\ answer.state \in 0 .. ConsulWrites
           /\ answer.life \in 0 .. MaxRestarts
           /\ \A i \in 1 .. Len(consulDelivered) : consulDelivered[i] \in Consul!Answers
           /\ Len(consulDelivered) \in Nat
           /\ \A d \in Consul!Answers :
                 d.index \in 0 .. ConsulWrites /\ d.state \in 0 .. ConsulWrites
                 /\ d.life \in 0 .. MaxRestarts
<1>1. \A d \in Consul!Answers :
         d.index \in 0 .. ConsulWrites /\ d.state \in 0 .. ConsulWrites
         /\ d.life \in 0 .. MaxRestarts
  BY DEF Consul!Answers
<1>2. consulDelivered \in Seq(Consul!Answers) /\ answer \in Consul!Answers
  BY DEF Consul!TypeOK
<1>3. /\ Len(consulDelivered) \in Nat
      /\ \A i \in 1 .. Len(consulDelivered) : consulDelivered[i] \in Consul!Answers
  BY <1>2
<1>4. /\ Consul!Latest \in 1 .. ConsulWrites /\ ConsulWrites \in Nat /\ Len(states) \in Nat
      /\ agent_index \in Nat /\ restarts \in Nat /\ index \in Nat
  BY DEF Consul!Bounds, Consul!TypeOK, Consul!Latest
<1> QED
  BY <1>1, <1>2, <1>3, <1>4

\* What is counted of the last delivery.
LEMMA LastDelivery ==
    ASSUME Consul!Bounds, Consul!TypeOK, Consul!DeliveryIsCounted, consulDelivered # << >>
    PROVE  LET d == consulDelivered[Len(consulDelivered)] IN
           /\ d.index \in Nat /\ d.state \in Nat /\ d.life \in Nat /\ d.life <= restarts
           /\ d.life = restarts =>
                  d.index + (Consul!Latest - d.state) <= agent_index /\ index <= agent_index
<1> DEFINE d == consulDelivered[Len(consulDelivered)]
<1>1. d \in Consul!Answers
  BY DEF Consul!TypeOK
<1>2. d.index \in Nat /\ d.state \in Nat /\ d.life \in Nat
  BY <1>1, ConsulTypes DEF Consul!Bounds
<1>3. /\ d.life <= restarts
      /\ d.life = restarts =>
             d.index + (Consul!Latest - d.state) <= agent_index /\ index <= agent_index
  BY DEF Consul!DeliveryIsCounted
<1> QED
  BY <1>2, <1>3

\* A loop that has not asked.
LEMMA ConsulInit == Consul!Bounds /\ Consul!Init => Consul!IndInv
<1> SUFFICES ASSUME Consul!Bounds, Consul!Init PROVE Consul!IndInv
  OBVIOUS
<1>1. PICK s \in Documents \cup Consul!Unusable : states = <<s>>
  BY DEF Consul!Init
<1>2. states \in Seq(Documents \cup Consul!Unusable) /\ Consul!Latest = 1
  BY <1>1 DEF Consul!Latest
<1>3. ConsulWrites \in Nat \ {0} /\ MaxRestarts \in Nat /\ ConsulFaults \in Nat
  BY DEF Consul!Bounds
<1>4. Consul!NoAnswer \in Consul!Answers
  BY <1>3 DEF Consul!NoAnswer, Consul!Answers
<1>5. consulDelivered = << >> /\ priming = TRUE /\ last = Consul!None /\ consulAt = "querying"
  BY DEF Consul!Init
<1>6. Consul!TypeOK
  <2>1. /\ consulShape \in ConsulShapes /\ agent_index = 1 /\ restarts = 0 /\ index = 0
        /\ answer = Consul!NoAnswer /\ consulBaseline = 0 /\ consulFaults = 0
        /\ consulAnswered \in BOOLEAN /\ consulFailing \in BOOLEAN
    BY DEF Consul!Init
  <2>2. 0 \in 0 .. ConsulWrites /\ 1 \in 1 .. ConsulWrites /\ 0 \in 0 .. MaxRestarts
        /\ 0 \in 0 .. ConsulFaults
    BY <1>3
  <2> QED
    BY <1>2, <1>4, <1>5, <2>1, <2>2 DEF Consul!TypeOK
<1> QED
  BY <1>2, <1>5, <1>6 DEF Consul!Init, Consul!IndInv, Consul!HeldIsPast, Consul!IndexCounts,
     Consul!DeliveryIsCounted, Consul!LastIsHeld, Consul!DeliveredForward,
     Consul!FailuresAreReported

\* A write is counted, and what was held stays where it was.
LEMMA ConsulWrite ==
    ASSUME Consul!Bounds, Consul!IndInv, Consul!Write PROVE Consul!IndInv'
<1> USE DEF Consul!IndInv
<1>1. PICK s \in Documents \cup Consul!Unusable : states' = Append(states, s)
  BY DEF Consul!Write
<1>2. /\ Consul!Latest < ConsulWrites /\ agent_index' = agent_index + 1
      /\ UNCHANGED <<consulShape, restarts, consulAt, answer, index, last, priming,
                     consulBaseline, consulDelivered, consulAnswered, consulFailing,
                     consulFaults>>
  BY DEF Consul!Write
<1>3. /\ states' \in Seq(Documents \cup Consul!Unusable)
      /\ Consul!Latest' = Consul!Latest + 1 /\ Consul!Latest \in Nat
      /\ \A n \in 1 .. Consul!Latest : states'[n] = states[n]
  BY <1>1 DEF Consul!TypeOK, Consul!Latest
<1>4. Consul!Held' = Consul!Held
  BY <1>2 DEF Consul!Held
<1>5. Consul!TypeOK'
  <2>1. agent_index' \in 1 .. ConsulWrites
    BY <1>2, <1>3, ConsulTypes DEF Consul!IndexCounts, Consul!TypeOK
  <2>2. Consul!Latest' \in 1 .. ConsulWrites
    BY <1>2, <1>3, ConsulTypes
  <2> QED
    BY <1>2, <1>3, <2>1, <2>2 DEF Consul!TypeOK
<1>6. Consul!HeldIsPast'
  BY <1>2, <1>3, <1>4 DEF Consul!HeldIsPast
<1>7. Consul!IndexCounts'
  <2>1. /\ agent_index \in Nat /\ answer.index \in Nat /\ answer.state \in Nat
    BY ConsulTypes
  <2> QED
    BY <1>2, <1>3, <2>1 DEF Consul!IndexCounts
<1>8. Consul!DeliveryIsCounted'
  <2> SUFFICES ASSUME consulDelivered # << >>
               PROVE  LET d == consulDelivered[Len(consulDelivered)] IN
                      d.life = restarts =>
                          d.index + (Consul!Latest' - d.state) <= agent_index'
                          /\ index <= agent_index'
    BY <1>2 DEF Consul!DeliveryIsCounted
  <2> DEFINE d == consulDelivered[Len(consulDelivered)]
  <2>1. /\ d.index \in Nat /\ d.state \in Nat /\ agent_index \in Nat /\ index \in Nat
        /\ d.life = restarts =>
               d.index + (Consul!Latest - d.state) <= agent_index /\ index <= agent_index
    BY LastDelivery, ConsulTypes
  <2> HIDE DEF d
  <2>2. /\ Consul!Latest' = Consul!Latest + 1 /\ Consul!Latest \in Nat
        /\ agent_index' = agent_index + 1
    BY <1>2, <1>3
  <2>3. d.life = restarts =>
            d.index + (Consul!Latest' - d.state) <= agent_index' /\ index <= agent_index'
    BY <2>1, <2>2
  <2> QED
    BY <2>3 DEF d
<1>9. Consul!LastIsHeld'
  BY <1>2, <1>3, <1>4 DEF Consul!LastIsHeld, Consul!HeldIsPast
<1>10. Consul!DeliveredForward' /\ Consul!FailuresAreReported'
  BY <1>2 DEF Consul!DeliveredForward, Consul!FailuresAreReported
<1> QED
  BY <1>5, <1>6, <1>7, <1>8, <1>9, <1>10

\* An agent that restarts begins another life.
LEMMA ConsulRestart ==
    ASSUME Consul!Bounds, Consul!IndInv, Consul!Restart PROVE Consul!IndInv'
<1> USE DEF Consul!IndInv
<1>1. /\ restarts < MaxRestarts /\ restarts' = restarts + 1 /\ agent_index' = 1
      /\ UNCHANGED <<consulShape, states, consulAt, answer, index, last, priming,
                     consulBaseline, consulDelivered, consulAnswered, consulFailing,
                     consulFaults>>
  BY DEF Consul!Restart
<1>2. Consul!Latest' = Consul!Latest /\ Consul!Held' = Consul!Held
  BY <1>1 DEF Consul!Latest, Consul!Held
<1>3. Consul!TypeOK'
  BY <1>1, <1>2, ConsulTypes DEF Consul!TypeOK, Consul!Bounds
<1>4. Consul!HeldIsPast' /\ Consul!LastIsHeld'
  BY <1>1, <1>2 DEF Consul!HeldIsPast, Consul!LastIsHeld
<1>5. Consul!IndexCounts'
  BY <1>1, <1>2, ConsulTypes DEF Consul!IndexCounts
<1>6. Consul!DeliveryIsCounted'
  <2> SUFFICES ASSUME consulDelivered # << >>
               PROVE  LET d == consulDelivered[Len(consulDelivered)] IN
                      d.life <= restarts' /\ d.life # restarts'
    BY <1>1, <1>2 DEF Consul!DeliveryIsCounted
  <2> DEFINE d == consulDelivered[Len(consulDelivered)]
  <2>1. d.life \in Nat /\ d.life <= restarts /\ restarts \in Nat
    BY LastDelivery, ConsulTypes
  <2> HIDE DEF d
  <2>2. d.life <= restarts' /\ d.life # restarts'
    BY <1>1, <2>1
  <2> QED
    BY <2>2 DEF d
<1>7. Consul!DeliveredForward' /\ Consul!FailuresAreReported'
  BY <1>1 DEF Consul!DeliveredForward, Consul!FailuresAreReported
<1> QED
  BY <1>3, <1>4, <1>5, <1>6, <1>7

\* An answer shows the newest state, and its index counts that one.
LEMMA ConsulAnswer ==
    ASSUME Consul!Bounds, Consul!IndInv, Consul!Answer PROVE Consul!IndInv'
<1> USE DEF Consul!IndInv
<1>1. /\ consulAt = "querying" /\ consulAt' = "answered"
      /\ answer' = [index |-> agent_index, state |-> Consul!Latest, life |-> restarts]
      /\ UNCHANGED <<consulShape, states, agent_index, restarts, index, last, priming,
                     consulBaseline, consulDelivered, consulAnswered, consulFailing,
                     consulFaults>>
  BY DEF Consul!Answer, Consul!storeVars
<1>2. Consul!Latest' = Consul!Latest /\ Consul!Held' = Consul!Held
  BY <1>1 DEF Consul!Latest, Consul!Held
<1>3. /\ answer'.index = agent_index /\ answer'.state = Consul!Latest
      /\ answer'.life = restarts
  BY <1>1
<1>4. Consul!TypeOK'
  <2>1. answer' \in Consul!Answers /\ answer' # Consul!NoAnswer
    BY <1>1, <1>3, ConsulTypes DEF Consul!TypeOK, Consul!Answers, Consul!NoAnswer
  <2> QED
    BY <1>1, <1>2, <2>1 DEF Consul!TypeOK
<1>5. Consul!HeldIsPast' /\ Consul!LastIsHeld'
  <2>1. Consul!Held <= Consul!Latest
    BY ConsulTypes DEF Consul!HeldIsPast, Consul!Held, Consul!TypeOK
  <2> QED
    BY <1>1, <1>2, <1>3, <2>1, ConsulTypes DEF Consul!HeldIsPast, Consul!LastIsHeld
<1>6. Consul!IndexCounts'
  BY <1>1, <1>2, <1>3, ConsulTypes DEF Consul!IndexCounts, Consul!TypeOK
<1>7. Consul!DeliveryIsCounted'
  BY <1>1, <1>2, <1>3 DEF Consul!DeliveryIsCounted
<1>8. Consul!DeliveredForward' /\ Consul!FailuresAreReported'
  BY <1>1 DEF Consul!DeliveredForward, Consul!FailuresAreReported
<1> QED
  BY <1>4, <1>5, <1>6, <1>7, <1>8

\* A query that fails, and the end of a watch, between two answers.
LEMMA ConsulFailsOrStops ==
    ASSUME Consul!Bounds, Consul!IndInv, Consul!QueryFails \/ Consul!Stop
    PROVE  Consul!IndInv'
<1> USE DEF Consul!IndInv
<1>1. /\ consulAt = "querying" /\ consulAt' \in {"querying", "stopped"}
      /\ UNCHANGED <<consulShape, states, agent_index, restarts, answer, index, last,
                     priming, consulBaseline, consulDelivered>>
      /\ consulFaults' \in 0 .. ConsulFaults
      /\ consulAnswered' \in BOOLEAN /\ consulFailing' \in BOOLEAN
  <2>0. /\ consulFaults \in 0 .. ConsulFaults /\ ConsulFaults \in Nat
        /\ consulAnswered \in BOOLEAN /\ consulFailing \in BOOLEAN
    BY DEF Consul!TypeOK, Consul!Bounds
  <2>1. CASE Consul!QueryFails
    <3>1. consulFaults' = consulFaults
          \/ (consulFaults < ConsulFaults /\ consulFaults' = consulFaults + 1)
      BY <2>1 DEF Consul!QueryFails, Consul!QueryMayFail
    <3>2. consulFaults' \in 0 .. ConsulFaults
      BY <2>0, <3>1
    <3> QED
      BY <2>1, <3>2 DEF Consul!QueryFails, Consul!storeVars
  <2>2. CASE Consul!Stop
    BY <2>0, <2>2 DEF Consul!Stop, Consul!storeVars
  <2> QED
    BY <2>1, <2>2
<1>2. Consul!Latest' = Consul!Latest /\ Consul!Held' = Consul!Held
  BY <1>1 DEF Consul!Latest, Consul!Held
<1>3. Consul!FailuresAreReported'
  BY DEF Consul!QueryFails, Consul!Stop, Consul!FailuresAreReported
<1>4. Consul!TypeOK'
  BY <1>1, <1>2 DEF Consul!TypeOK
<1>5. Consul!HeldIsPast' /\ Consul!IndexCounts' /\ Consul!DeliveryIsCounted'
  BY <1>1, <1>2 DEF Consul!HeldIsPast, Consul!IndexCounts, Consul!DeliveryIsCounted
<1>6. Consul!LastIsHeld' /\ Consul!DeliveredForward'
  BY <1>1, <1>2 DEF Consul!LastIsHeld, Consul!DeliveredForward
<1> QED
  BY <1>3, <1>4, <1>5, <1>6

\* What an answer does to the next query, whatever it holds.
LEMMA ConsulAsksOn ==
    ASSUME Consul!Bounds, Consul!IndInv, Consul!Answered,
           consulAt' \in {"querying", "ended"}
    PROVE  /\ UNCHANGED <<consulShape, states, agent_index, restarts, consulFaults>>
           /\ Consul!Latest' = Consul!Latest
           /\ answer' = Consul!NoAnswer /\ Consul!NoAnswer \in Consul!Answers
           /\ index' \in 0 .. ConsulWrites /\ index' <= answer.index
           /\ index <= answer.index => index' = answer.index
           /\ answer.state \in 1 .. Consul!Latest /\ Consul!Held <= answer.state
           /\ answer.index >= 1 /\ answer.life <= restarts
           /\ Consul!IndexCounts'
<1> USE DEF Consul!IndInv
<1>1. /\ consulAt = "answered" /\ answer' = Consul!NoAnswer
      /\ index' = IF answer.index < index THEN 0 ELSE answer.index
      /\ UNCHANGED <<consulShape, states, agent_index, restarts, consulFaults>>
  BY DEF Consul!Answered, Consul!storeVars
<1>2. Consul!NoAnswer \in Consul!Answers
  BY DEF Consul!NoAnswer, Consul!Answers, Consul!Bounds
<1>3. Consul!Latest' = Consul!Latest
  BY <1>1 DEF Consul!Latest
<1>4. Consul!IndexCounts'
  BY <1>1, <1>3 DEF Consul!IndexCounts
<1>5. index' \in 0 .. ConsulWrites /\ index' <= answer.index
      /\ (index <= answer.index => index' = answer.index)
  BY <1>1, ConsulTypes
<1> QED
  BY <1>1, <1>2, <1>3, <1>4, <1>5 DEF Consul!HeldIsPast, Consul!IndexCounts

\* An answer that brings nothing new.
LEMMA ConsulFoundNothing ==
    ASSUME Consul!Bounds, Consul!IndInv,
           Consul!FoldFails \/ Consul!FoundNothing \/ Consul!Unchanged
    PROVE  Consul!IndInv'
<1> USE DEF Consul!IndInv
<1>1. /\ Consul!Answered /\ consulAt' \in {"querying", "ended"}
      /\ UNCHANGED <<last, priming, consulBaseline, consulDelivered>>
      /\ consulAnswered' \in BOOLEAN /\ consulFailing' \in BOOLEAN
      /\ Consul!FailuresAreReported'
  BY DEF Consul!FoldFails, Consul!FoundNothing, Consul!Unchanged, Consul!FailuresAreReported,
     Consul!TypeOK
<1>2. Consul!Held' = Consul!Held
  BY <1>1 DEF Consul!Held
<1>3. Consul!TypeOK'
  BY <1>1, ConsulAsksOn DEF Consul!TypeOK
<1>4. Consul!HeldIsPast' /\ Consul!LastIsHeld'
  BY <1>1, <1>2, ConsulAsksOn DEF Consul!HeldIsPast, Consul!LastIsHeld
<1>5. Consul!DeliveryIsCounted'
  <2> SUFFICES ASSUME consulDelivered # << >>
               PROVE  LET d == consulDelivered[Len(consulDelivered)] IN
                      /\ d.life <= restarts
                      /\ d.life = restarts =>
                             d.index + (Consul!Latest - d.state) <= agent_index
                             /\ index' <= agent_index
    BY <1>1, ConsulAsksOn DEF Consul!DeliveryIsCounted
  <2> DEFINE d == consulDelivered[Len(consulDelivered)]
  <2>1. d \in Consul!Answers /\ consulAt = "answered"
    BY <1>1 DEF Consul!TypeOK, Consul!Answered
  <2>2. /\ d.life \in Nat /\ d.life <= restarts
        /\ d.life = restarts => d.index + (Consul!Latest - d.state) <= agent_index
    BY LastDelivery
  <2>3. d.life = restarts => index' <= agent_index
    <3> SUFFICES ASSUME d.life = restarts PROVE index' <= agent_index
      OBVIOUS
    <3>1. answer.life = restarts
      <4>1. d.life <= answer.life /\ answer.life <= restarts
        BY <2>1 DEF Consul!DeliveryIsCounted, Consul!IndexCounts
      <4>2. answer.life \in Nat /\ restarts \in Nat
        BY ConsulTypes DEF Consul!Bounds
      <4> QED
        BY <4>1, <4>2
    <3>2. answer.index <= agent_index
      <4>1. /\ answer.index + (Consul!Latest - answer.state) <= agent_index
            /\ answer.state \in 1 .. Consul!Latest
        BY <2>1, <3>1 DEF Consul!IndexCounts, Consul!HeldIsPast
      <4>2. /\ answer.index \in Nat /\ Consul!Latest \in Nat /\ agent_index \in Nat
            /\ answer.state \in Nat
        BY ConsulTypes
      <4> QED
        BY <4>1, <4>2
    <3> QED
      BY <1>1, <3>2, ConsulAsksOn, ConsulTypes
  <2> QED
    BY <2>2, <2>3
<1>6. Consul!DeliveredForward'
  BY <1>1 DEF Consul!DeliveredForward
<1> QED
  BY <1>1, <1>3, <1>4, <1>5, <1>6, ConsulAsksOn

\* The first document is the one that is held.
LEMMA ConsulPrimed ==
    ASSUME Consul!Bounds, Consul!IndInv, Consul!Primed PROVE Consul!IndInv'
<1> USE DEF Consul!IndInv
<1>1. /\ Consul!Answered /\ consulAt' = "querying" /\ priming /\ priming' = FALSE
      /\ last' = states[answer.state] /\ last' \in Documents /\ consulBaseline' = answer.state
      /\ consulAnswered' = TRUE /\ UNCHANGED <<consulDelivered, consulFailing>>
  BY DEF Consul!Primed, Consul!Found
<1>2. consulDelivered = << >> /\ Consul!Held' = answer.state
  BY <1>1 DEF Consul!HeldIsPast, Consul!Held
<1>3. answer.state \in 1 .. Consul!Latest /\ answer.state \in 0 .. ConsulWrites
  BY <1>1, ConsulAsksOn, ConsulTypes
<1>4. Consul!TypeOK'
  <2>1. /\ last' \in Documents \cup {Consul!None} /\ priming' \in BOOLEAN
        /\ consulBaseline' \in 0 .. ConsulWrites /\ consulBaseline' # 0 /\ ~priming'
        /\ consulAnswered' \in BOOLEAN /\ consulFailing' \in BOOLEAN
    <3>1. answer.state # 0
      BY <1>3
    <3>2. consulFailing \in BOOLEAN
      BY DEF Consul!TypeOK
    <3> QED
      BY <1>1, <1>3, <3>1, <3>2
  <2>2. /\ UNCHANGED <<consulShape, states, agent_index, restarts, consulFaults>>
        /\ Consul!Latest' = Consul!Latest
        /\ answer' = Consul!NoAnswer /\ answer' \in Consul!Answers
        /\ index' \in 0 .. ConsulWrites
    BY <1>1, ConsulAsksOn
  <2> QED
    BY <1>1, <2>1, <2>2 DEF Consul!TypeOK
<1>5. Consul!HeldIsPast' /\ Consul!LastIsHeld'
  BY <1>1, <1>2, <1>3, ConsulAsksOn DEF Consul!HeldIsPast, Consul!LastIsHeld
<1>6. Consul!DeliveryIsCounted' /\ Consul!DeliveredForward' /\ Consul!FailuresAreReported'
  BY <1>1, <1>2 DEF Consul!DeliveryIsCounted, Consul!DeliveredForward,
     Consul!FailuresAreReported
<1> QED
  BY <1>1, <1>4, <1>5, <1>6, ConsulAsksOn

\* A document other than the one held is of a later state, and in the same life of the
\* agent of a greater index.
LEMMA ConsulHandsOver ==
    ASSUME Consul!Bounds, Consul!IndInv, Consul!HandedOver PROVE Consul!IndInv'
<1> USE DEF Consul!IndInv
<1> DEFINE new == [answer EXCEPT !.index = index']
           d == consulDelivered[Len(consulDelivered)]
<1>1. /\ Consul!Answered /\ consulAt = "answered" /\ consulAt' \in {"querying", "ended"}
      /\ ~priming /\ states[answer.state] # last /\ last' = states[answer.state]
      /\ last' \in Documents /\ consulDelivered' = Append(consulDelivered, new)
      /\ consulAnswered' = TRUE /\ consulFailing' \in BOOLEAN
      /\ UNCHANGED <<priming, consulBaseline>>
  BY DEF Consul!HandedOver, Consul!Found, Consul!Answered, Consul!TypeOK
<1>2. /\ new \in Consul!Answers /\ new.index = index' /\ new.state = answer.state
      /\ new.life = answer.life
  <2>1. answer \in Consul!Answers /\ index' \in 0 .. ConsulWrites
    BY <1>1, ConsulAsksOn DEF Consul!TypeOK
  <2> QED
    BY <2>1 DEF Consul!Answers
<1>3. /\ consulDelivered' \in Seq(Consul!Answers)
      /\ Len(consulDelivered') = Len(consulDelivered) + 1 /\ Len(consulDelivered) \in Nat
      /\ consulDelivered'[Len(consulDelivered')] = new
      /\ \A i \in 1 .. Len(consulDelivered) : consulDelivered'[i] = consulDelivered[i]
      /\ consulDelivered' # << >>
  <2> HIDE DEF new
  <2>1. consulDelivered \in Seq(Consul!Answers)
    BY DEF Consul!TypeOK
  <2> DEFINE longer == Append(consulDelivered, new)
  <2>2. /\ longer \in Seq(Consul!Answers)
        /\ Len(longer) = Len(consulDelivered) + 1 /\ Len(consulDelivered) \in Nat
        /\ \A i \in 1 .. Len(consulDelivered) : longer[i] = consulDelivered[i]
        /\ longer[Len(consulDelivered) + 1] = new /\ longer # << >>
    BY <1>2, <2>1, LongerHistory
  <2>3. consulDelivered' = longer
    BY <1>1
  <2> HIDE DEF longer
  <2> QED
    BY <2>2, <2>3
<1>4. Consul!Held < answer.state /\ Consul!Held \in Nat
  <2>1. /\ Consul!Held \in 1 .. Consul!Latest /\ last = states[Consul!Held]
        /\ Consul!Held <= answer.state
    BY <1>1 DEF Consul!HeldIsPast, Consul!LastIsHeld
  <2> QED
    BY <1>1, <2>1, ConsulTypes
<1>5. Consul!Held' = answer.state
  BY <1>2, <1>3 DEF Consul!Held
<1>6. Consul!TypeOK'
  <2> HIDE DEF new
  <2> QED
    BY <1>1, <1>3, ConsulAsksOn DEF Consul!TypeOK
<1>7. Consul!HeldIsPast' /\ Consul!LastIsHeld'
  BY <1>1, <1>3, <1>5, ConsulAsksOn DEF Consul!HeldIsPast, Consul!LastIsHeld
<1>8. Consul!DeliveryIsCounted'
  <2>1. new.life <= restarts
    BY <1>1, <1>2, ConsulAsksOn
  <2>2. new.life = restarts =>
            new.index + (Consul!Latest - new.state) <= agent_index /\ index' <= agent_index
    <3>1. /\ index' \in Nat /\ answer.index \in Nat /\ answer.state \in Nat
          /\ Consul!Latest \in Nat /\ agent_index \in Nat /\ index' <= answer.index
          /\ answer.state <= Consul!Latest
      BY <1>1, ConsulAsksOn, ConsulTypes
    <3>2. answer.life = restarts =>
              answer.index + (Consul!Latest - answer.state) <= agent_index
      BY <1>1 DEF Consul!IndexCounts
    <3> HIDE DEF new
    <3> QED
      BY <1>2, <3>1, <3>2
  <2> HIDE DEF new
  <2> QED
    BY <1>1, <1>3, <2>1, <2>2, ConsulAsksOn DEF Consul!DeliveryIsCounted
<1>9. consulDelivered # << >> /\ d.life = new.life => new.index > d.index
  <2> SUFFICES ASSUME consulDelivered # << >>, d.life = answer.life PROVE index' > d.index
    BY <1>2
  <2>1. d \in Consul!Answers /\ d.state = Consul!Held
    BY <1>3 DEF Consul!TypeOK, Consul!Held
  <2>2. index <= answer.index /\ d.index + (answer.state - d.state) <= answer.index
    BY <1>1 DEF Consul!DeliveryIsCounted
  <2>4. /\ d.index \in Nat /\ d.state \in Nat /\ answer.state \in Nat /\ answer.index \in Nat
        /\ index \in Nat
    BY <2>1, ConsulTypes
  <2>3. index' = answer.index
    <3>1. index <= answer.index => index' = answer.index
      BY <1>1, ConsulAsksOn
    <3> HIDE DEF d
    <3> QED
      BY <2>2, <3>1
  <2> HIDE DEF d
  <2> QED
    BY <1>4, <2>1, <2>2, <2>3, <2>4
<1>10. Consul!DeliveredForward'
  <2> SUFFICES ASSUME NEW i \in 1 .. Len(consulDelivered) + 1
               PROVE  /\ consulDelivered'[i].state
                           > (IF i = 1 THEN consulBaseline ELSE consulDelivered'[i - 1].state)
                      /\ i > 1 /\ consulDelivered'[i].life = consulDelivered'[i - 1].life
                           => consulDelivered'[i].index > consulDelivered'[i - 1].index
    BY <1>1, <1>3 DEF Consul!DeliveredForward
  <2>1. CASE i \in 1 .. Len(consulDelivered)
    BY <1>3, <2>1 DEF Consul!DeliveredForward
  <2>2. CASE i = Len(consulDelivered) + 1
    <3>1. CASE consulDelivered = << >>
      <4>1. i = 1 /\ consulDelivered'[i] = new /\ Consul!Held = consulBaseline
        BY <1>3, <2>2, <3>1 DEF Consul!Held
      <4> HIDE DEF new
      <4> QED
        BY <1>2, <1>4, <4>1
    <3>2. CASE consulDelivered # << >>
      <4>1. i > 1 /\ consulDelivered'[i - 1] = d /\ consulDelivered'[i] = new
        <5>1. Len(consulDelivered) > 0
          BY <3>2 DEF Consul!TypeOK
        <5> HIDE DEF new
        <5> QED
          BY <1>3, <2>2, <5>1
      <4>2. new.state > d.state
        BY <1>2, <1>4, <3>2 DEF Consul!Held
      <4> HIDE DEF new, d
      <4> QED
        BY <1>9, <3>2, <4>1, <4>2
    <3> QED
      BY <3>1, <3>2
  <2> QED
    BY <2>1, <2>2
<1>11. Consul!FailuresAreReported'
  BY <1>1 DEF Consul!FailuresAreReported
<1> QED
  BY <1>1, <1>6, <1>7, <1>8, <1>10, <1>11, ConsulAsksOn

\* No step of Consul's watch, or of the agent, disturbs the invariant.
LEMMA ConsulNext ==
    Consul!Bounds /\ Consul!IndInv /\ [Consul!Next]_(Consul!vars) => Consul!IndInv'
<1> SUFFICES ASSUME Consul!Bounds, Consul!IndInv, [Consul!Next]_(Consul!vars)
             PROVE  Consul!IndInv'
  OBVIOUS
<1>1. CASE Consul!Write \/ Consul!Restart
  BY <1>1, ConsulWrite, ConsulRestart
<1>2. CASE Consul!Answer
  BY <1>2, ConsulAnswer
<1>3. CASE Consul!QueryFails \/ Consul!Stop
  BY <1>3, ConsulFailsOrStops
<1>4. CASE Consul!FoldFails \/ Consul!FoundNothing \/ Consul!Unchanged
  BY <1>4, ConsulFoundNothing
<1>5. CASE Consul!Primed
  BY <1>5, ConsulPrimed
<1>6. CASE Consul!HandedOver
  BY <1>6, ConsulHandsOver
<1>7. CASE UNCHANGED Consul!vars
  BY <1>7 DEF Consul!vars, Consul!storeVars, Consul!IndInv, Consul!TypeOK,
     Consul!HeldIsPast, Consul!IndexCounts, Consul!DeliveryIsCounted, Consul!LastIsHeld,
     Consul!DeliveredForward, Consul!FailuresAreReported, Consul!Held, Consul!Latest
<1> QED
  BY <1>1, <1>2, <1>3, <1>4, <1>5, <1>6, <1>7
     DEF Consul!Next, Consul!Query, Consul!Process

\* The invariant always holds.
LEMMA ConsulInv == Consul!Bounds => (Consul!Spec => []Consul!IndInv)
<1> SUFFICES ASSUME Consul!Bounds PROVE Consul!Spec => []Consul!IndInv
  OBVIOUS
<1>1. Consul!Init => Consul!IndInv
  BY ConsulInit
<1>2. Consul!IndInv /\ [Consul!Next]_(Consul!vars) => Consul!IndInv'
  BY ConsulNext
<1> QED
  BY <1>1, <1>2, PTL DEF Consul!Spec

-----------------------------------------------------------------------------
(* The stream of etcd.                                                      *)

\* A log that grows leaves behind what was behind it.
LEMMA LogGrows ==
    ASSUME NEW old \in Nat, NEW new \in Nat, old <= new, NEW r \in Nat
    PROVE  /\ r <= old + 1 => r <= new + 1
           /\ r \in 1 .. old + 1 => r \in 1 .. new + 1
  OBVIOUS

LEMMA SequenceOfMore ==
    ASSUME NEW S, NEW T, S \subseteq T, NEW s \in Seq(S) PROVE s \in Seq(T)
  OBVIOUS

LEMMA ElementsOf ==
    ASSUME NEW S, NEW s \in Seq(S) PROVE Etcd!Range(s) \subseteq S
<1>1. DOMAIN s = 1 .. Len(s) /\ \A i \in 1 .. Len(s) : s[i] \in S
  OBVIOUS
<1> QED
  BY <1>1 DEF Etcd!Range

\* What is added at the end of an ascending sequence, and is greater, keeps it ascending.
LEMMA AscendingConcat ==
    ASSUME NEW S \in SUBSET Nat, NEW a \in Seq(S), NEW b \in Seq(S),
           Etcd!Ascending(a), Etcd!Ascending(b),
           \A x \in Etcd!Range(a), y \in Etcd!Range(b) : x < y
    PROVE  /\ a \o b \in Seq(S) /\ Etcd!Ascending(a \o b)
           /\ Etcd!Range(a \o b) = Etcd!Range(a) \cup Etcd!Range(b)
<1>1. /\ a \o b \in Seq(S) /\ Len(a \o b) = Len(a) + Len(b)
      /\ Len(a) \in Nat /\ Len(b) \in Nat
      /\ \A i \in 1 .. Len(a) : (a \o b)[i] = a[i]
      /\ \A i \in 1 .. Len(b) : (a \o b)[Len(a) + i] = b[i]
      /\ DOMAIN a = 1 .. Len(a) /\ DOMAIN b = 1 .. Len(b)
      /\ DOMAIN (a \o b) = 1 .. Len(a) + Len(b)
  OBVIOUS
<1> DEFINE ab == a \o b
<1> HIDE DEF ab
<1>2. ASSUME NEW i \in 1 .. Len(ab) - 1 PROVE ab[i] < ab[i + 1]
  <2>1. CASE i < Len(a)
    <3>1. i \in 1 .. Len(a) - 1 /\ i \in 1 .. Len(a) /\ i + 1 \in 1 .. Len(a)
      BY <1>1, <2>1
    <3> QED
      BY <1>1, <3>1 DEF Etcd!Ascending, ab
  <2>2. CASE i = Len(a)
    <3>1. ab[i] = a[i] /\ ab[i + 1] = b[1] /\ i \in DOMAIN a /\ 1 \in DOMAIN b
      BY <1>1, <2>2 DEF ab
    <3> QED
      BY <3>1 DEF Etcd!Range
  <2>3. CASE i > Len(a)
    <3> DEFINE j == i - Len(a)
    <3>1. j \in 1 .. Len(b) - 1 /\ j \in 1 .. Len(b) /\ j + 1 \in 1 .. Len(b)
          /\ i = Len(a) + j /\ i + 1 = Len(a) + (j + 1)
      BY <1>1, <2>3 DEF ab
    <3> HIDE DEF j
    <3>2. ab[i] = b[j] /\ ab[i + 1] = b[j + 1]
      BY <1>1, <3>1 DEF ab
    <3> QED
      BY <3>1, <3>2 DEF Etcd!Ascending
  <2>4. i \in Int /\ Len(a) \in Int
    BY <1>1
  <2> QED
    BY <2>1, <2>2, <2>3, <2>4
<1>3. ASSUME NEW x \in Etcd!Range(ab) PROVE x \in Etcd!Range(a) \cup Etcd!Range(b)
  <2>1. PICK i \in 1 .. Len(a) + Len(b) : ab[i] = x
    BY <1>1 DEF Etcd!Range, ab
  <2>2. CASE i <= Len(a)
    BY <1>1, <2>1, <2>2 DEF Etcd!Range, ab
  <2>3. CASE i > Len(a)
    <3>1. i - Len(a) \in 1 .. Len(b) /\ i = Len(a) + (i - Len(a))
      BY <1>1, <2>3
    <3> QED
      BY <1>1, <2>1, <3>1 DEF Etcd!Range, ab
  <2> QED
    BY <1>1, <2>2, <2>3
<1>4. ASSUME NEW x \in Etcd!Range(a) PROVE x \in Etcd!Range(ab)
  <2>1. PICK i \in 1 .. Len(a) : a[i] = x
    BY <1>1 DEF Etcd!Range
  <2> QED
    BY <1>1, <2>1 DEF Etcd!Range, ab
<1>5. ASSUME NEW x \in Etcd!Range(b) PROVE x \in Etcd!Range(ab)
  <2>1. PICK i \in 1 .. Len(b) : b[i] = x
    BY <1>1 DEF Etcd!Range
  <2>2. Len(a) + i \in DOMAIN ab /\ ab[Len(a) + i] = x
    BY <1>1, <2>1 DEF ab
  <2> QED
    BY <2>2 DEF Etcd!Range
<1> QED
  BY <1>1, <1>2, <1>3, <1>4, <1>5 DEF Etcd!Ascending, ab

\* A single element is ascending, and so is a beginning of what is.
LEMMA AscendingParts ==
    ASSUME NEW S \in SUBSET Nat
    PROVE  /\ \A x \in S : <<x>> \in Seq(S) /\ Etcd!Ascending(<<x>>)
                           /\ Etcd!Range(<<x>>) = {x}
           /\ \A a \in Seq(S) : \A n \in 0 .. Len(a) :
                 Etcd!Ascending(a) =>
                     /\ SubSeq(a, 1, n) \in Seq(S) /\ Etcd!Ascending(SubSeq(a, 1, n))
                     /\ Etcd!Range(SubSeq(a, 1, n)) \subseteq Etcd!Range(a)
<1>1. ASSUME NEW x \in S
      PROVE  <<x>> \in Seq(S) /\ Etcd!Ascending(<<x>>) /\ Etcd!Range(<<x>>) = {x}
  BY DEF Etcd!Ascending, Etcd!Range
<1>2. ASSUME NEW a \in Seq(S), NEW n \in 0 .. Len(a), Etcd!Ascending(a)
      PROVE  /\ SubSeq(a, 1, n) \in Seq(S) /\ Etcd!Ascending(SubSeq(a, 1, n))
             /\ Etcd!Range(SubSeq(a, 1, n)) \subseteq Etcd!Range(a)
  <2> DEFINE b == SubSeq(a, 1, n)
  <2>1. /\ Len(a) \in Nat /\ n \in Nat /\ n <= Len(a)
        /\ b \in Seq(S) /\ Len(b) = n /\ \A i \in 1 .. n : b[i] = a[i]
        /\ DOMAIN b = 1 .. n /\ DOMAIN a = 1 .. Len(a)
    OBVIOUS
  <2> HIDE DEF b
  <2>2. Etcd!Ascending(b)
    BY <1>2, <2>1 DEF Etcd!Ascending
  <2>3. Etcd!Range(b) \subseteq Etcd!Range(a)
    BY <2>1 DEF Etcd!Range
  <2> QED
    BY <2>1, <2>2, <2>3 DEF b
<1> QED
  BY <1>1, <1>2

\* What the types say of the stream.
LEMMA EtcdTypes ==
    ASSUME Etcd!Bounds, Etcd!TypeOK
    PROVE  /\ Etcd!Revision \in 1 .. MaxRevision /\ MaxRevision \in Nat
           /\ Etcd!Revisions \in SUBSET Nat /\ Etcd!Revisions = 1 .. MaxRevision
           /\ next \in Nat /\ creation \in Nat /\ resume_from \in Nat /\ reading \in Nat
           /\ first \in Nat /\ token_recoveries \in Nat
           /\ \A d \in Etcd!Range(etcdDelivered) : d \in 1 .. MaxRevision
<1>1. \A d \in Etcd!Range(etcdDelivered) : d \in 1 .. MaxRevision
  <2>1. etcdDelivered \in Seq(1 .. MaxRevision)
    BY DEF Etcd!TypeOK, Etcd!Revisions
  <2> QED
    BY <2>1, ElementsOf
<1> QED
  BY <1>1 DEF Etcd!Bounds, Etcd!TypeOK, Etcd!Revision, Etcd!Revisions

\* A loop whose stream is not open yet.
LEMMA EtcdInit == Etcd!Bounds /\ Etcd!Init => Etcd!IndInv
<1> SUFFICES ASSUME Etcd!Bounds, Etcd!Init PROVE Etcd!IndInv
  OBVIOUS
<1>1. MaxRevision \in Nat \ {0} /\ MaxExpiries \in Nat
  BY DEF Etcd!Bounds
<1>2. log \in Seq({"put", "delete", "other"}) /\ Len(log) = 1
  BY DEF Etcd!Init
<1>3. /\ shape \in EtcdShapes /\ announces \in Announcing /\ compacted = 1
      /\ etcdAt = "opening" /\ next = 0 /\ creation = 0 /\ resume_from = 0
      /\ token_recoveries = 0 /\ reading = 0 /\ expiries = 0 /\ opened = 0 /\ first = 0
      /\ etcdDelivered = << >>
  BY DEF Etcd!Init
<1>4. Etcd!TypeOK
  BY <1>1, <1>2, <1>3 DEF Etcd!TypeOK, Etcd!Revision, Etcd!Revisions,
     Etcd!MOST_TOKEN_RECOVERIES
<1>5. Etcd!StreamGoesOn /\ Etcd!DeliveredIsBehind
  BY <1>2, <1>3 DEF Etcd!StreamGoesOn, Etcd!DeliveredIsBehind, Etcd!Range, Etcd!Revision
<1>6. Etcd!DeliveredInOrder /\ Etcd!NothingIsSkipped
  BY <1>3 DEF Etcd!DeliveredInOrder, Etcd!Ascending, Etcd!NothingIsSkipped
<1> QED
  BY <1>4, <1>5, <1>6 DEF Etcd!IndInv

\* Whatever happens later, what was handed over stays so.
LEMMA HandedOverStays ==
    ASSUME NEW r \in 1 .. Etcd!Revision, Etcd!TypeOK, Etcd!HandedOver(r),
           \A n \in 1 .. Etcd!Revision : log'[n] = log[n],
           resume_from <= Etcd!Revision + 1, resume_from' \in Nat,
           resume_from <= resume_from', shape' = shape,
           Etcd!Range(etcdDelivered) \subseteq Etcd!Range(etcdDelivered'),
           reading <= reading', reading' \in Nat
    PROVE  Etcd!HandedOver(r)'
<1>1. Etcd!Revision \in Nat /\ resume_from \in Nat /\ reading \in Nat
  BY DEF Etcd!TypeOK, Etcd!Revision
<1>2. ASSUME NEW e \in 1 .. Etcd!Revision PROVE Etcd!Stored(e)' = Etcd!Stored(e)
  BY <1>1 DEF Etcd!Stored
<1>3. log'[r] = log[r] /\ Etcd!Watched(r)' = Etcd!Watched(r)
  BY DEF Etcd!Watched
<1>4. CASE shape = "key"
  BY <1>3, <1>4 DEF Etcd!HandedOver
<1>5. CASE shape # "key"
  <2>1. ASSUME NEW e \in r .. resume_from - 1, ~Etcd!Stored(e)
        PROVE  e \in r .. resume_from' - 1 /\ ~Etcd!Stored(e)'
    BY <1>1, <1>2, <2>1
  <2>2. reading >= r => reading' >= r
    BY <1>1
  <2> QED
    BY <1>3, <1>5, <2>1, <2>2 DEF Etcd!HandedOver
<1> QED
  BY <1>4, <1>5

\* The store changes, or forgets.
LEMMA EtcdStore ==
    ASSUME Etcd!Bounds, Etcd!IndInv, Etcd!Change \/ Etcd!Compact PROVE Etcd!IndInv'
<1> USE DEF Etcd!IndInv
<1>0. /\ UNCHANGED <<shape, announces, etcdAt, next, creation, resume_from, token_recoveries,
                     reading, expiries, opened, first, etcdDelivered>>
      /\ log' \in Seq({"put", "delete", "other"}) /\ Etcd!Revision' \in 1 .. MaxRevision
      /\ Etcd!Revision <= Etcd!Revision' /\ compacted' \in 1 .. Etcd!Revision'
      /\ \A n \in 1 .. Etcd!Revision : log'[n] = log[n]
  <2>0. /\ log \in Seq({"put", "delete", "other"}) /\ Etcd!Revision \in 1 .. MaxRevision
        /\ compacted \in 1 .. Etcd!Revision /\ MaxRevision \in Nat /\ Etcd!Revision = Len(log)
    BY EtcdTypes DEF Etcd!TypeOK, Etcd!Revision
  <2>1. CASE Etcd!Change
    <3>1. PICK event \in {"put", "delete", "other"} : log' = Append(log, event)
      BY <2>1 DEF Etcd!Change
    <3>2. /\ Etcd!Revision < MaxRevision
          /\ UNCHANGED <<shape, announces, etcdAt, next, creation, resume_from, compacted,
                         token_recoveries, reading, expiries, opened, first, etcdDelivered>>
      BY <2>1 DEF Etcd!Change, Etcd!loopVars
    <3>3. /\ log' \in Seq({"put", "delete", "other"}) /\ Len(log') = Len(log) + 1
          /\ \A n \in 1 .. Len(log) : log'[n] = log[n]
      BY <2>0, <3>1
    <3> QED
      BY <2>0, <3>2, <3>3 DEF Etcd!Revision
  <2>2. CASE Etcd!Compact
    <3>1. /\ compacted' = Etcd!Revision
          /\ UNCHANGED <<shape, announces, log, etcdAt, next, creation, resume_from,
                         token_recoveries, reading, expiries, opened, first, etcdDelivered>>
      BY <2>2 DEF Etcd!Compact, Etcd!loopVars
    <3>2. Etcd!Revision' = Etcd!Revision /\ Etcd!Revision \in 1 .. Etcd!Revision
      BY <2>0, <3>1 DEF Etcd!Revision
    <3> QED
      BY <2>0, <3>1, <3>2
  <2> QED
    BY <2>1, <2>2
<1>1. Etcd!TypeOK'
  <2> DEFINE after == Etcd!Revision'
  <2>1. creation \in 0 .. after /\ reading \in 0 .. after
    <3>1. creation \in 0 .. Etcd!Revision /\ reading \in 0 .. Etcd!Revision
      BY DEF Etcd!TypeOK
    <3>2. Etcd!Revision \in Nat /\ after \in Nat /\ Etcd!Revision <= after
      BY <1>0, EtcdTypes
    <3> HIDE DEF after
    <3> QED
      BY <3>1, <3>2
  <2>2. Len(log') \in Etcd!Revisions
    BY <1>0, EtcdTypes DEF Etcd!Revision
  <2> QED
    BY <1>0, <2>1, <2>2 DEF Etcd!TypeOK
<1>2. Etcd!StreamGoesOn'
  <2>1. /\ Etcd!Revision \in Nat /\ Etcd!Revision' \in Nat /\ resume_from \in Nat /\ next \in Nat
        /\ Etcd!Revision <= Etcd!Revision'
    BY <1>0, EtcdTypes
  <2>2. /\ resume_from <= Etcd!Revision + 1
        /\ etcdAt \in {"streaming", "reading"} => next \in 1 .. Etcd!Revision + 1
    BY DEF Etcd!StreamGoesOn
  <2> DEFINE after == Etcd!Revision'
  <2>3. after \in Nat /\ Etcd!Revision <= after
    BY <2>1
  <2> HIDE DEF after
  <2>4. /\ resume_from <= after + 1
        /\ etcdAt \in {"streaming", "reading"} => next \in 1 .. after + 1
    BY <2>1, <2>2, <2>3, LogGrows
  <2> QED
    BY <1>0, <2>4 DEF Etcd!StreamGoesOn, after
<1>3. Etcd!DeliveredIsBehind'
  <2> SUFFICES ASSUME NEW d \in Etcd!Range(etcdDelivered)
               PROVE  /\ d <= Etcd!Revision' /\ d < resume_from
                      /\ etcdAt \in {"streaming", "reading"} => d < next
                      /\ etcdAt = "reading" => d < reading
                      /\ creation # 0 => d <= creation
    BY <1>0 DEF Etcd!DeliveredIsBehind, Etcd!Range
  <2>1. d \in Nat /\ Etcd!Revision \in Nat /\ Etcd!Revision' \in Nat
    BY <1>0, EtcdTypes
  <2> QED
    BY <1>0, <2>1 DEF Etcd!DeliveredIsBehind
<1>4. Etcd!DeliveredInOrder'
  BY <1>0 DEF Etcd!DeliveredInOrder, Etcd!Ascending
<1>5. Etcd!NothingIsSkipped'
  <2> SUFFICES ASSUME ~announces, etcdAt # "ended", NEW r \in first .. resume_from - 1, r > 0
               PROVE  Etcd!HandedOver(r)'
    BY <1>0 DEF Etcd!NothingIsSkipped
  <2>1. /\ r \in 1 .. Etcd!Revision /\ resume_from <= Etcd!Revision + 1
        /\ resume_from \in Nat /\ reading \in Nat
    BY EtcdTypes DEF Etcd!StreamGoesOn
  <2>2. Etcd!HandedOver(r)
    BY DEF Etcd!NothingIsSkipped
  <2>3. Etcd!Range(etcdDelivered) \subseteq Etcd!Range(etcdDelivered')
    BY <1>0 DEF Etcd!Range
  <2> QED
    BY <1>0, <2>1, <2>2, <2>3, HandedOverStays
<1> QED
  BY <1>1, <1>2, <1>3, <1>4, <1>5

\* The end of a watch.
LEMMA EtcdEnds ==
    ASSUME Etcd!Bounds, Etcd!IndInv, Etcd!End PROVE Etcd!IndInv'
<1> USE DEF Etcd!IndInv
<1>1. /\ etcdAt' = "ended"
      /\ UNCHANGED <<shape, announces, log, compacted, next, creation, resume_from,
                     token_recoveries, reading, expiries, opened, first, etcdDelivered>>
  BY DEF Etcd!End, Etcd!storeVars
<1>2. Etcd!TypeOK'
  BY <1>1 DEF Etcd!TypeOK, Etcd!Revision
<1>3. Etcd!StreamGoesOn' /\ Etcd!DeliveredIsBehind'
  BY <1>1 DEF Etcd!StreamGoesOn, Etcd!DeliveredIsBehind, Etcd!Revision, Etcd!Range
<1>4. Etcd!DeliveredInOrder' /\ Etcd!NothingIsSkipped'
  BY <1>1 DEF Etcd!DeliveredInOrder, Etcd!Ascending, Etcd!NothingIsSkipped
<1> QED
  BY <1>2, <1>3, <1>4

\* A stream that is established goes on where the last one ended, or starts from now.
LEMMA EtcdEstablishes ==
    ASSUME Etcd!Bounds, Etcd!IndInv, Etcd!Open \/ Etcd!Recover PROVE Etcd!IndInv'
<1> USE DEF Etcd!IndInv
<1>1. /\ etcdAt \in {"opening", "recovering"} /\ etcdAt' = "streaming"
      /\ next' = IF resume_from = 0 THEN Etcd!Revision + 1 ELSE resume_from
      /\ creation' = IF announces THEN Etcd!Revision ELSE 0
      /\ opened' \in {opened, Etcd!Revision + 1}
      /\ UNCHANGED <<shape, announces, log, compacted, resume_from, token_recoveries, reading,
                     expiries, first, etcdDelivered>>
  BY DEF Etcd!Open, Etcd!Recover, Etcd!Establish, Etcd!storeVars, Etcd!StreamGoesOn
<1>2. /\ Etcd!Revision' = Etcd!Revision /\ Etcd!Range(etcdDelivered)' = Etcd!Range(etcdDelivered)
      /\ reading = 0 /\ resume_from <= Etcd!Revision + 1
      /\ Etcd!Revision \in 1 .. MaxRevision /\ MaxRevision \in Nat /\ resume_from \in Nat
  BY <1>1, EtcdTypes DEF Etcd!Revision, Etcd!Range, Etcd!StreamGoesOn
<1>3. next' \in 1 .. Etcd!Revision + 1 /\ creation' \in 0 .. Etcd!Revision
  BY <1>1, <1>2
<1>4. Etcd!TypeOK'
  <2>1. next' \in 0 .. MaxRevision + 1 /\ opened' \in 0 .. MaxRevision + 1
    BY <1>1, <1>2, <1>3 DEF Etcd!TypeOK
  <2> QED
    BY <1>1, <1>2, <1>3, <2>1 DEF Etcd!TypeOK
<1>5. Etcd!StreamGoesOn'
  BY <1>1, <1>2, <1>3 DEF Etcd!StreamGoesOn
<1>6. Etcd!DeliveredIsBehind'
  <2> SUFFICES ASSUME NEW d \in Etcd!Range(etcdDelivered)
               PROVE  d <= Etcd!Revision /\ d < resume_from /\ d < next'
                      /\ (creation' # 0 => d <= creation')
    BY <1>1, <1>2 DEF Etcd!DeliveredIsBehind
  <2>1. d <= Etcd!Revision /\ d < resume_from /\ d \in Nat
    BY EtcdTypes DEF Etcd!DeliveredIsBehind
  <2> QED
    BY <1>1, <1>2, <2>1
<1>7. Etcd!DeliveredInOrder'
  BY <1>1 DEF Etcd!DeliveredInOrder, Etcd!Ascending
<1>8. Etcd!NothingIsSkipped'
  BY <1>1 DEF Etcd!NothingIsSkipped, Etcd!HandedOver, Etcd!Watched, Etcd!Stored, Etcd!Range
<1> QED
  BY <1>4, <1>5, <1>6, <1>7, <1>8

\* The creation of a stream speaks for what the store said until then.
LEMMA EtcdCreated ==
    ASSUME Etcd!Bounds, Etcd!IndInv, Etcd!Created PROVE Etcd!IndInv'
<1> USE DEF Etcd!IndInv
<1>1. /\ etcdAt = "streaming" /\ creation # 0 /\ creation' = 0 /\ token_recoveries' = 0
      /\ resume_from' = creation + 1 /\ first' = IF first = 0 THEN next ELSE first
      /\ UNCHANGED <<shape, announces, log, compacted, etcdAt, next, reading, expiries, opened,
                     etcdDelivered>>
  BY DEF Etcd!Created, Etcd!Heard, Etcd!storeVars
<1>2. /\ Etcd!Revision' = Etcd!Revision /\ Etcd!Range(etcdDelivered)' = Etcd!Range(etcdDelivered)
      /\ announces
  BY <1>1 DEF Etcd!Revision, Etcd!Range, Etcd!StreamGoesOn, Etcd!TypeOK, Etcd!Bounds
<1>3. /\ creation \in 1 .. Etcd!Revision /\ next \in 1 .. Etcd!Revision + 1
      /\ Etcd!Revision \in 1 .. MaxRevision /\ MaxRevision \in Nat /\ first \in Nat
  BY <1>1, EtcdTypes DEF Etcd!StreamGoesOn, Etcd!TypeOK
<1>4. resume_from' \in 1 .. Etcd!Revision + 1 /\ first' # 0 /\ resume_from' # 0
  BY <1>1, <1>3
<1>5. Etcd!TypeOK'
  <2>1. /\ first' \in 0 .. MaxRevision + 1 /\ resume_from' \in 0 .. MaxRevision + 1
        /\ creation' \in 0 .. Etcd!Revision
        /\ token_recoveries' \in 0 .. Etcd!MOST_TOKEN_RECOVERIES
    BY <1>1, <1>3, <1>4 DEF Etcd!TypeOK, Etcd!MOST_TOKEN_RECOVERIES
  <2> QED
    BY <1>1, <1>2, <2>1 DEF Etcd!TypeOK
<1>6. Etcd!StreamGoesOn'
  BY <1>1, <1>2, <1>3, <1>4 DEF Etcd!StreamGoesOn
<1>7. Etcd!DeliveredIsBehind'
  <2> SUFFICES ASSUME NEW d \in Etcd!Range(etcdDelivered)
               PROVE  d <= Etcd!Revision /\ d < creation + 1 /\ d < next
    BY <1>1, <1>2 DEF Etcd!DeliveredIsBehind
  <2>1. d <= Etcd!Revision /\ d <= creation /\ d < next /\ d \in Nat
    BY <1>1, EtcdTypes DEF Etcd!DeliveredIsBehind
  <2> QED
    BY <1>3, <2>1
<1>8. Etcd!DeliveredInOrder' /\ Etcd!NothingIsSkipped'
  BY <1>1, <1>2 DEF Etcd!DeliveredInOrder, Etcd!Ascending, Etcd!NothingIsSkipped
<1> QED
  BY <1>5, <1>6, <1>7, <1>8

\* The token of a stream expires.
LEMMA EtcdTokenExpires ==
    ASSUME Etcd!Bounds, Etcd!IndInv, Etcd!TokenExpires PROVE Etcd!IndInv'
<1> USE DEF Etcd!IndInv
<1>1. /\ etcdAt = "streaming" /\ etcdAt' = "recovering" /\ expiries < MaxExpiries
      /\ token_recoveries < Etcd!MOST_TOKEN_RECOVERIES
      /\ expiries' = expiries + 1 /\ token_recoveries' = token_recoveries + 1
      /\ UNCHANGED <<shape, announces, log, compacted, next, creation, resume_from, reading,
                     opened, first, etcdDelivered>>
  BY DEF Etcd!TokenExpires, Etcd!storeVars
<1>2. Etcd!Revision' = Etcd!Revision /\ Etcd!Range(etcdDelivered)' = Etcd!Range(etcdDelivered)
  BY <1>1 DEF Etcd!Revision, Etcd!Range
<1>3. Etcd!TypeOK'
  <2>1. /\ expiries' \in 0 .. MaxExpiries
        /\ token_recoveries' \in 0 .. Etcd!MOST_TOKEN_RECOVERIES
    BY <1>1 DEF Etcd!TypeOK, Etcd!Bounds, Etcd!MOST_TOKEN_RECOVERIES
  <2> QED
    BY <1>1, <1>2, <2>1 DEF Etcd!TypeOK
<1>4. Etcd!StreamGoesOn' /\ Etcd!DeliveredIsBehind'
  BY <1>1, <1>2 DEF Etcd!StreamGoesOn, Etcd!DeliveredIsBehind
<1>5. Etcd!DeliveredInOrder'
  BY <1>1 DEF Etcd!DeliveredInOrder, Etcd!Ascending
<1>6. Etcd!NothingIsSkipped'
  <2>1. ASSUME NEW r PROVE Etcd!HandedOver(r)' = Etcd!HandedOver(r)
    BY <1>1, <1>2 DEF Etcd!HandedOver, Etcd!Watched, Etcd!Stored
  <2> QED
    BY <1>1, <2>1 DEF Etcd!NothingIsSkipped
<1> QED
  BY <1>3, <1>4, <1>5, <1>6

\* Where a message with events leaves the stream, of a key and of a prefix.
LEMMA EtcdHears ==
    ASSUME Etcd!Bounds, Etcd!IndInv, NEW b \in next .. Etcd!Revision,
           Etcd!KeyEvents(b) \/ Etcd!PrefixMoved(b)
    PROVE  /\ etcdAt = "streaming" /\ creation = 0 /\ creation' = 0 /\ token_recoveries' = 0
           /\ next \in 1 .. b /\ b \in 1 .. Etcd!Revision /\ Etcd!Revision' = Etcd!Revision
           /\ reading = 0 /\ resume_from' = b + 1 /\ next' = b + 1
           /\ first' = IF first = 0 THEN next ELSE first
           /\ first' \in 1 .. MaxRevision + 1
           /\ (~announces => resume_from <= b + 1)
           /\ UNCHANGED <<shape, announces, log, compacted, expiries, opened>>
           /\ (~announces /\ resume_from # 0 => next = resume_from)
<1> USE DEF Etcd!IndInv
<1>1. /\ etcdAt = "streaming" /\ creation = 0 /\ creation' = 0 /\ token_recoveries' = 0
      /\ resume_from' = b + 1 /\ next' = b + 1
      /\ first' = IF first = 0 THEN next ELSE first
      /\ UNCHANGED <<shape, announces, log, compacted, expiries, opened>>
  BY DEF Etcd!KeyEvents, Etcd!PrefixMoved, Etcd!Offers, Etcd!Heard, Etcd!storeVars
<1>2. /\ reading = 0 /\ next \in 1 .. Etcd!Revision + 1
      /\ resume_from <= Etcd!Revision + 1
      /\ (~announces /\ resume_from # 0 => next = resume_from)
  BY <1>1 DEF Etcd!StreamGoesOn
<1>3. /\ Etcd!Revision' = Etcd!Revision /\ Etcd!Revision \in Nat /\ first \in 0 .. MaxRevision + 1
      /\ MaxRevision \in Nat /\ resume_from \in Nat /\ Etcd!Revision <= MaxRevision
  BY <1>1, EtcdTypes DEF Etcd!Revision, Etcd!TypeOK
<1>4. next \in 1 .. b /\ b \in 1 .. Etcd!Revision
  BY <1>2, <1>3
<1>5. first' \in 1 .. MaxRevision + 1
  <2>1. next \in 1 .. MaxRevision + 1
    BY <1>2, <1>3
  <2> QED
    BY <1>1, <1>3, <2>1
<1>6. ~announces => resume_from <= b + 1
  BY <1>2, <1>3, <1>4
<1> QED
  BY <1>1, <1>2, <1>3, <1>4, <1>5, <1>6

\* The events of one key: what is handed over lies in the batch, and is all of its puts
\* if the watch goes on.
LEMMA EtcdPuts ==
    ASSUME Etcd!Bounds, Etcd!IndInv, NEW b \in next .. Etcd!Revision, Etcd!KeyEvents(b)
    PROVE  \E q \in Seq(1 .. MaxRevision) :
               /\ Etcd!Ascending(q) /\ etcdDelivered' = etcdDelivered \o q
               /\ \A x \in Etcd!Range(q) : x \in next .. b
               /\ etcdAt' = "streaming" =>
                     \A r \in next .. b : log[r] = "put" => r \in Etcd!Range(q)
<1> USE DEF Etcd!IndInv
<1>1. next \in 1 .. b /\ b \in 1 .. MaxRevision /\ MaxRevision \in Nat
  BY EtcdHears, EtcdTypes
<1> DEFINE those == {r \in next .. b : log[r] = "put"}
<1>2. PICK puts \in Etcd!Puts(b) :
          \/ etcdAt' = "streaming" /\ etcdDelivered' = etcdDelivered \o puts
          \/ /\ etcdAt' = "ended"
             /\ \E n \in 0 .. Len(puts) : etcdDelivered' = etcdDelivered \o SubSeq(puts, 1, n)
  BY DEF Etcd!KeyEvents
<1>3. Etcd!Ascending(puts) /\ Etcd!Range(puts) = those
  BY <1>2 DEF Etcd!Puts
<1>4. puts \in Seq(1 .. MaxRevision)
  <2>1. PICK n \in 0 .. b : puts \in [1 .. n -> those]
    BY <1>2 DEF Etcd!Puts
  <2>2. those \subseteq 1 .. MaxRevision
    BY <1>1
  <2> HIDE DEF those
  <2>3. n \in Nat
    BY <1>1
  <2>4. puts \in Seq(those)
    BY <2>1, <2>3
  <2> HIDE DEF those
  <2> QED
    BY <2>2, <2>4, SequenceOfMore
<1>5. CASE etcdAt' = "streaming" /\ etcdDelivered' = etcdDelivered \o puts
  BY <1>3, <1>4, <1>5
<1>6. CASE etcdAt' = "ended" /\ \E n \in 0 .. Len(puts) :
               etcdDelivered' = etcdDelivered \o SubSeq(puts, 1, n)
  <2>1. PICK n \in 0 .. Len(puts) : etcdDelivered' = etcdDelivered \o SubSeq(puts, 1, n)
    BY <1>6
  <2>2. (1 .. MaxRevision) \in SUBSET Nat
    BY <1>1
  <2>3. /\ SubSeq(puts, 1, n) \in Seq(1 .. MaxRevision) /\ Etcd!Ascending(SubSeq(puts, 1, n))
        /\ Etcd!Range(SubSeq(puts, 1, n)) \subseteq those
    BY <1>3, <1>4, <2>2, AscendingParts
  <2> DEFINE handed == SubSeq(puts, 1, n)
  <2>4. \A x \in Etcd!Range(handed) : x \in next .. b
    BY <2>3
  <2> HIDE DEF those
  <2>5. /\ handed \in Seq(1 .. MaxRevision) /\ Etcd!Ascending(handed)
        /\ etcdDelivered' = etcdDelivered \o handed /\ etcdAt' # "streaming"
    BY <1>6, <2>1, <2>3
  <2> HIDE DEF handed
  <2> QED
    BY <2>4, <2>5
<1> QED
  BY <1>2, <1>5, <1>6

LEMMA EtcdKeyEvents ==
    ASSUME Etcd!Bounds, Etcd!IndInv, NEW b \in next .. Etcd!Revision, Etcd!KeyEvents(b)
    PROVE  Etcd!IndInv'
<1> USE DEF Etcd!IndInv
<1>1. /\ etcdAt = "streaming" /\ creation' = 0 /\ token_recoveries' = 0
      /\ next \in 1 .. b /\ b \in 1 .. Etcd!Revision /\ Etcd!Revision' = Etcd!Revision
      /\ reading = 0 /\ resume_from' = b + 1 /\ next' = b + 1
      /\ first' = IF first = 0 THEN next ELSE first
      /\ first' \in 1 .. MaxRevision + 1
      /\ UNCHANGED <<shape, announces, log, compacted, expiries, opened>>
      /\ (~announces /\ resume_from # 0 => next = resume_from)
  BY EtcdHears
<1>2. shape = "key" /\ reading' = 0 /\ etcdAt' \in {"streaming", "ended"}
  BY <1>1 DEF Etcd!KeyEvents
<1>3. /\ Etcd!Revision \in 1 .. MaxRevision /\ MaxRevision \in Nat /\ first \in Nat
      /\ (first = 0 <=> resume_from = 0) /\ resume_from \in Nat
  BY EtcdTypes DEF Etcd!StreamGoesOn
<1>4. PICK q \in Seq(1 .. MaxRevision) :
          /\ Etcd!Ascending(q) /\ etcdDelivered' = etcdDelivered \o q
          /\ \A x \in Etcd!Range(q) : x \in next .. b
          /\ etcdAt' = "streaming" =>
                \A r \in next .. b : log[r] = "put" => r \in Etcd!Range(q)
  BY EtcdPuts
<1>5. /\ etcdDelivered' \in Seq(1 .. MaxRevision) /\ Etcd!Ascending(etcdDelivered')
      /\ Etcd!Range(etcdDelivered') = Etcd!Range(etcdDelivered) \cup Etcd!Range(q)
  <2>1. (1 .. MaxRevision) \in SUBSET Nat
    BY <1>3
  <2>2. etcdDelivered \in Seq(1 .. MaxRevision) /\ Etcd!Ascending(etcdDelivered)
    BY DEF Etcd!TypeOK, Etcd!Revisions, Etcd!DeliveredInOrder
  <2>3. \A x \in Etcd!Range(etcdDelivered), y \in Etcd!Range(q) : x < y
    <3> TAKE x \in Etcd!Range(etcdDelivered), y \in Etcd!Range(q)
    <3>1. x < next /\ x \in Nat /\ y \in next .. b
      BY <1>1, <1>4, EtcdTypes DEF Etcd!DeliveredIsBehind
    <3> QED
      BY <1>1, <3>1
  <2> QED
    BY <1>4, <2>1, <2>2, <2>3, AscendingConcat
<1>6. Etcd!TypeOK'
  <2>1. next' \in 0 .. MaxRevision + 1 /\ resume_from' \in 0 .. MaxRevision + 1
        /\ first' \in 0 .. MaxRevision + 1
        /\ token_recoveries' \in 0 .. Etcd!MOST_TOKEN_RECOVERIES
        /\ creation' \in 0 .. Etcd!Revision /\ reading' \in 0 .. Etcd!Revision
    BY <1>1, <1>2, <1>3 DEF Etcd!MOST_TOKEN_RECOVERIES
  <2> QED
    BY <1>1, <1>2, <1>5, <2>1 DEF Etcd!TypeOK, Etcd!Revisions
<1>7. Etcd!StreamGoesOn'
  <2>1. next' \in 1 .. Etcd!Revision + 1 /\ resume_from' <= Etcd!Revision + 1
        /\ first' # 0 /\ resume_from' # 0
    BY <1>1, <1>3
  <2> QED
    BY <1>1, <1>2, <2>1 DEF Etcd!StreamGoesOn
<1>8. Etcd!DeliveredIsBehind'
  <2> SUFFICES ASSUME NEW d \in Etcd!Range(etcdDelivered')
               PROVE  d <= Etcd!Revision /\ d < b + 1
    BY <1>1, <1>2 DEF Etcd!DeliveredIsBehind
  <2>1. CASE d \in Etcd!Range(etcdDelivered)
    <3>1. d < next /\ d \in Nat
      BY <1>1, <2>1, EtcdTypes DEF Etcd!DeliveredIsBehind
    <3> QED
      BY <1>1, <1>3, <3>1
  <2>2. CASE d \in Etcd!Range(q)
    BY <1>1, <1>3, <1>4, <2>2
  <2> QED
    BY <1>5, <2>1, <2>2
<1>9. Etcd!DeliveredInOrder'
  BY <1>5 DEF Etcd!DeliveredInOrder, Etcd!Ascending
<1>10. Etcd!NothingIsSkipped'
  <2> SUFFICES ASSUME ~announces, etcdAt' = "streaming", NEW r \in first' .. b, r > 0
               PROVE  log[r] = "put" => r \in Etcd!Range(etcdDelivered')
    BY <1>1, <1>2, <1>3 DEF Etcd!NothingIsSkipped, Etcd!HandedOver
  <2>1. CASE r >= next
    <3>1. r \in next .. b
      BY <1>1, <1>3, <2>1
    <3> QED
      BY <1>4, <1>5, <3>1
  <2>2. CASE r < next
    <3>1. r \in first .. resume_from - 1
      BY <1>1, <1>3, <2>2
    <3>2. Etcd!HandedOver(r)
      BY <1>1, <3>1 DEF Etcd!NothingIsSkipped
    <3> QED
      BY <1>2, <1>5, <3>2 DEF Etcd!HandedOver
  <2> QED
    BY <1>1, <1>3, <2>1, <2>2
<1> QED
  BY <1>6, <1>7, <1>8, <1>9, <1>10

\* A prefix that moved is to be read at the revision of the message.
LEMMA EtcdPrefixMoved ==
    ASSUME Etcd!Bounds, Etcd!IndInv, NEW b \in next .. Etcd!Revision, Etcd!PrefixMoved(b)
    PROVE  Etcd!IndInv'
<1> USE DEF Etcd!IndInv
<1>1. /\ etcdAt = "streaming" /\ creation' = 0 /\ token_recoveries' = 0
      /\ next \in 1 .. b /\ b \in 1 .. Etcd!Revision /\ Etcd!Revision' = Etcd!Revision
      /\ reading = 0 /\ resume_from' = b + 1 /\ next' = b + 1
      /\ first' = IF first = 0 THEN next ELSE first
      /\ first' \in 1 .. MaxRevision + 1
      /\ UNCHANGED <<shape, announces, log, compacted, expiries, opened>>
      /\ (~announces /\ resume_from # 0 => next = resume_from)
      /\ (~announces => resume_from <= b + 1)
  BY EtcdHears
<1>2. shape = "prefix" /\ reading' = b /\ etcdAt' = "reading" /\ UNCHANGED etcdDelivered
  BY <1>1 DEF Etcd!PrefixMoved
<1>3. /\ Etcd!Revision \in 1 .. MaxRevision /\ MaxRevision \in Nat /\ first \in Nat
      /\ (first = 0 <=> resume_from = 0) /\ resume_from \in Nat
      /\ resume_from <= Etcd!Revision + 1
  BY EtcdTypes DEF Etcd!StreamGoesOn
<1>4. Etcd!TypeOK'
  <2>1. next' \in 0 .. MaxRevision + 1 /\ resume_from' \in 0 .. MaxRevision + 1
        /\ first' \in 0 .. MaxRevision + 1
        /\ token_recoveries' \in 0 .. Etcd!MOST_TOKEN_RECOVERIES
        /\ creation' \in 0 .. Etcd!Revision /\ reading' \in 0 .. Etcd!Revision
    BY <1>1, <1>2, <1>3 DEF Etcd!MOST_TOKEN_RECOVERIES
  <2> QED
    BY <1>1, <1>2, <2>1 DEF Etcd!TypeOK
<1>5. Etcd!StreamGoesOn'
  <2>1. next' \in 1 .. Etcd!Revision + 1 /\ resume_from' <= Etcd!Revision + 1
        /\ first' # 0 /\ resume_from' # 0 /\ b # 0
    BY <1>1, <1>3
  <2> QED
    BY <1>1, <1>2, <2>1 DEF Etcd!StreamGoesOn
<1>6. Etcd!DeliveredIsBehind'
  <2> SUFFICES ASSUME NEW d \in Etcd!Range(etcdDelivered)
               PROVE  d <= Etcd!Revision /\ d < b + 1 /\ d < b
    BY <1>1, <1>2 DEF Etcd!DeliveredIsBehind, Etcd!Range
  <2>1. d < next /\ d \in Nat
    BY <1>1, EtcdTypes DEF Etcd!DeliveredIsBehind
  <2> QED
    BY <1>1, <1>3, <2>1
<1>7. Etcd!DeliveredInOrder'
  BY <1>2 DEF Etcd!DeliveredInOrder, Etcd!Ascending
<1>8. Etcd!NothingIsSkipped'
  <2> SUFFICES ASSUME ~announces, NEW r \in first' .. b, r > 0
               PROVE  Etcd!HandedOver(r)'
    BY <1>1, <1>2, <1>3 DEF Etcd!NothingIsSkipped
  <2>1. CASE r >= next
    <3>1. r <= b /\ shape' = "prefix"
      BY <1>1, <1>2, <1>3
    <3> QED
      BY <1>2, <3>1 DEF Etcd!HandedOver
  <2>2. CASE r < next
    <3>1. r \in first .. resume_from - 1 /\ r \in 1 .. Etcd!Revision
      BY <1>1, <1>3, <2>2
    <3>2. Etcd!HandedOver(r)
      BY <1>1, <3>1 DEF Etcd!NothingIsSkipped
    <3>3. /\ resume_from <= resume_from' /\ resume_from' \in Nat
          /\ reading <= reading' /\ reading' \in Nat
      BY <1>1, <1>2, <1>3
    <3>4. Etcd!Range(etcdDelivered) \subseteq Etcd!Range(etcdDelivered')
      BY <1>2 DEF Etcd!Range
    <3> QED
      BY <1>1, <1>3, <3>1, <3>2, <3>3, <3>4, HandedOverStays
  <2> QED
    BY <1>1, <1>3, <2>1, <2>2
<1> QED
  BY <1>4, <1>5, <1>6, <1>7, <1>8

\* A prefix that was read is handed over, unless there is nothing in it.
LEMMA EtcdRangeRead ==
    ASSUME Etcd!Bounds, Etcd!IndInv, Etcd!RangeRead PROVE Etcd!IndInv'
<1> USE DEF Etcd!IndInv
<1>1. /\ etcdAt = "reading" /\ reading' = 0 /\ etcdAt' \in {"streaming", "ended"}
      /\ UNCHANGED <<shape, announces, log, compacted, next, creation, resume_from,
                     token_recoveries, expiries, opened, first>>
      /\ \/ ~Etcd!Stored(reading) /\ UNCHANGED etcdDelivered
         \/ etcdDelivered' = Append(etcdDelivered, reading)
  BY DEF Etcd!RangeRead, Etcd!storeVars
<1>2. /\ Etcd!Revision' = Etcd!Revision /\ Etcd!Revision \in 1 .. MaxRevision
      /\ MaxRevision \in Nat /\ reading \in 1 .. Etcd!Revision /\ creation = 0
      /\ next = reading + 1 /\ resume_from = next
      /\ (first = 0 <=> resume_from = 0) /\ first \in Nat
  BY <1>1, EtcdTypes DEF Etcd!StreamGoesOn, Etcd!TypeOK, Etcd!Revision
<1>3. /\ etcdDelivered' \in Seq(1 .. MaxRevision) /\ Etcd!Ascending(etcdDelivered')
      /\ Etcd!Range(etcdDelivered) \subseteq Etcd!Range(etcdDelivered')
      /\ Etcd!Range(etcdDelivered') \subseteq Etcd!Range(etcdDelivered) \cup {reading}
      /\ (Etcd!Stored(reading) => reading \in Etcd!Range(etcdDelivered'))
  <2>1. (1 .. MaxRevision) \in SUBSET Nat /\ reading \in 1 .. MaxRevision
    BY <1>2
  <2>2. etcdDelivered \in Seq(1 .. MaxRevision) /\ Etcd!Ascending(etcdDelivered)
    BY DEF Etcd!TypeOK, Etcd!Revisions, Etcd!DeliveredInOrder
  <2>3. CASE ~Etcd!Stored(reading) /\ UNCHANGED etcdDelivered
    BY <2>2, <2>3 DEF Etcd!Range
  <2>4. CASE etcdDelivered' = Append(etcdDelivered, reading)
    <3>1. /\ <<reading>> \in Seq(1 .. MaxRevision) /\ Etcd!Ascending(<<reading>>)
          /\ Etcd!Range(<<reading>>) = {reading}
      BY <2>1, AscendingParts
    <3>2. \A x \in Etcd!Range(etcdDelivered), y \in {reading} : x < y
      BY <1>1 DEF Etcd!DeliveredIsBehind
    <3>3. etcdDelivered' = etcdDelivered \o <<reading>>
      BY <2>1, <2>2, <2>4
    <3> DEFINE more == etcdDelivered \o <<reading>>
    <3> DEFINE S == 1 .. MaxRevision
    <3>a. /\ S \in SUBSET Nat /\ etcdDelivered \in Seq(S) /\ <<reading>> \in Seq(S)
          /\ \A x \in Etcd!Range(etcdDelivered), y \in Etcd!Range(<<reading>>) : x < y
      BY <2>1, <2>2, <3>1, <3>2
    <3> HIDE DEF S
    <3>4. /\ more \in Seq(S) /\ Etcd!Ascending(more)
          /\ Etcd!Range(more) = Etcd!Range(etcdDelivered) \cup Etcd!Range(<<reading>>)
      BY <2>2, <3>1, <3>a, AscendingConcat
    <3> HIDE DEF more
    <3>5. etcdDelivered' = more
      BY <3>3 DEF more
    <3> QED
      BY <3>1, <3>4, <3>5 DEF S
  <2> QED
    BY <1>1, <2>3, <2>4
<1>4. Etcd!TypeOK'
  <2>1. reading' \in 0 .. Etcd!Revision
    BY <1>1, <1>2
  <2> QED
    BY <1>1, <1>2, <1>3, <2>1 DEF Etcd!TypeOK, Etcd!Revisions
<1>5. Etcd!StreamGoesOn'
  BY <1>1, <1>2 DEF Etcd!StreamGoesOn
<1>6. Etcd!DeliveredIsBehind'
  <2> SUFFICES ASSUME NEW d \in Etcd!Range(etcdDelivered')
               PROVE  d <= Etcd!Revision /\ d < resume_from /\ d < next
    BY <1>1, <1>2 DEF Etcd!DeliveredIsBehind
  <2>1. CASE d \in Etcd!Range(etcdDelivered)
    BY <1>1, <2>1 DEF Etcd!DeliveredIsBehind
  <2>2. CASE d = reading
    BY <1>2, <2>2
  <2> QED
    BY <1>3, <2>1, <2>2
<1>7. Etcd!DeliveredInOrder'
  BY <1>3 DEF Etcd!DeliveredInOrder, Etcd!Ascending
<1>8. Etcd!NothingIsSkipped'
  <2> SUFFICES ASSUME ~announces, NEW r \in first .. resume_from - 1, r > 0
               PROVE  Etcd!HandedOver(r)'
    BY <1>1 DEF Etcd!NothingIsSkipped
  <2>1. Etcd!HandedOver(r)
    BY <1>1 DEF Etcd!NothingIsSkipped
  <2>2. r \in Nat /\ r <= reading /\ reading \in r .. resume_from - 1
    BY <1>2
  <2>3. \A e : Etcd!Stored(e)' = Etcd!Stored(e)
    BY <1>1 DEF Etcd!Stored
  <2>4. CASE shape = "key"
    BY <1>1, <1>3, <2>1, <2>4 DEF Etcd!HandedOver
  <2>5. CASE shape # "key"
    <3>1. CASE Etcd!Stored(reading)
      BY <1>1, <1>2, <1>3, <2>2, <2>5, <3>1 DEF Etcd!HandedOver
    <3>2. CASE ~Etcd!Stored(reading)
      BY <1>1, <2>2, <2>3, <2>5, <3>2 DEF Etcd!HandedOver
    <3> QED
      BY <3>1, <3>2
  <2> QED
    BY <2>4, <2>5
<1> QED
  BY <1>4, <1>5, <1>6, <1>7, <1>8

LEMMA EtcdNext == Etcd!Bounds /\ Etcd!IndInv /\ [Etcd!Next]_Etcd!vars => Etcd!IndInv'
<1> SUFFICES ASSUME Etcd!Bounds, Etcd!IndInv, [Etcd!Next]_Etcd!vars PROVE Etcd!IndInv'
  OBVIOUS
<1>1. CASE Etcd!Change \/ Etcd!Compact
  BY <1>1, EtcdStore
<1>2. CASE Etcd!Open \/ Etcd!Recover
  BY <1>2, EtcdEstablishes
<1>3. CASE \/ Etcd!OpenFails \/ Etcd!RangeReadFails \/ Etcd!StreamEnds
           \/ Etcd!TokenExpiresAgain \/ Etcd!RecoverFails
  BY <1>3, EtcdEnds DEF Etcd!OpenFails, Etcd!RangeReadFails, Etcd!StreamEnds,
     Etcd!TokenExpiresAgain, Etcd!RecoverFails
<1>4. CASE Etcd!Receive
  BY <1>4, EtcdCreated, EtcdKeyEvents, EtcdPrefixMoved DEF Etcd!Receive
<1>5. CASE Etcd!RangeRead
  BY <1>5, EtcdRangeRead
<1>6. CASE Etcd!TokenExpires
  BY <1>6, EtcdTokenExpires
<1>7. CASE UNCHANGED Etcd!vars
  <2>1. UNCHANGED <<shape, announces, log, compacted, etcdAt, next, creation, resume_from,
                    token_recoveries, reading, expiries, opened, first, etcdDelivered>>
    BY <1>7 DEF Etcd!vars, Etcd!storeVars, Etcd!loopVars
  <2> QED
    BY <2>1 DEF Etcd!IndInv, Etcd!TypeOK, Etcd!StreamGoesOn, Etcd!DeliveredIsBehind,
       Etcd!DeliveredInOrder, Etcd!NothingIsSkipped, Etcd!HandedOver, Etcd!Watched,
       Etcd!Stored, Etcd!Revision, Etcd!Ascending, Etcd!Range
<1> QED
  BY <1>1, <1>2, <1>3, <1>4, <1>5, <1>6, <1>7 DEF Etcd!Next

LEMMA EtcdInv == Etcd!Bounds /\ Etcd!Spec => []Etcd!IndInv
<1> SUFFICES ASSUME Etcd!Bounds PROVE Etcd!Spec => []Etcd!IndInv
  OBVIOUS
<1>1. Etcd!Init => Etcd!IndInv
  BY EtcdInit
<1>2. Etcd!IndInv /\ [Etcd!Next]_Etcd!vars => Etcd!IndInv'
  BY EtcdNext
<1> QED
  BY <1>1, <1>2, PTL DEF Etcd!Spec

-----------------------------------------------------------------------------
(* The watches that are told.                                              *)

LEMMA WatchedKeys ==
    ASSUME Subscribed!Bounds
    PROVE  /\ Subscribed!Watched # {}
           /\ subscribedKind = "nats" => \A a, b \in Subscribed!Watched : a = b
  BY DEF Subscribed!Watched, Subscribed!Bounds

\* Nothing read is not a state of the keys.
LEMMA NoneIsNoState ==
    ASSUME Subscribed!Bounds PROVE Subscribed!None \notin Subscribed!States
<1>1. DOMAIN Subscribed!None = {}
  BY DEF Subscribed!None
<1>2. \A s \in Subscribed!States : DOMAIN s = Subscribed!Watched
  BY DEF Subscribed!States
<1> QED
  BY <1>1, <1>2, WatchedKeys

\* What the types say of the states.
LEMMA SubscribedTypes ==
    ASSUME Subscribed!Bounds, Subscribed!TypeOK
    PROVE  /\ SubscribedWrites \in Nat /\ Subscribed!Latest \in 1 .. SubscribedWrites
           /\ Subscribed!Latest = Len(keyStates) /\ keyStates \in Seq(Subscribed!States)
           /\ \A n \in 1 .. Subscribed!Latest : keyStates[n] \in Subscribed!States
           /\ Subscribed!Current \in Subscribed!States
           /\ Subscribed!Current = keyStates[Subscribed!Latest]
           /\ complete_at \in Nat
<1>1. /\ SubscribedWrites \in Nat /\ Subscribed!Latest \in 1 .. SubscribedWrites
      /\ Subscribed!Latest = Len(keyStates) /\ keyStates \in Seq(Subscribed!States)
      /\ Subscribed!Current = keyStates[Subscribed!Latest] /\ complete_at \in Nat
  BY DEF Subscribed!Bounds, Subscribed!TypeOK, Subscribed!Latest, Subscribed!Current
<1>2. \A n \in 1 .. Len(keyStates) : keyStates[n] \in Subscribed!States
  BY <1>1
<1> QED
  BY <1>1, <1>2

\* What a kind of source calls a state, and a complete one, does not change.
LEMMA SameKeys ==
    ASSUME UNCHANGED subscribedKind
    PROVE  /\ Subscribed!Watched' = Subscribed!Watched /\ Subscribed!States' = Subscribed!States
           /\ \A s : Subscribed!Complete(s)' = Subscribed!Complete(s)
  BY DEF Subscribed!Watched, Subscribed!States, Subscribed!Complete

\* The messages a loop has not heard.
LEMMA HearingOne ==
    ASSUME NEW M, NEW q \in Seq(M), q # << >>
    PROVE  /\ Len(q) \in Nat /\ Len(q) >= 1 /\ Head(q) = q[1] /\ Head(q) \in M
           /\ Tail(q) \in Seq(M) /\ Len(Tail(q)) = Len(q) - 1
           /\ \A i \in 1 .. Len(q) - 1 : Tail(q)[i] = q[i + 1]
           /\ Tail(q) = << >> <=> Len(q) = 1
<1>1. /\ Len(q) \in Nat /\ Len(q) >= 1 /\ Head(q) = q[1] /\ Head(q) \in M
      /\ Tail(q) \in Seq(M) /\ Len(Tail(q)) = Len(q) - 1
      /\ \A i \in 1 .. Len(q) - 1 : Tail(q)[i] = q[i + 1]
  OBVIOUS
<1>2. \A t \in Seq(M) : t = << >> <=> Len(t) = 0
  OBVIOUS
<1> DEFINE rest == Tail(q)
<1> HIDE DEF rest
<1>3. rest = << >> <=> Len(q) = 1
  <2>1. rest \in Seq(M) /\ Len(rest) = Len(q) - 1
    BY <1>1 DEF rest
  <2> QED
    BY <1>1, <1>2, <2>1
<1> QED
  BY <1>1, <1>3 DEF rest

LEMMA SubscribedInit == Subscribed!Bounds /\ Subscribed!Init => Subscribed!IndInv
<1> SUFFICES ASSUME Subscribed!Bounds, Subscribed!Init PROVE Subscribed!IndInv
  OBVIOUS
<1>1. PICK s \in Subscribed!States : keyStates = <<s>>
  BY DEF Subscribed!Init
<1>2. /\ subscribedKind \in SubscribedKinds /\ subscribed = {} /\ queue = << >>
      /\ subscribedAt = "subscribing" /\ document = Subscribed!None
      /\ lastList = Subscribed!None /\ subscribedDelivered = << >> /\ complete_at = 0
      /\ subscribedAnswered = TRUE /\ subscribedFailing = FALSE /\ subscribedFaults = 0
      /\ SubscribedWrites \in Nat \ {0} /\ SubscribedFaults \in Nat
  BY DEF Subscribed!Init, Subscribed!Bounds
<1>3. /\ keyStates \in Seq(Subscribed!States) /\ Subscribed!Latest = 1
      /\ Subscribed!Latest \in 1 .. SubscribedWrites
  BY <1>1, <1>2 DEF Subscribed!Latest
<1>4. Subscribed!TypeOK
  <2>1. /\ queue \in Seq([quiet : BOOLEAN, state : 1 .. SubscribedWrites])
        /\ subscribedDelivered \in Seq({s2 \in Subscribed!States : Subscribed!Complete(s2)})
        /\ complete_at \in 0 .. SubscribedWrites /\ subscribedFaults \in 0 .. SubscribedFaults
    BY <1>2
  <2> QED
    BY <1>2, <1>3, <2>1 DEF Subscribed!TypeOK
<1>5. Subscribed!InHand /\ Subscribed!SaidInOrder
  BY <1>2 DEF Subscribed!InHand, Subscribed!SaidInOrder
<1>6. Subscribed!GoesForward
  <2> DEFINE was == [i \in 1 .. 0 |-> 1]
  <2>1. /\ was \in [1 .. Len(subscribedDelivered) -> 1 .. Subscribed!Latest]
        /\ 0 \in 0 .. Subscribed!Latest /\ DOMAIN was = {}
    BY <1>2, <1>3
  <2> HIDE DEF was
  <2>2. Subscribed!HeardUntil(was, 0)
    BY <1>2, <2>1 DEF Subscribed!HeardUntil
  <2> QED
    BY <2>1, <2>2 DEF Subscribed!GoesForward
<1>7. Subscribed!LatestIsHeardOf /\ Subscribed!FailuresAreReported
  BY <1>2 DEF Subscribed!LatestIsHeardOf, Subscribed!FailuresAreReported
<1> QED
  BY <1>4, <1>5, <1>6, <1>7 DEF Subscribed!IndInv

\* What a command of the store leaves behind: a state, and as many messages as there
\* are keys to speak of.
LEMMA CommandSays ==
    ASSUME Subscribed!Bounds, Subscribed!TypeOK, Subscribed!Put \/ Subscribed!Remove
    PROVE  \E state \in Subscribed!States, told \in Nat, quiet \in BOOLEAN :
             /\ Subscribed!Latest < SubscribedWrites
             /\ keyStates' = Append(keyStates, state)
             /\ queue' = queue \o
                           [i \in 1 .. told |-> [quiet |-> quiet,
                             state |-> Subscribed!Latest + 1]]
             /\ UNCHANGED <<subscribedKind, subscribed, subscribedAt, document, lastList,
                            subscribedDelivered, complete_at, subscribedAnswered,
                            subscribedFailing, subscribedFaults>>
             /\ Subscribed!Complete(state) => ~quiet
             /\ subscribedKind = "nats" => told <= 1 /\ (~quiet => Subscribed!Complete(state))
             /\ subscribed = Subscribed!Watched => told # 0
<1>1. ASSUME NEW keys \in SUBSET Subscribed!Watched, keys # {}, NEW quiet \in BOOLEAN,
             NEW values \in [keys -> Values \cup {"absent"}],
             Subscribed!Command(keys, values, quiet),
             (\E key \in keys : values[key] = "absent") \/ ~quiet,
             subscribedKind = "nats" /\ ~quiet => \A key \in keys : values[key] # "absent"
      PROVE  \E state \in Subscribed!States, told \in Nat, q \in BOOLEAN :
             /\ Subscribed!Latest < SubscribedWrites
             /\ keyStates' = Append(keyStates, state)
             /\ queue' = queue \o
                           [i \in 1 .. told |-> [quiet |-> q, state |-> Subscribed!Latest + 1]]
             /\ UNCHANGED <<subscribedKind, subscribed, subscribedAt, document, lastList,
                            subscribedDelivered, complete_at, subscribedAnswered,
                            subscribedFailing, subscribedFaults>>
             /\ Subscribed!Complete(state) => ~q
             /\ subscribedKind = "nats" => told <= 1 /\ (~q => Subscribed!Complete(state))
             /\ subscribed = Subscribed!Watched => told # 0
  <2> DEFINE state == [key \in Subscribed!Watched |->
                          IF key \in keys THEN values[key] ELSE Subscribed!Current[key]]
  <2>1. state \in Subscribed!States
    BY SubscribedTypes DEF Subscribed!States
  <2>2. PICK told \in 0 .. Subscribed!Cardinality(Keys) :
            /\ Subscribed!Bijection(1 .. told, keys \cap subscribed) # {}
            /\ queue' = queue \o
                          [i \in 1 .. told |-> [quiet |-> quiet, state |-> Subscribed!Latest + 1]]
    BY <1>1 DEF Subscribed!Command
  <2>3. PICK each \in [1 .. told -> keys \cap subscribed] :
            /\ \A i, j \in 1 .. told : each[i] = each[j] => i = j
            /\ \A key \in keys \cap subscribed : \E i \in 1 .. told : each[i] = key
    BY <2>2 DEF Subscribed!Bijection, Subscribed!Injection, Subscribed!Surjection,
       Subscribed!IsInjective
  <2>4. told \in Nat
    BY <2>2
  <2>5. subscribedKind = "nats" => told <= 1
    <3> SUFFICES ASSUME subscribedKind = "nats", told > 1 PROVE FALSE
      BY <2>4
    <3>1. 1 \in 1 .. told /\ 2 \in 1 .. told
      BY <2>4
    <3>2. each[1] \in Subscribed!Watched /\ each[2] \in Subscribed!Watched
      BY <2>3, <3>1
    <3>3. each[1] = each[2]
      BY <3>2, WatchedKeys
    <3> QED
      BY <2>3, <3>1, <3>3
  <2>6. subscribed = Subscribed!Watched => told # 0
    <3> SUFFICES ASSUME subscribed = Subscribed!Watched, told = 0 PROVE FALSE
      OBVIOUS
    <3>1. PICK key \in keys \cap subscribed : TRUE
      BY <1>1
    <3> QED
      BY <2>3, <3>1
  <2>7. Subscribed!Complete(state) => ~quiet
    <3> SUFFICES ASSUME NEW key \in keys, values[key] = "absent"
                 PROVE  ~Subscribed!Complete(state)
      BY <1>1
    <3>1. key \in Subscribed!Watched /\ state[key] = "absent"
      BY <1>1
    <3> QED
      BY <3>1 DEF Subscribed!Complete
  <2>8. subscribedKind = "nats" /\ ~quiet => Subscribed!Complete(state)
    <3> SUFFICES ASSUME subscribedKind = "nats", ~quiet, NEW key \in Subscribed!Watched
                 PROVE  state[key] # "absent"
      BY DEF Subscribed!Complete
    <3>1. key \in keys
      BY <1>1, WatchedKeys
    <3> QED
      BY <1>1, <3>1
  <2>9. /\ Subscribed!Latest < SubscribedWrites /\ keyStates' = Append(keyStates, state)
        /\ UNCHANGED <<subscribedKind, subscribed, subscribedAt, document, lastList,
                       subscribedDelivered, complete_at, subscribedAnswered,
                       subscribedFailing, subscribedFaults>>
    BY <1>1 DEF Subscribed!Command
  <2> HIDE DEF state
  <2> QED
    BY <2>1, <2>2, <2>4, <2>5, <2>6, <2>7, <2>8, <2>9
<1>2. CASE Subscribed!Put
  <2>0. PICK keys \in (SUBSET Subscribed!Watched) \ {{}} :
            \E values \in [keys -> Values] : Subscribed!Command(keys, values, FALSE)
    BY <1>2 DEF Subscribed!Put
  <2>1. PICK values \in [keys -> Values] : Subscribed!Command(keys, values, FALSE)
    BY <2>0
  <2>2. values \in [keys -> Values \cup {"absent"}] /\ \A key \in keys : values[key] # "absent"
    BY <2>1 DEF Subscribed!Bounds
  <2>3. keys \in SUBSET Subscribed!Watched /\ keys # {} /\ FALSE \in BOOLEAN
    BY <2>0
  <2> QED
    BY <1>1, <2>1, <2>2, <2>3
<1>3. CASE Subscribed!Remove
  <2>1. PICK key \in Subscribed!Watched :
            \E quiet \in (IF subscribedKind = "nats" THEN {TRUE} ELSE BOOLEAN) :
                Subscribed!Command({key}, [k \in {key} |-> "absent"], quiet)
    BY <1>3 DEF Subscribed!Remove
  <2>2. PICK quiet \in (IF subscribedKind = "nats" THEN {TRUE} ELSE BOOLEAN) :
            Subscribed!Command({key}, [k \in {key} |-> "absent"], quiet)
    BY <2>1
  <2> DEFINE gone == [k \in {key} |-> "absent"]
  <2>3. /\ gone \in [{key} -> Values \cup {"absent"}] /\ \A k \in {key} : gone[k] = "absent"
        /\ quiet \in BOOLEAN /\ (subscribedKind = "nats" => quiet)
        /\ "absent" \notin Values /\ {key} \in SUBSET Subscribed!Watched /\ {key} # {}
    BY <2>2 DEF Subscribed!Bounds
  <2>4. Subscribed!Command({key}, gone, quiet)
    BY <2>2
  <2> HIDE DEF gone
  <2> QED
    BY <1>1, <2>3, <2>4
<1> QED
  BY <1>2, <1>3

\* The messages of a command come after those that were not heard yet.
LEMMA MoreMessages ==
    ASSUME NEW M, NEW q \in Seq(M), NEW m \in M, NEW n \in Nat,
           NEW new \in Seq(M), Len(new) = n, \A i \in 1 .. n : new[i] = m
    PROVE  LET more == q \o new IN
           /\ more \in Seq(M) /\ Len(more) = Len(q) + n /\ Len(q) \in Nat
           /\ \A i \in 1 .. Len(q) : more[i] = q[i]
           /\ \A i \in Len(q) + 1 .. Len(q) + n : more[i] = m
           /\ more = << >> => q = << >> /\ n = 0
<1> DEFINE more == q \o new
<1>3. /\ more \in Seq(M) /\ Len(more) = Len(q) + n /\ Len(q) \in Nat
      /\ \A i \in 1 .. Len(q) : more[i] = q[i]
      /\ \A i \in 1 .. n : more[Len(q) + i] = new[i]
  OBVIOUS
<1> HIDE DEF more
<1>4. ASSUME NEW i \in Len(q) + 1 .. Len(q) + n PROVE more[i] = m
  <2>1. i - Len(q) \in 1 .. n /\ i = Len(q) + (i - Len(q))
    BY <1>3
  <2> QED
    BY <1>3, <2>1
<1>5. more = << >> => q = << >> /\ n = 0
  <2>1. \A t \in Seq(M) : t = << >> <=> Len(t) = 0
    OBVIOUS
  <2> QED
    BY <1>3, <2>1
<1> QED
  BY <1>3, <1>4, <1>5 DEF more

\* The keys change.
LEMMA SubscribedCommand ==
    ASSUME Subscribed!Bounds, Subscribed!IndInv, Subscribed!Put \/ Subscribed!Remove
    PROVE  Subscribed!IndInv'
<1> USE DEF Subscribed!IndInv
<1> DEFINE L == Subscribed!Latest
           M == [quiet : BOOLEAN, state : 1 .. SubscribedWrites]
<1>1. PICK state \in Subscribed!States, told \in Nat, quiet \in BOOLEAN :
             /\ L < SubscribedWrites
             /\ keyStates' = Append(keyStates, state)
             /\ queue' = queue \o [i \in 1 .. told |-> [quiet |-> quiet, state |-> L + 1]]
             /\ UNCHANGED <<subscribedKind, subscribed, subscribedAt, document, lastList,
                            subscribedDelivered, complete_at, subscribedAnswered,
                            subscribedFailing, subscribedFaults>>
             /\ Subscribed!Complete(state) => ~quiet
             /\ subscribedKind = "nats" => told <= 1 /\ (~quiet => Subscribed!Complete(state))
             /\ subscribed = Subscribed!Watched => told # 0
  BY CommandSays
<1>2. /\ L \in 1 .. SubscribedWrites /\ SubscribedWrites \in Nat /\ L = Len(keyStates)
      /\ keyStates \in Seq(Subscribed!States) /\ queue \in Seq(M) /\ Len(queue) \in Nat
  BY SubscribedTypes DEF Subscribed!TypeOK
<1>3. /\ keyStates' \in Seq(Subscribed!States) /\ L' = L + 1 /\ L' \in 1 .. SubscribedWrites
      /\ \A n \in 1 .. L : keyStates'[n] = keyStates[n]
      /\ keyStates'[L'] = state /\ Subscribed!Current' = state
  <2>1. /\ Append(keyStates, state) \in Seq(Subscribed!States)
        /\ Len(Append(keyStates, state)) = L + 1
        /\ \A n \in 1 .. L : Append(keyStates, state)[n] = keyStates[n]
        /\ Append(keyStates, state)[L + 1] = state
    BY <1>2, LongerHistory
  <2>2. L' = Len(keyStates') /\ Subscribed!Current' = keyStates'[L']
    BY DEF Subscribed!Latest, Subscribed!Current
  <2> HIDE DEF L
  <2> QED
    BY <1>1, <1>2, <2>1, <2>2
<1> DEFINE m == [quiet |-> quiet, state |-> L + 1]
<1>4. /\ queue' \in Seq(M) /\ Len(queue') = Len(queue) + told
      /\ \A i \in 1 .. Len(queue) : queue'[i] = queue[i]
      /\ \A i \in Len(queue) + 1 .. Len(queue) + told : queue'[i] = m
      /\ queue' = << >> => queue = << >> /\ told = 0
      /\ m.quiet = quiet /\ m.state = L + 1
  <2>1. m \in M /\ m.quiet = quiet /\ m.state = L + 1
    BY <1>1, <1>2
  <2> DEFINE new == [i \in 1 .. told |-> m]
  <2> HIDE DEF m, M
  <2>2. new \in Seq(M) /\ Len(new) = told /\ \A i \in 1 .. told : new[i] = m
    BY <2>1
  <2>3. queue' = queue \o new
    BY <1>1 DEF m
  <2> HIDE DEF new
  <2> QED
    BY <1>2, <2>1, <2>2, <2>3, MoreMessages
<1>5. /\ Subscribed!Watched' = Subscribed!Watched /\ Subscribed!States' = Subscribed!States
      /\ \A s : Subscribed!Complete(s)' = Subscribed!Complete(s)
  BY <1>1, SameKeys
<1> HIDE DEF L
<1>6. Subscribed!TypeOK'
  BY <1>1, <1>3, <1>4, <1>5 DEF Subscribed!TypeOK, Subscribed!None, L
<1>m. \A i \in 1 .. Len(queue) : queue[i] \in M /\ queue[i].state \in 1 .. SubscribedWrites
  <2>1. \A x \in M : x.state \in 1 .. SubscribedWrites
    OBVIOUS
  <2> HIDE DEF M
  <2> QED
    BY <1>2, <2>1
<1> HIDE DEF m, M
<1>7. Subscribed!InHand'
  <2>1. Subscribed!Complete(document)' <=> Subscribed!Complete(document)
    BY <1>1, <1>5 DEF Subscribed!Complete
  <2> QED
    BY <1>1, <1>5, <2>1 DEF Subscribed!InHand, Subscribed!None
<1>8. Subscribed!SaidInOrder'
  <2> SUFFICES ASSUME subscribedKind = "nats"
               PROVE  /\ \A i \in 1 .. Len(queue') :
                            /\ queue'[i].state <= L'
                            /\ ~queue'[i].quiet => Subscribed!Complete(keyStates[queue[i].state])'
                      /\ \A i, j \in 1 .. Len(queue') :
                            i < j => queue'[i].state < queue'[j].state
    BY <1>1 DEF Subscribed!SaidInOrder, L
  <2>1. ASSUME NEW i \in 1 .. Len(queue')
        PROVE  /\ queue'[i].state <= L'
               /\ ~queue'[i].quiet => Subscribed!Complete(keyStates[queue[i].state])'
    <3>1. CASE i <= Len(queue)
      <4>1. i \in 1 .. Len(queue) /\ queue'[i] = queue[i]
        BY <1>2, <1>4, <3>1
      <4>2. /\ queue[i].state <= L /\ queue[i].state \in 1 .. SubscribedWrites
            /\ (~queue[i].quiet => Subscribed!Complete(keyStates[queue[i].state]))
        BY <1>m, <4>1 DEF Subscribed!SaidInOrder, L
      <4>3. keyStates'[queue[i].state] = keyStates[queue[i].state]
        BY <1>2, <1>3, <4>2
      <4>4. queue[i].state <= L'
        BY <1>2, <1>3, <4>2
      <4> QED
        BY <1>5, <4>1, <4>2, <4>3, <4>4 DEF Subscribed!Complete
    <3>2. CASE i > Len(queue)
      <4>1. queue'[i] = m
        <5>1. i \in Len(queue) + 1 .. Len(queue) + told
          BY <1>2, <1>4, <3>2
        <5> QED
          BY <1>4, <5>1
      <4>2. queue'[i].state = L' /\ queue'[i].quiet = quiet
        BY <1>3, <1>4, <4>1
      <4>3. Subscribed!Complete(keyStates[queue[i].state])' <=> Subscribed!Complete(state)
        BY <1>3, <1>5, <4>2 DEF Subscribed!Complete
      <4>4. queue'[i].state <= L'
        BY <1>3, <4>2
      <4> QED
        BY <1>1, <4>2, <4>3, <4>4
    <3> QED
      BY <1>2, <1>4, <3>1, <3>2
  <2>2. ASSUME NEW i \in 1 .. Len(queue'), NEW j \in 1 .. Len(queue'), i < j
        PROVE  queue'[i].state < queue'[j].state
    <3>1. told <= 1 /\ i \in 1 .. Len(queue) /\ queue'[i] = queue[i]
      BY <1>1, <1>2, <1>4, <2>2
    <3>2. CASE j <= Len(queue)
      <4>1. j \in 1 .. Len(queue) /\ queue'[j] = queue[j]
        BY <1>2, <1>4, <3>2
      <4> QED
        BY <2>2, <3>1, <4>1 DEF Subscribed!SaidInOrder
    <3>3. CASE j > Len(queue)
      <4>1. j \in Len(queue) + 1 .. Len(queue) + told
        BY <1>2, <1>4, <3>3
      <4>2. queue'[j].state = L + 1
        BY <1>4, <4>1
      <4>3. queue[i].state <= L /\ queue[i].state \in 1 .. SubscribedWrites
        BY <1>m, <3>1 DEF Subscribed!SaidInOrder, L
      <4> QED
        BY <1>2, <3>1, <4>2, <4>3
    <3> QED
      BY <1>2, <1>4, <3>2, <3>3
  <2> QED
    BY <2>1, <2>2
<1>9. Subscribed!GoesForward'
  <2>1. PICK was \in [1 .. Len(subscribedDelivered) -> 1 .. L], heard \in 0 .. L :
            Subscribed!HeardUntil(was, heard)
    BY DEF Subscribed!GoesForward, L
  <2>2. was \in [1 .. Len(subscribedDelivered') -> 1 .. L'] /\ heard \in 0 .. L'
    <3>1. (1 .. L) \subseteq 1 .. L' /\ heard \in 0 .. L'
      BY <1>2, <1>3
    <3> QED
      BY <1>1, <2>1, <3>1
  <2>3. \A i \in DOMAIN was : was[i] \in 1 .. L /\ keyStates'[was[i]] = keyStates[was[i]]
    BY <1>3
  <2>4. heard # 0 => keyStates'[heard] = keyStates[heard]
    BY <1>2, <1>3
  <2>5. ASSUME subscribedKind = "nats", NEW i \in 1 .. Len(queue')
        PROVE  heard < queue'[i].state
    <3>1. CASE i <= Len(queue)
      <4>1. i \in 1 .. Len(queue) /\ queue'[i] = queue[i]
        BY <1>2, <1>4, <3>1
      <4> QED
        BY <2>1, <2>5, <4>1 DEF Subscribed!HeardUntil
    <3>2. CASE i > Len(queue)
      <4>1. queue'[i] = m
        <5>1. i \in Len(queue) + 1 .. Len(queue) + told
          BY <1>2, <1>4, <3>2
        <5> QED
          BY <1>4, <5>1
      <4>2. queue'[i].state = L + 1
        BY <1>4, <4>1
      <4> QED
        BY <1>2, <4>2
    <3> QED
      BY <1>2, <1>4, <3>1, <3>2
  <2>6. Subscribed!HeardUntil(was, heard)'
    BY <1>1, <2>1, <2>3, <2>4, <2>5 DEF Subscribed!HeardUntil
  <2> QED
    BY <2>2, <2>6 DEF Subscribed!GoesForward, L
<1>10. Subscribed!LatestIsHeardOf'
  <2> SUFFICES ASSUME subscribedAt \in {"waiting", "holding"}
               PROVE  /\ queue' # << >> /\ queue'[Len(queue')].state = L'
                      /\ Subscribed!Complete(Subscribed!Current)' => ~queue'[Len(queue')].quiet
    BY <1>1 DEF Subscribed!LatestIsHeardOf, L
  <2>1. told # 0
    BY <1>1 DEF Subscribed!InHand
  <2>2. Len(queue') \in Len(queue) + 1 .. Len(queue) + told
    BY <1>1, <1>2, <1>4, <2>1
  <2>3. queue'[Len(queue')] = m
    BY <1>4, <2>2
  <2>4. queue'[Len(queue')].state = L' /\ queue'[Len(queue')].quiet = quiet
    BY <1>3, <1>4, <2>3
  <2>5. Subscribed!Complete(Subscribed!Current)' <=> Subscribed!Complete(state)
    BY <1>3, <1>5 DEF Subscribed!Complete
  <2> QED
    BY <1>1, <1>4, <2>1, <2>4, <2>5
<1>11. Subscribed!FailuresAreReported'
  BY <1>1 DEF Subscribed!FailuresAreReported
<1> QED
  BY <1>6, <1>7, <1>8, <1>9, <1>10, <1>11

\* What is neither said nor handed over by a step of the loop stays in order.
LEMMA StillForward ==
    ASSUME Subscribed!Bounds, Subscribed!IndInv, subscribedAt' # "holding",
           UNCHANGED <<subscribedKind, keyStates, queue, subscribedDelivered>>
    PROVE  Subscribed!GoesForward' /\ Subscribed!SaidInOrder'
<1> USE DEF Subscribed!IndInv
<1>1. PICK was \in [1 .. Len(subscribedDelivered) -> 1 .. Subscribed!Latest],
           heard \in 0 .. Subscribed!Latest : Subscribed!HeardUntil(was, heard)
  BY DEF Subscribed!GoesForward
<1>2. Subscribed!HeardUntil(was, heard)'
  BY <1>1 DEF Subscribed!HeardUntil
<1>3. Subscribed!GoesForward'
  BY <1>1, <1>2 DEF Subscribed!GoesForward, Subscribed!Latest
<1>4. Subscribed!SaidInOrder'
  BY SameKeys DEF Subscribed!SaidInOrder, Subscribed!Latest, Subscribed!Complete
<1> QED
  BY <1>3, <1>4

\* A key is subscribed to; once they all are, only what comes later matters.
LEMMA SubscribedSubscribe ==
    ASSUME Subscribed!Bounds, Subscribed!IndInv, Subscribed!Subscribe
    PROVE  Subscribed!IndInv'
<1> USE DEF Subscribed!IndInv
<1>1. PICK key \in Subscribed!Watched : subscribed' = subscribed \cup {key}
  BY DEF Subscribed!Subscribe
<1>2. /\ subscribedAt = "subscribing"
      /\ \/ /\ subscribed' = Subscribed!Watched /\ subscribedAt' = "waiting"
            /\ complete_at' = Subscribed!Latest
         \/ subscribedAt' = "subscribing" /\ complete_at' = complete_at
      /\ UNCHANGED <<subscribedKind, keyStates, queue, document, lastList,
                     subscribedDelivered, subscribedAnswered, subscribedFailing,
                     subscribedFaults>>
  BY DEF Subscribed!Subscribe
<1>3. /\ Subscribed!Watched' = Subscribed!Watched /\ Subscribed!States' = Subscribed!States
      /\ \A s : Subscribed!Complete(s)' = Subscribed!Complete(s)
      /\ Subscribed!Latest' = Subscribed!Latest
      /\ Subscribed!Latest \in 1 .. SubscribedWrites /\ SubscribedWrites \in Nat
  BY <1>2, SameKeys, SubscribedTypes DEF Subscribed!Latest
<1>4. Subscribed!TypeOK'
  <2>1. subscribed' \subseteq Subscribed!Watched /\ complete_at' \in 0 .. SubscribedWrites
    BY <1>1, <1>2, <1>3 DEF Subscribed!TypeOK
  <2> QED
    BY <1>2, <1>3, <2>1 DEF Subscribed!TypeOK, Subscribed!None
<1>5. Subscribed!InHand'
  BY <1>2, <1>3 DEF Subscribed!InHand, Subscribed!None
<1>6. Subscribed!SaidInOrder' /\ Subscribed!GoesForward'
  BY <1>2, StillForward
<1>7. Subscribed!LatestIsHeardOf'
  BY <1>2, <1>3 DEF Subscribed!LatestIsHeardOf
<1>8. Subscribed!FailuresAreReported'
  BY <1>2 DEF Subscribed!FailuresAreReported
<1> QED
  BY <1>4, <1>5, <1>6, <1>7, <1>8

\* The watch ends, or is stopped.
LEMMA SubscribedEnds ==
    ASSUME Subscribed!Bounds, Subscribed!IndInv,
           Subscribed!SubscriptionFails \/ Subscribed!Stop
    PROVE  Subscribed!IndInv'
<1> USE DEF Subscribed!IndInv
<1>1. /\ subscribedAt # "holding" /\ subscribedAt' \in {"ended", "stopped"}
      /\ UNCHANGED <<subscribedKind, keyStates, subscribed, queue, document, lastList,
                     subscribedDelivered, complete_at, subscribedFaults>>
      /\ \/ subscribedAnswered' = FALSE /\ subscribedFailing' = TRUE
         \/ UNCHANGED <<subscribedAnswered, subscribedFailing>>
  BY DEF Subscribed!SubscriptionFails, Subscribed!Stop
<1>2. /\ Subscribed!Watched' = Subscribed!Watched /\ Subscribed!States' = Subscribed!States
      /\ \A s : Subscribed!Complete(s)' = Subscribed!Complete(s)
      /\ Subscribed!Latest' = Subscribed!Latest
  BY <1>1, SameKeys DEF Subscribed!Latest
<1>3. Subscribed!TypeOK'
  BY <1>1, <1>2 DEF Subscribed!TypeOK, Subscribed!None
<1>4. Subscribed!InHand'
  BY <1>1 DEF Subscribed!InHand, Subscribed!None
<1>5. Subscribed!SaidInOrder' /\ Subscribed!GoesForward'
  BY <1>1, StillForward
<1>6. Subscribed!LatestIsHeardOf' /\ Subscribed!FailuresAreReported'
  BY <1>1 DEF Subscribed!LatestIsHeardOf, Subscribed!FailuresAreReported
<1> QED
  BY <1>3, <1>4, <1>5, <1>6

\* A message is taken off the queue.
LEMMA SubscribedHears ==
    ASSUME Subscribed!Bounds, Subscribed!IndInv, Subscribed!Hear
    PROVE  /\ subscribedAt = "waiting"
           /\ UNCHANGED <<subscribedKind, keyStates, subscribed, lastList,
                          subscribedDelivered, complete_at>>
           /\ Len(queue) \in Nat /\ Len(queue) >= 1 /\ Len(queue') = Len(queue) - 1
           /\ Head(queue) = queue[1] /\ queue[1].state \in 1 .. SubscribedWrites
           /\ queue[1].quiet \in BOOLEAN
           /\ queue' \in Seq([quiet : BOOLEAN, state : 1 .. SubscribedWrites])
           /\ \A i \in 1 .. Len(queue) - 1 : queue'[i] = queue[i + 1]
           /\ queue' = << >> <=> Len(queue) = 1
           /\ Subscribed!SaidInOrder'
<1> USE DEF Subscribed!IndInv
<1> DEFINE M == [quiet : BOOLEAN, state : 1 .. SubscribedWrites]
<1>1. queue \in Seq(M) /\ queue # << >> /\ queue' = Tail(queue)
  BY DEF Subscribed!TypeOK, Subscribed!Hear
<1>2. \A x \in M : x.quiet \in BOOLEAN /\ x.state \in 1 .. SubscribedWrites
  OBVIOUS
<1>3. /\ subscribedAt = "waiting"
      /\ UNCHANGED <<subscribedKind, keyStates, subscribed, lastList,
                     subscribedDelivered, complete_at>>
  BY DEF Subscribed!Hear
<1> HIDE DEF M
<1>4. /\ Len(queue) \in Nat /\ Len(queue) >= 1 /\ Len(queue') = Len(queue) - 1
      /\ Head(queue) = queue[1] /\ queue[1] \in M /\ queue' \in Seq(M)
      /\ \A i \in 1 .. Len(queue) - 1 : queue'[i] = queue[i + 1]
      /\ queue' = << >> <=> Len(queue) = 1
  BY <1>1, HearingOne
<1>5. Subscribed!SaidInOrder'
  <2> SUFFICES ASSUME subscribedKind = "nats"
               PROVE  /\ \A i \in 1 .. Len(queue') :
                            /\ queue'[i].state <= Subscribed!Latest
                            /\ ~queue'[i].quiet =>
                                  Subscribed!Complete(keyStates[queue'[i].state])
                      /\ \A i, j \in 1 .. Len(queue') :
                            i < j => queue'[i].state < queue'[j].state
    BY <1>3, SameKeys DEF Subscribed!SaidInOrder, Subscribed!Latest, Subscribed!Complete
  <2>1. ASSUME NEW i \in 1 .. Len(queue')
        PROVE  i + 1 \in 1 .. Len(queue) /\ queue'[i] = queue[i + 1]
    BY <1>4
  <2>2. \A i, j \in 1 .. Len(queue') : i < j => i + 1 < j + 1
    BY <1>4
  <2> QED
    BY <2>1, <2>2 DEF Subscribed!SaidInOrder
<1> QED
  BY <1>2, <1>3, <1>4, <1>5 DEF M

\* A message that comes to nothing: a deletion, or a read that fails.
LEMMA SubscribedNothing ==
    ASSUME Subscribed!Bounds, Subscribed!IndInv, Subscribed!Skip \/ Subscribed!ReadFails
    PROVE  Subscribed!IndInv'
<1> USE DEF Subscribed!IndInv
<1>0. Subscribed!Hear
  BY DEF Subscribed!Skip, Subscribed!ReadFails
<1>1. /\ subscribedAt = "waiting"
      /\ UNCHANGED <<subscribedKind, keyStates, subscribed, lastList,
                     subscribedDelivered, complete_at>>
      /\ Len(queue) \in Nat /\ Len(queue) >= 1 /\ Len(queue') = Len(queue) - 1
      /\ Head(queue) = queue[1]
      /\ queue' \in Seq([quiet : BOOLEAN, state : 1 .. SubscribedWrites])
      /\ \A i \in 1 .. Len(queue) - 1 : queue'[i] = queue[i + 1]
      /\ queue' = << >> <=> Len(queue) = 1
      /\ Subscribed!SaidInOrder'
  BY <1>0, SubscribedHears
<1>2. /\ UNCHANGED <<subscribedAt, document>>
      /\ \/ queue[1].quiet /\ UNCHANGED <<subscribedAnswered, subscribedFailing>>
         \/ subscribedAnswered' = FALSE /\ subscribedFailing' = TRUE
  BY <1>1 DEF Subscribed!Skip, Subscribed!ReadFails
<1>3. subscribedFaults' \in 0 .. SubscribedFaults
  BY DEF Subscribed!Skip, Subscribed!ReadFails, Subscribed!TypeOK, Subscribed!Bounds
<1>4. /\ Subscribed!Watched' = Subscribed!Watched /\ Subscribed!States' = Subscribed!States
      /\ \A s : Subscribed!Complete(s)' = Subscribed!Complete(s)
      /\ Subscribed!Latest' = Subscribed!Latest /\ Subscribed!Current' = Subscribed!Current
  BY <1>1, SameKeys DEF Subscribed!Latest, Subscribed!Current
<1>5. Subscribed!TypeOK'
  BY <1>1, <1>2, <1>3, <1>4 DEF Subscribed!TypeOK, Subscribed!None
<1>6. Subscribed!InHand'
  BY <1>1, <1>2, <1>4 DEF Subscribed!InHand, Subscribed!None
<1>7. Subscribed!GoesForward'
  <2>1. PICK was \in [1 .. Len(subscribedDelivered) -> 1 .. Subscribed!Latest],
             heard \in 0 .. Subscribed!Latest : Subscribed!HeardUntil(was, heard)
    BY DEF Subscribed!GoesForward
  <2>2. ASSUME subscribedKind = "nats", NEW i \in 1 .. Len(queue')
        PROVE  heard < queue'[i].state
    <3>1. i + 1 \in 1 .. Len(queue) /\ queue'[i] = queue[i + 1]
      BY <1>1
    <3> QED
      BY <2>1, <2>2, <3>1 DEF Subscribed!HeardUntil
  <2>3. Subscribed!HeardUntil(was, heard)'
    BY <1>1, <1>2, <2>1, <2>2 DEF Subscribed!HeardUntil
  <2> QED
    BY <1>1, <1>4, <2>1, <2>3 DEF Subscribed!GoesForward
<1>8. Subscribed!LatestIsHeardOf'
  <2> SUFFICES ASSUME complete_at < Subscribed!Latest
               PROVE  /\ queue' # << >> =>
                            /\ queue'[Len(queue')].state = Subscribed!Latest
                            /\ Subscribed!Complete(Subscribed!Current) =>
                                  ~queue'[Len(queue')].quiet
                      /\ queue' = << >> /\ subscribedAnswered' =>
                            ~Subscribed!Complete(Subscribed!Current)
    BY <1>1, <1>2, <1>4 DEF Subscribed!LatestIsHeardOf, Subscribed!Complete
  <2>1. /\ queue[Len(queue)].state = Subscribed!Latest
        /\ Subscribed!Complete(Subscribed!Current) => ~queue[Len(queue)].quiet
    <3>1. queue # << >>
      BY <1>0 DEF Subscribed!Hear
    <3> QED
      BY <1>1, <3>1 DEF Subscribed!LatestIsHeardOf
  <2>2. queue' # << >> => queue'[Len(queue')] = queue[Len(queue)]
    <3>1. queue' # << >> => /\ Len(queue') \in 1 .. Len(queue) - 1
                            /\ Len(queue') + 1 = Len(queue)
      BY <1>1
    <3> QED
      BY <1>1, <3>1
  <2> QED
    BY <1>1, <1>2, <2>1, <2>2
<1>9. Subscribed!FailuresAreReported'
  BY <1>2 DEF Subscribed!FailuresAreReported
<1> QED
  BY <1>1, <1>5, <1>6, <1>7, <1>8, <1>9

\* A message that brings a document: the one it carries, or the one that is read then.
LEMMA SubscribedReads ==
    ASSUME Subscribed!Bounds, Subscribed!IndInv, Subscribed!ReadAgain \/ Subscribed!Entry
    PROVE  Subscribed!IndInv'
<1> USE DEF Subscribed!IndInv
<1> DEFINE L == Subscribed!Latest
<1>0. Subscribed!Hear
  BY DEF Subscribed!ReadAgain, Subscribed!Entry
<1>1. /\ subscribedAt = "waiting"
      /\ UNCHANGED <<subscribedKind, keyStates, subscribed, lastList,
                     subscribedDelivered, complete_at>>
      /\ Len(queue) \in Nat /\ Len(queue) >= 1 /\ Len(queue') = Len(queue) - 1
      /\ Head(queue) = queue[1] /\ queue[1].state \in 1 .. SubscribedWrites
      /\ queue' \in Seq([quiet : BOOLEAN, state : 1 .. SubscribedWrites])
      /\ \A i \in 1 .. Len(queue) - 1 : queue'[i] = queue[i + 1]
      /\ queue' = << >> <=> Len(queue) = 1
      /\ Subscribed!SaidInOrder'
  BY <1>0, SubscribedHears
<1>2. /\ subscribedAt' = "holding" /\ subscribedAnswered' = TRUE
      /\ UNCHANGED <<subscribedFailing, subscribedFaults>>
  BY DEF Subscribed!ReadAgain, Subscribed!Entry
<1>3. /\ Subscribed!Watched' = Subscribed!Watched /\ Subscribed!States' = Subscribed!States
      /\ \A s : Subscribed!Complete(s)' = Subscribed!Complete(s)
      /\ L' = L /\ Subscribed!Current' = Subscribed!Current
  BY <1>1, SameKeys DEF Subscribed!Latest, Subscribed!Current
<1>4. L \in 1 .. SubscribedWrites /\ SubscribedWrites \in Nat
  BY SubscribedTypes
<1> HIDE DEF L
<1>5. PICK h \in 1 .. L :
          /\ document' = keyStates[h] /\ Subscribed!Complete(document')
          /\ subscribedKind # "nats" => h = L
          /\ subscribedKind = "nats" => h = queue[1].state
  <2>1. CASE Subscribed!ReadAgain
    <3>1. /\ document' = Subscribed!Current /\ subscribedKind # "nats"
          /\ Subscribed!Complete(document')
      BY <1>3, <2>1 DEF Subscribed!ReadAgain, Subscribed!Read, Subscribed!Complete
    <3>2. L \in 1 .. L /\ document' = keyStates[L]
      BY <1>4, <3>1, SubscribedTypes DEF L
    <3> QED
      BY <3>1, <3>2
  <2>2. CASE Subscribed!Entry
    <3>1. /\ subscribedKind = "nats" /\ ~queue[1].quiet
          /\ document' = keyStates[queue[1].state]
      BY <1>1, <2>2 DEF Subscribed!Entry
    <3>2. 1 \in 1 .. Len(queue)
      BY <1>1
    <3>3. queue[1].state <= L /\ Subscribed!Complete(keyStates[queue[1].state])
      BY <3>1, <3>2 DEF Subscribed!SaidInOrder, L
    <3>4. queue[1].state \in 1 .. L
      BY <1>1, <1>4, <3>3
    <3> QED
      BY <3>1, <3>3, <3>4
  <2> QED
    BY <2>1, <2>2
<1>6. Subscribed!TypeOK'
  <2>1. document' \in Subscribed!States /\ document' # Subscribed!None
    BY <1>5, SubscribedTypes, NoneIsNoState DEF L
  <2>2. Subscribed!None' = Subscribed!None
    BY DEF Subscribed!None
  <2> QED
    BY <1>1, <1>2, <1>3, <2>1, <2>2 DEF Subscribed!TypeOK, L
<1>7. Subscribed!InHand'
  <2>1. Subscribed!Complete(document)' <=> Subscribed!Complete(document')
    BY <1>3 DEF Subscribed!Complete
  <2> QED
    BY <1>1, <1>2, <1>3, <1>5, <2>1 DEF Subscribed!InHand, Subscribed!None
<1>8. Subscribed!GoesForward'
  <2>1. PICK was \in [1 .. Len(subscribedDelivered) -> 1 .. L], heard \in 0 .. L :
            Subscribed!HeardUntil(was, heard)
    BY DEF Subscribed!GoesForward, L
  <2>2. \A i \in DOMAIN was : was[i] <= h /\ (subscribedKind = "nats" => was[i] < h)
    <3> TAKE i \in DOMAIN was
    <3>1. was[i] \in 1 .. L /\ heard \in Nat /\ was[i] <= heard
      BY <1>4, <2>1 DEF Subscribed!HeardUntil
    <3>2. CASE subscribedKind = "nats"
      <4>1. 1 \in 1 .. Len(queue)
        BY <1>1
      <4>2. heard < h
        BY <1>5, <2>1, <3>2, <4>1 DEF Subscribed!HeardUntil
      <4> QED
        BY <1>4, <3>1, <4>2
    <3>3. CASE subscribedKind # "nats"
      <4>1. h = L /\ was[i] <= L
        BY <1>4, <1>5, <3>1, <3>3
      <4> QED
        BY <3>3, <4>1
    <3> QED
      BY <3>2, <3>3
  <2>3. ASSUME subscribedKind = "nats", NEW i \in 1 .. Len(queue')
        PROVE  h < queue'[i].state
    <3>1. i + 1 \in 1 .. Len(queue) /\ queue'[i] = queue[i + 1]
      <4>1. i \in 1 .. Len(queue) - 1 /\ Len(queue) \in Nat
        BY <1>1
      <4>2. \A n \in 1 .. Len(queue) - 1 : queue'[n] = queue[n + 1]
        BY <1>1
      <4> QED
        BY <4>1, <4>2
    <3>2. queue[1].state < queue[i + 1].state
      <4>1. 1 \in 1 .. Len(queue) /\ 1 < i + 1
        BY <3>1
      <4> QED
        BY <2>3, <3>1, <4>1 DEF Subscribed!SaidInOrder
    <3> QED
      BY <1>5, <2>3, <3>1, <3>2
  <2>4. /\ Subscribed!HeardUntil(was, h)' /\ h \in 0 .. L'
        /\ was \in [1 .. Len(subscribedDelivered') -> 1 .. L']
    <3>1. h # 0 /\ h \in 0 .. L'
      BY <1>3, <1>4
    <3>2. was \in [1 .. Len(subscribedDelivered') -> 1 .. L']
      BY <1>1, <1>3, <2>1
    <3>3. Subscribed!HeardUntil(was, h)'
      BY <1>1, <1>2, <1>5, <2>1, <2>2, <2>3, <3>1 DEF Subscribed!HeardUntil
    <3> QED
      BY <3>1, <3>2, <3>3
  <2> QED
    BY <2>4 DEF Subscribed!GoesForward, L
<1>9. Subscribed!LatestIsHeardOf'
  <2> SUFFICES ASSUME complete_at < L
               PROVE  /\ queue' # << >> =>
                            /\ queue'[Len(queue')].state = L
                            /\ Subscribed!Complete(Subscribed!Current) =>
                                  ~queue'[Len(queue')].quiet
                      /\ queue' = << >> => document' = Subscribed!Current
    BY <1>1, <1>2, <1>3 DEF Subscribed!LatestIsHeardOf, Subscribed!Complete, L
  <2>1. /\ queue[Len(queue)].state = L
        /\ Subscribed!Complete(Subscribed!Current) => ~queue[Len(queue)].quiet
    <3>1. queue # << >>
      BY <1>0 DEF Subscribed!Hear
    <3> QED
      BY <1>1, <3>1 DEF Subscribed!LatestIsHeardOf, L
  <2>2. queue' # << >> => queue'[Len(queue')] = queue[Len(queue)]
    <3>1. queue' # << >> => /\ Len(queue') \in 1 .. Len(queue) - 1
                            /\ Len(queue') + 1 = Len(queue)
      BY <1>1
    <3> QED
      BY <1>1, <3>1
  <2>3. queue' = << >> => document' = Subscribed!Current
    <3>1. queue' = << >> => h = L
      BY <1>1, <1>5, <2>1
    <3> QED
      BY <1>5, <3>1, SubscribedTypes DEF L
  <2> QED
    BY <2>1, <2>2, <2>3
<1>10. Subscribed!FailuresAreReported'
  BY <1>2 DEF Subscribed!FailuresAreReported
<1> QED
  BY <1>1, <1>6, <1>7, <1>8, <1>9, <1>10

\* A list that was read again and says the same is not delivered twice.
LEMMA SubscribedCoalesces ==
    ASSUME Subscribed!Bounds, Subscribed!IndInv, Subscribed!Coalesced
    PROVE  Subscribed!IndInv'
<1> USE DEF Subscribed!IndInv
<1>1. /\ subscribedAt = "holding" /\ subscribedKind = "redis_list" /\ document = lastList
      /\ subscribedAt' = "waiting" /\ document' = Subscribed!None
      /\ UNCHANGED <<subscribedKind, keyStates, subscribed, queue, lastList,
                     subscribedDelivered, complete_at, subscribedAnswered,
                     subscribedFailing, subscribedFaults>>
  BY DEF Subscribed!Coalesced
<1>2. /\ Subscribed!Watched' = Subscribed!Watched /\ Subscribed!States' = Subscribed!States
      /\ \A s : Subscribed!Complete(s)' = Subscribed!Complete(s)
      /\ Subscribed!Latest' = Subscribed!Latest /\ Subscribed!Current' = Subscribed!Current
      /\ Subscribed!None' = Subscribed!None
  BY <1>1, SameKeys DEF Subscribed!Latest, Subscribed!Current, Subscribed!None
<1>3. Subscribed!TypeOK'
  BY <1>1, <1>2 DEF Subscribed!TypeOK
<1>4. Subscribed!InHand'
  BY <1>1, <1>2 DEF Subscribed!InHand
<1>5. Subscribed!SaidInOrder' /\ Subscribed!GoesForward'
  BY <1>1, StillForward
<1>6. Subscribed!LatestIsHeardOf'
  <2>1. document # Subscribed!None
    BY <1>1 DEF Subscribed!TypeOK
  <2>2. /\ subscribedDelivered # << >>
        /\ document = subscribedDelivered[Len(subscribedDelivered)]
    BY <1>1, <2>1 DEF Subscribed!InHand
  <2> SUFFICES ASSUME complete_at < Subscribed!Latest
               PROVE  /\ queue # << >> =>
                            /\ queue[Len(queue)].state = Subscribed!Latest
                            /\ Subscribed!Complete(Subscribed!Current) =>
                                  ~queue[Len(queue)].quiet
                      /\ queue = << >> /\ subscribedAnswered
                            /\ Subscribed!Complete(Subscribed!Current) =>
                              document = Subscribed!Current
    BY <1>1, <1>2, <2>2 DEF Subscribed!LatestIsHeardOf, Subscribed!Complete
  <2> QED
    BY <1>1 DEF Subscribed!LatestIsHeardOf
<1>7. Subscribed!FailuresAreReported'
  BY <1>1 DEF Subscribed!FailuresAreReported
<1> QED
  BY <1>3, <1>4, <1>5, <1>6, <1>7

\* The document in hand is delivered.
LEMMA SubscribedHandsOver ==
    ASSUME Subscribed!Bounds, Subscribed!IndInv, Subscribed!HandOver
    PROVE  Subscribed!IndInv'
<1> USE DEF Subscribed!IndInv
<1> DEFINE L == Subscribed!Latest
           N == Len(subscribedDelivered)
<1>1. /\ subscribedAt = "holding"
      /\ ~(subscribedKind = "redis_list" /\ document = lastList)
      /\ subscribedDelivered' = Append(subscribedDelivered, document)
      /\ lastList' = IF subscribedKind = "redis_list" THEN document ELSE Subscribed!None
      /\ document' = Subscribed!None
      /\ \/ subscribedAt' = "waiting" /\ subscribedFailing' = FALSE
         \/ subscribedAt' = "ended" /\ UNCHANGED subscribedFailing
      /\ UNCHANGED <<subscribedKind, keyStates, subscribed, queue, complete_at,
                     subscribedAnswered, subscribedFaults>>
  BY DEF Subscribed!HandOver
<1>2. /\ Subscribed!Watched' = Subscribed!Watched /\ Subscribed!States' = Subscribed!States
      /\ \A s : Subscribed!Complete(s)' = Subscribed!Complete(s)
      /\ L' = L /\ Subscribed!Current' = Subscribed!Current
      /\ Subscribed!None' = Subscribed!None
  BY <1>1, SameKeys DEF Subscribed!Latest, Subscribed!Current, Subscribed!None
<1>3. L \in 1 .. SubscribedWrites /\ SubscribedWrites \in Nat
  BY SubscribedTypes
<1>4. /\ document \in Subscribed!States /\ document # Subscribed!None
      /\ Subscribed!Complete(document) /\ subscribedAnswered
      /\ subscribed = Subscribed!Watched
  BY <1>1 DEF Subscribed!TypeOK, Subscribed!InHand
<1> DEFINE Full == {s \in Subscribed!States : Subscribed!Complete(s)}
<1>5. /\ subscribedDelivered \in Seq(Full) /\ document \in Full /\ Full' = Full
  BY <1>2, <1>4 DEF Subscribed!TypeOK
<1> HIDE DEF L, Full
<1>6. /\ subscribedDelivered' \in Seq(Full) /\ Len(subscribedDelivered') = N + 1 /\ N \in Nat
      /\ \A i \in 1 .. N : subscribedDelivered'[i] = subscribedDelivered[i]
      /\ subscribedDelivered'[N + 1] = document /\ subscribedDelivered' # << >>
  <2>1. /\ Append(subscribedDelivered, document) \in Seq(Full)
        /\ Len(Append(subscribedDelivered, document)) = N + 1 /\ N \in Nat
        /\ \A i \in 1 .. N : Append(subscribedDelivered, document)[i] = subscribedDelivered[i]
        /\ Append(subscribedDelivered, document)[N + 1] = document
    BY <1>5, LongerHistory
  <2>2. Append(subscribedDelivered, document) # << >>
    BY <1>5, LongerHistory
  <2> QED
    BY <1>1, <2>1, <2>2
<1> HIDE DEF N
<1>7. Subscribed!TypeOK'
  <2>1. subscribedDelivered' \in Seq({s \in Subscribed!States' : Subscribed!Complete(s)'})
    BY <1>5, <1>6 DEF Full
  <2>2. subscribedFailing' \in BOOLEAN /\ lastList' \in Subscribed!States \cup {Subscribed!None}
    BY <1>1, <1>4 DEF Subscribed!TypeOK
  <2> QED
    BY <1>1, <1>2, <2>1, <2>2 DEF Subscribed!TypeOK, L
<1>8. Subscribed!InHand'
  <2>1. Len(subscribedDelivered') = N + 1
    BY <1>6
  <2> QED
    BY <1>1, <1>2, <1>4, <1>6, <2>1 DEF Subscribed!InHand
<1>9. Subscribed!SaidInOrder'
  BY <1>1, SameKeys DEF Subscribed!SaidInOrder, Subscribed!Latest, Subscribed!Complete
<1>10. Subscribed!GoesForward'
  <2>1. PICK was \in [1 .. N -> 1 .. L], heard \in 0 .. L : Subscribed!HeardUntil(was, heard)
    BY DEF Subscribed!GoesForward, L, N
  <2>2. /\ \A i \in 1 .. N : /\ keyStates[was[i]] = subscribedDelivered[i]
                             /\ was[i] <= heard /\ was[i] \in 1 .. L
                             /\ subscribedKind = "nats" => was[i] < heard
        /\ heard \in 1 .. L /\ keyStates[heard] = document
        /\ \A i \in 1 .. N - 1 :
              IF subscribedKind = "redis_key" THEN was[i] <= was[i + 1] ELSE was[i] < was[i + 1]
    <3>1. DOMAIN was = 1 .. N /\ heard \in Nat /\ \A i \in 1 .. N : was[i] \in 1 .. L
      BY <1>3, <2>1
    <3>2. heard # 0
      BY <1>1, <2>1 DEF Subscribed!HeardUntil
    <3> QED
      BY <1>1, <1>3, <2>1, <3>1, <3>2 DEF Subscribed!HeardUntil, N
  <2>3. N # 0 => IF subscribedKind = "redis_key" THEN was[N] <= heard ELSE was[N] < heard
    <3> SUFFICES ASSUME N # 0, subscribedKind = "redis_list" PROVE was[N] # heard
      <4>1. N # 0 => N \in 1 .. N
        BY <1>6
      <4>2. N # 0 => was[N] <= heard /\ was[N] \in Nat /\ heard \in Nat
                     /\ (subscribedKind = "nats" => was[N] < heard)
        BY <1>3, <2>2, <4>1
      <4>3. subscribedKind \in {"redis_key", "redis_list", "nats"}
        BY DEF Subscribed!TypeOK, Subscribed!Bounds
      <4> QED
        BY <4>2, <4>3
    <3>1. N \in 1 .. N
      BY <1>6
    <3>2. subscribedDelivered # << >>
      BY <3>1 DEF N
    <3>3. lastList = subscribedDelivered[N]
      BY <3>2 DEF Subscribed!InHand, N
    <3>4. keyStates[was[N]] = lastList /\ keyStates[heard] = document
      BY <2>2, <3>1, <3>3
    <3> QED
      BY <1>1, <3>4
  <2>4. PICK now \in [1 .. N + 1 -> 1 .. L] :
            /\ DOMAIN now = 1 .. N + 1
            /\ \A i \in 1 .. N : now[i] = was[i]
            /\ now[N + 1] = heard
    <3> DEFINE one == [i \in 1 .. N + 1 |-> IF i <= N THEN was[i] ELSE heard]
    <3>1. /\ one \in [1 .. N + 1 -> 1 .. L] /\ DOMAIN one = 1 .. N + 1
          /\ \A i \in 1 .. N : one[i] = was[i]
          /\ one[N + 1] = heard
      BY <1>6, <2>2
    <3> HIDE DEF one
    <3> QED
      BY <3>1
  <2>5. \A i \in 1 .. N + 1 : keyStates[now[i]] = subscribedDelivered'[i] /\ now[i] <= heard
    <3> TAKE i \in 1 .. N + 1
    <3>1. CASE i <= N
      <4>1. i \in 1 .. N
        BY <1>6, <3>1
      <4> QED
        BY <1>6, <2>2, <2>4, <4>1
    <3>2. CASE i = N + 1
      BY <1>6, <2>2, <2>4, <3>2
    <3> QED
      BY <1>6, <3>1, <3>2
  <2>6. \A i \in 1 .. N :
            IF subscribedKind = "redis_key" THEN now[i] <= now[i + 1] ELSE now[i] < now[i + 1]
    <3> TAKE i \in 1 .. N
    <3>1. CASE i < N
      <4>1. i \in 1 .. N - 1 /\ i + 1 \in 1 .. N
        BY <1>6, <3>1
      <4> QED
        BY <2>2, <2>4, <4>1
    <3>2. CASE i = N
      BY <1>6, <2>3, <2>4, <3>2
    <3> QED
      BY <1>6, <3>1, <3>2
  <2>7. subscribedKind = "nats" => \A i \in 1 .. Len(queue) : heard < queue[i].state
    BY <2>1 DEF Subscribed!HeardUntil
  <2>8. Len(subscribedDelivered') = N + 1 /\ Len(subscribedDelivered') - 1 = N
    BY <1>6
  <2>9. Subscribed!HeardUntil(now, heard)'
    BY <1>1, <2>4, <2>5, <2>6, <2>7, <2>8 DEF Subscribed!HeardUntil
  <2>10. now \in [1 .. Len(subscribedDelivered') -> 1 .. L'] /\ heard \in 0 .. L'
    BY <1>2, <1>3, <2>2, <2>4, <2>8
  <2> QED
    BY <2>9, <2>10 DEF Subscribed!GoesForward, L
<1>11. Subscribed!LatestIsHeardOf'
  <2> SUFFICES ASSUME subscribedAt' = "waiting", complete_at < L
               PROVE  /\ queue # << >> =>
                            /\ queue[Len(queue)].state = L
                            /\ Subscribed!Complete(Subscribed!Current) =>
                                  ~queue[Len(queue)].quiet
                      /\ queue = << >> /\ Subscribed!Complete(Subscribed!Current) =>
                              document = Subscribed!Current
    <3>1. subscribedDelivered'[Len(subscribedDelivered')] = document
      BY <1>6
    <3> QED
      BY <1>1, <1>2, <1>6, <3>1 DEF Subscribed!LatestIsHeardOf, Subscribed!Complete, L
  <2> QED
    BY <1>1, <1>4 DEF Subscribed!LatestIsHeardOf, L
<1>12. Subscribed!FailuresAreReported'
  BY <1>1, <1>4 DEF Subscribed!FailuresAreReported
<1> QED
  BY <1>7, <1>8, <1>9, <1>10, <1>11, <1>12

LEMMA SubscribedNext ==
    Subscribed!Bounds /\ Subscribed!IndInv /\ [Subscribed!Next]_(Subscribed!vars)
        => Subscribed!IndInv'
<1> SUFFICES ASSUME Subscribed!Bounds, Subscribed!IndInv, [Subscribed!Next]_(Subscribed!vars)
             PROVE  Subscribed!IndInv'
  OBVIOUS
<1>1. CASE Subscribed!Put \/ Subscribed!Remove
  BY <1>1, SubscribedCommand
<1>2. CASE Subscribed!Subscribe
  BY <1>2, SubscribedSubscribe
<1>3. CASE Subscribed!SubscriptionFails \/ Subscribed!Stop
  BY <1>3, SubscribedEnds
<1>4. CASE Subscribed!Skip \/ Subscribed!ReadFails
  BY <1>4, SubscribedNothing
<1>5. CASE Subscribed!ReadAgain \/ Subscribed!Entry
  BY <1>5, SubscribedReads
<1>6. CASE Subscribed!Coalesced
  BY <1>6, SubscribedCoalesces
<1>7. CASE Subscribed!HandOver
  BY <1>7, SubscribedHandsOver
<1>8. CASE UNCHANGED Subscribed!vars
  <2>1. UNCHANGED <<subscribedKind, keyStates, subscribed, queue, subscribedAt, document,
                    lastList, subscribedDelivered, complete_at, subscribedAnswered,
                    subscribedFailing, subscribedFaults>>
    BY <1>8 DEF Subscribed!vars
  <2> USE DEF Subscribed!Latest, Subscribed!Current, Subscribed!Complete,
              Subscribed!Watched, Subscribed!States, Subscribed!None
  <2>2. Subscribed!TypeOK'
    BY <2>1 DEF Subscribed!IndInv, Subscribed!TypeOK
  <2>3. Subscribed!InHand' /\ Subscribed!SaidInOrder'
    BY <2>1 DEF Subscribed!IndInv, Subscribed!InHand, Subscribed!SaidInOrder
  <2>4. Subscribed!GoesForward'
    <3>1. PICK was \in [1 .. Len(subscribedDelivered) -> 1 .. Subscribed!Latest],
               heard \in 0 .. Subscribed!Latest : Subscribed!HeardUntil(was, heard)
      BY DEF Subscribed!IndInv, Subscribed!GoesForward
    <3>2. Subscribed!HeardUntil(was, heard)'
      BY <2>1, <3>1 DEF Subscribed!HeardUntil
    <3> QED
      BY <2>1, <3>1, <3>2 DEF Subscribed!GoesForward
  <2>5. Subscribed!LatestIsHeardOf' /\ Subscribed!FailuresAreReported'
    BY <2>1 DEF Subscribed!IndInv, Subscribed!LatestIsHeardOf,
       Subscribed!FailuresAreReported
  <2> QED
    BY <2>2, <2>3, <2>4, <2>5 DEF Subscribed!IndInv
<1> QED
  BY <1>1, <1>2, <1>3, <1>4, <1>5, <1>6, <1>7, <1>8 DEF Subscribed!Next

\* The invariant always holds.
LEMMA SubscribedInv == Subscribed!Bounds => (Subscribed!Spec => []Subscribed!IndInv)
<1> SUFFICES ASSUME Subscribed!Bounds PROVE Subscribed!Spec => []Subscribed!IndInv
  OBVIOUS
<1>1. Subscribed!Init => Subscribed!IndInv
  BY SubscribedInit
<1>2. Subscribed!IndInv /\ [Subscribed!Next]_(Subscribed!vars) => Subscribed!IndInv'
  BY SubscribedNext
<1> QED
  BY <1>1, <1>2, PTL DEF Subscribed!Spec

\* At rest, a subscription has delivered what the store says.
LEMMA RestIsCurrent ==
    ASSUME Subscribed!Bounds, Subscribed!IndInv PROVE Subscribed!AtRestIsCurrent
  BY DEF Subscribed!IndInv, Subscribed!LatestIsHeardOf, Subscribed!AtRestIsCurrent

\* The deliveries of a subscription are of states the store was in, in order.
LEMMA DeliveriesAreStates ==
    ASSUME Subscribed!Bounds, Subscribed!IndInv PROVE Subscribed!NeverTornNorOlder
  BY DEF Subscribed!IndInv, Subscribed!GoesForward, Subscribed!HeardUntil,
     Subscribed!NeverTornNorOlder

-----------------------------------------------------------------------------
(* What the watches promise together.                                      *)

\* Whatever a watch survives, or ends on, the sink has been told of: there is no way
\* through the loop of a poll, of Consul's queries or of a subscription on which a failure
\* is not recorded before the loop goes on.
THEOREM NoFailureIsSilent ==
    Polled!Spec /\ Consul!Spec /\ Subscribed!Spec => []FailuresAreReported
<1>1. Polled!IndInv /\ Consul!IndInv /\ Subscribed!IndInv => FailuresAreReported
  BY DEF Polled!IndInv, Consul!IndInv, Subscribed!IndInv, FailuresAreReported
<1>2. Polled!Bounds /\ Consul!Bounds /\ Subscribed!Bounds
  BY WatchesBounds
<1>3. /\ Polled!Spec => []Polled!IndInv
      /\ Consul!Spec => []Consul!IndInv
      /\ Subscribed!Spec => []Subscribed!IndInv
  BY <1>2, PolledInv, ConsulInv, SubscribedInv
<1> QED
  BY <1>1, <1>3, PTL

\* What is delivered goes forward: a poll delivers a write at most once, etcd a revision
\* after the one before, Consul an index that is not behind, and Redis and NATS a state
\* the store was in, not older than the last.
THEOREM NoDeliveryGoesBack ==
    Polled!Spec /\ Etcd!Spec /\ Consul!Spec /\ Subscribed!Spec => []DeliveriesGoForward
<1>1. Polled!Bounds /\ Etcd!Bounds /\ Consul!Bounds /\ Subscribed!Bounds
  BY WatchesBounds
<1>2. Polled!IndInv /\ Etcd!IndInv /\ Consul!IndInv /\ Subscribed!IndInv
        => DeliveriesGoForward
  BY <1>1, DeliveriesAreStates
     DEF Polled!IndInv, Etcd!IndInv, Consul!IndInv, DeliveriesGoForward
<1>3. /\ Polled!Spec => []Polled!IndInv
      /\ Etcd!Spec => []Etcd!IndInv
      /\ Consul!Spec => []Consul!IndInv
      /\ Subscribed!Spec => []Subscribed!IndInv
  BY <1>1, PolledInv, EtcdInv, ConsulInv, SubscribedInv
<1> QED
  BY <1>2, <1>3, PTL

\* And nothing is passed over on the way: what a poll takes for seen was handed over, no
\* revision is skipped between two streams, what Consul's query goes on from is what the
\* program holds, and a subscription at rest has delivered what the store says.
THEOREM NoWriteIsPassedOver ==
    Polled!Spec /\ Etcd!Spec /\ Consul!Spec /\ Subscribed!Spec => []NothingIsSkipped
<1>1. Polled!Bounds /\ Etcd!Bounds /\ Consul!Bounds /\ Subscribed!Bounds
  BY WatchesBounds
<1>2. Polled!IndInv /\ Etcd!IndInv /\ Consul!IndInv /\ Subscribed!IndInv
        => NothingIsSkipped
  BY <1>1, RestIsCurrent
     DEF Polled!IndInv, Etcd!IndInv, Consul!IndInv, NothingIsSkipped
<1>3. /\ Polled!Spec => []Polled!IndInv
      /\ Etcd!Spec => []Etcd!IndInv
      /\ Consul!Spec => []Consul!IndInv
      /\ Subscribed!Spec => []Subscribed!IndInv
  BY <1>1, PolledInv, EtcdInv, ConsulInv, SubscribedInv
<1> QED
  BY <1>2, <1>3, PTL

=============================================================================
