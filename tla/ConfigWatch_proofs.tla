------------------------- MODULE ConfigWatch_proofs -------------------------
(***************************************************************************)
(* That places in the stream's ceiling are neither lost nor given twice,   *)
(* that the id a client resumes from names something it has read, that a   *)
(* client nothing holds up has the current document, and that, while one   *)
(* process serves, it sees what WatchContract promises: for any number of  *)
(* clients, edits, faults, restarts and any ceiling.                       *)
(*                                                                         *)
(* The section's part is proved in ServedSection_proofs and instantiated   *)
(* here, as the section is (SectionKeeps).  What the streams need of it is *)
(* that the number a process publishes only grows (SectionMoves).          *)
(*                                                                         *)
(* The first result needs that a client that subscribes has no connection; *)
(* the second that what it was told of is installed by the time it reads   *)
(* (Following): an event follows its generation, and the document loaded   *)
(* for it from the same process is the newest installed.  The third adds   *)
(* where a client is in what it was sent (Reading) and what it may still   *)
(* hold of an earlier process (Holding); the contract, that what it has    *)
(* yet to read is in order and newer than all it has read (Forward).       *)
(***************************************************************************)
EXTENDS ConfigWatch, FiniteSetTheorems, TLAPS

Proved == INSTANCE ServedSection_proofs WITH Requests <- Clients

-----------------------------------------------------------------------------
(* The section, under its two names.                                       *)

LEMMA SameSection ==
    /\ Section!TypeOK = Proved!TypeOK /\ Section!Counted = Proved!Counted
    /\ (Section!TypeOK)' = (Proved!TypeOK)' /\ (Section!Counted)' = (Proved!Counted)'
  BY DEF Section!TypeOK, Proved!TypeOK, Section!Versions, Proved!Versions,
     Section!Counted, Proved!Counted, Section!Idle, Proved!Idle

LEMMA SameSteps == Section!Next = Proved!Next
  BY DEF Section!Next, Proved!Next, Section!Edit, Proved!Edit,
     Section!Reloads, Proved!Reloads, Section!WatchWakes, Proved!WatchWakes,
     Section!ReloadCalled, Proved!ReloadCalled, Section!ReadSources, Proved!ReadSources,
     Section!PublishDocument, Proved!PublishDocument,
     Section!PublishGeneration, Proved!PublishGeneration,
     Section!Crash, Proved!Crash, Section!LoadAtStart, Proved!LoadAtStart,
     Section!WatchAtStart, Proved!WatchAtStart,
     Section!Installed, Proved!Installed, Section!LoadGeneration, Proved!LoadGeneration,
     Section!LoadDocument, Proved!LoadDocument, Section!TakeAnswer, Proved!TakeAnswer,
     Section!Idle, Proved!Idle, Section!NoRequest, Proved!NoRequest,
     Section!Current, Proved!Current

\* What ServedSection_proofs shows of a step of the section.
LEMMA SectionKeeps ==
    Section!TypeOK /\ Section!Counted /\ Section!Next
        => (Section!TypeOK)' /\ (Section!Counted)'
<1>1. Proved!BoundsAreNaturals
  BY StreamBounds DEF Proved!BoundsAreNaturals
<1> QED
  BY <1>1, Proved!NextTypeOK, Proved!NextCounted, SameSection, SameSteps

\* Every step of the whole is one of the section, or leaves it alone but for a request.
LEMMA StepOfSection ==
    ASSUME Section!TypeOK, Section!Counted, [Next]_vars
    PROVE  (Section!TypeOK)' /\ (Section!Counted)'
<1>1. CASE Section!Next
  BY <1>1, SectionKeeps
<1>2. CASE UNCHANGED sectionVars
  BY <1>2 DEF sectionVars, Section!TypeOK, Section!Counted
<1>3. ASSUME NEW c \in Clients, FetchLost(c) PROVE (Section!TypeOK)' /\ (Section!Counted)'
  BY <1>3 DEF FetchLost, Section!TypeOK, Section!Counted, Section!NoRequest
<1>4. CASE SectionStep \/ Crash
  BY <1>1, <1>4 DEF SectionStep, Crash, Section!Next
<1>5. ASSUME NEW c \in Clients, Fetch(c) \/ Answer(c) \/ Deliver(c) \/ DeliveryRefused(c)
      PROVE  Section!Next
  BY <1>5 DEF Fetch, Answer, Deliver, DeliveryRefused, Section!Next, Section!Installed
<1>6. ASSUME NEW c \in Clients,
             \/ Emit(c) \/ Subscribe(c) \/ NotServed(c) \/ ReceiveOpening(c)
             \/ ReceiveChange(c) \/ FetchDies(c) \/ StreamLost(c) \/ StreamEnds(c) \/ Stop(c)
      PROVE  UNCHANGED sectionVars
  BY <1>6 DEF Emit, Subscribe, NotServed, ReceiveOpening, ReceiveChange, FetchDies,
     StreamLost, StreamEnds, Stop
<1>7. CASE OrphanDropped
  BY <1>2, <1>7 DEF OrphanDropped
<1>8. CASE UNCHANGED vars
  BY <1>2, <1>8 DEF vars
<1> QED
  BY <1>1, <1>2, <1>3, <1>4, <1>5, <1>6, <1>7, <1>8 DEF Next, ClientStep

\* What a step of the section alone does to the number: it grows while a process
\* runs, and no two processes are one.
LEMMA SectionMoves ==
    ASSUME Section!TypeOK, SectionStep
    PROVE  /\ UNCHANGED <<watchVars, request>>
           /\ \/ up' = up /\ process' = process /\ generation <= generation'
              \/ ~up /\ ~up' /\ process' = process
              \/ ~up /\ process' = process + 1
<1> USE DEF SectionStep, Section!TypeOK
<1>1. CASE Section!Edit
  BY <1>1 DEF Section!Edit
<1>2. CASE Section!Reloads
  BY <1>2 DEF Section!Reloads, Section!WatchWakes, Section!ReloadCalled,
     Section!ReadSources, Section!PublishDocument, Section!PublishGeneration
<1>3. CASE Section!LoadAtStart \/ Section!WatchAtStart
  BY <1>3 DEF Section!LoadAtStart, Section!WatchAtStart
<1> QED
  BY <1>1, <1>2, <1>3

-----------------------------------------------------------------------------
(* The types.                                                              *)

\* The program that has just started satisfies the invariant.
LEMMA InitInv == Init => IndInv
<1> SUFFICES ASSUME Init PROVE IndInv
  OBVIOUS
<1>1. Section!TypeOK /\ Section!Counted
  <2>1. Proved!Init = Section!Init
    BY DEF Proved!Init, Section!Init, Proved!Idle, Section!Idle, Proved!NoRequest,
       Section!NoRequest
  <2>2. Proved!BoundsAreNaturals
    BY StreamBounds DEF Proved!BoundsAreNaturals
  <2>3. Proved!IndInv
    BY <2>1, <2>2, Proved!InitInv DEF Init
  <2> QED
    BY <2>3, SameSection DEF Proved!IndInv
<1> USE StreamBounds DEF Init, NoStream, Nothing
<1>2. TypeOK
  BY <1>1 DEF TypeOK, Process, Version, Install
<1>3. \A c \in Clients : Following(c) /\ Reading(c) /\ Holding(c)
  BY DEF Following, Reading, Holding, Section!Init
<1>4. PermitsMatchStreams
  <2>1. {c \in Clients : stream[c].open} = {}
    OBVIOUS
  <2>2. Cardinality({c \in Clients : stream[c].open}) = 0
    BY <2>1, FS_EmptySet
  <2> QED
    BY <2>2 DEF PermitsMatchStreams
<1>5. ResumeMeansRead
  BY DEF ResumeMeansRead, IdsIncrease
<1>6. process # 0
  BY DEF Section!Init
<1> QED
  BY <1>1, <1>2, <1>3, <1>4, <1>5, <1>6 DEF IndInv

Streams == [open : BOOLEAN, process : Process, resume : Nat, sent : Nat]
Loops == [at : {"waiting", "streaming", "changed", "fetching", "ended"}, resume : Nat,
          opening : BOOLEAN, event : Nat, last : Version, holds : Version]
Histories == [read : Install, told : Process, byReading : BOOLEAN,
              fetched : Process, baseline : Install]

\* The types of the watch, one by one.
WatchTypes ==
    /\ streams \in Nat /\ orphans \in Nat
    /\ stream \in [Clients -> Streams] /\ wire \in [Clients -> Seq(Nat)]
    /\ client \in [Clients -> Loops]
    /\ faults \in 0 .. MaxFaults
    /\ seen \in [Clients -> Histories]

LEMMA Types == /\ TypeOK <=> Section!TypeOK /\ WatchTypes
               /\ TypeOK' <=> (Section!TypeOK)' /\ WatchTypes'
  BY DEF TypeOK, WatchTypes, Streams, Loops, Histories

\* What the section's types say of what a client is answered.
LEMMA Answers ==
    ASSUME Section!TypeOK, NEW c \in Clients
    PROVE  /\ request[c].install \in Nat /\ request[c].version \in Version
           /\ request[c].at \in {"none", "labelled", "answered"}
           /\ process \in Nat /\ generation \in Nat /\ Len(installs) \in Nat
           /\ up \in BOOLEAN
  BY StreamBounds DEF Section!TypeOK, Section!Versions, Version

\* A client's end abandoned.
LEMMA AbandonTypes ==
    ASSUME WatchTypes, NEW c \in Clients, Abandon(c)
    PROVE  /\ orphans' \in Nat /\ stream' \in [Clients -> Streams]
           /\ wire' \in [Clients -> Seq(Nat)]
<1>1. NoStream \in Streams
  BY DEF NoStream, Streams, Process
<1> QED
  BY <1>1 DEF Abandon, WatchTypes

\* Every step keeps the types.
LEMMA NextTypes == TypeOK /\ Section!Counted /\ PermitsMatchStreams /\ [Next]_vars => TypeOK'
<1> SUFFICES ASSUME TypeOK, Section!Counted, PermitsMatchStreams, [Next]_vars
             PROVE  WatchTypes'
  BY StepOfSection, Types
<1>0. Section!TypeOK /\ WatchTypes
  BY Types
<1>a. /\ streams \in Nat /\ orphans \in Nat /\ stream \in [Clients -> Streams]
      /\ wire \in [Clients -> Seq(Nat)] /\ client \in [Clients -> Loops]
      /\ faults \in 0 .. MaxFaults /\ seen \in [Clients -> Histories]
  BY <1>0 DEF WatchTypes
<1>b. MaxFaults \in Nat
  BY StreamBounds
<1>1. CASE SectionStep
  BY <1>a, <1>1 DEF SectionStep, watchVars, WatchTypes
<1>2. CASE Crash
  <2>1. stream' \in [Clients -> Streams]
    BY <1>a, <1>2 DEF Crash, Streams
  <2> QED
    BY <1>a, <1>2, <2>1 DEF Crash, WatchTypes
\* A stream that is an orphan has a permit.
<1>3. CASE OrphanDropped
  <2>1. {c \in Clients : stream[c].open} \subseteq Clients /\ IsFiniteSet(Clients)
    BY StreamBounds
  <2>2. Cardinality({c \in Clients : stream[c].open}) \in Nat
    BY <2>1, FS_Subset, FS_CardinalityType
  <2> QED
    BY <1>a, <1>3, <2>2 DEF OrphanDropped, PermitsMatchStreams, WatchTypes
<1>4. ASSUME NEW c \in Clients, Emit(c) PROVE WatchTypes'
  <2>1. generation \in Nat /\ process \in Nat
    BY <1>0, Answers
  <2>2. stream' \in [Clients -> Streams]
    BY <1>a, <1>4, <2>1 DEF Emit, Streams
  <2>3. wire' \in [Clients -> Seq(Nat)]
    BY <1>a, <1>4, <2>1 DEF Emit
  <2>4. seen' \in [Clients -> Histories]
    <3> DEFINE here == [process |-> process, install |-> generation]
               baseline == IF seen[c].baseline = Nothing THEN here ELSE seen[c].baseline
    <3>1. here \in Install
      BY <2>1 DEF Install, Process
    <3>2. baseline \in Install
      BY <1>a, <3>1 DEF Histories
    <3>3. seen' = [seen EXCEPT ![c].baseline = baseline]
      BY <1>4 DEF Emit
    <3> HIDE DEF baseline
    <3> QED
      BY <1>a, <3>2, <3>3 DEF Histories
  <2> QED
    BY <1>a, <1>4, <2>2, <2>3, <2>4 DEF Emit, WatchTypes
<1>5. ASSUME NEW c \in Clients, Subscribe(c) PROVE WatchTypes'
  <2>1. process \in Nat /\ client[c].resume \in Nat
    BY <1>0, <1>a, Answers DEF Loops
  <2>2. stream' \in [Clients -> Streams]
    BY <1>a, <1>5, <2>1 DEF Subscribe, Streams, Process
  <2>3. client' \in [Clients -> Loops]
    <3> DEFINE loop == [client[c] EXCEPT !.at = "streaming", !.opening = client[c].resume = 0]
    <3>1. loop \in Loops
      BY <1>a DEF Loops
    <3>2. client' = [client EXCEPT ![c] = loop]
      BY <1>a, <1>5 DEF Subscribe, Loops
    <3> QED
      BY <1>a, <3>1, <3>2
  <2> QED
    BY <1>a, <1>5, <2>2, <2>3 DEF Subscribe, WatchTypes
<1>6. ASSUME NEW c \in Clients, NotServed(c) PROVE WatchTypes'
  <2>1. client' \in [Clients -> Loops]
    BY <1>a, <1>6 DEF NotServed, Loops
  <2> QED
    BY <1>a, <1>6, <2>1 DEF NotServed, WatchTypes
<1>7. ASSUME NEW c \in Clients, ReceiveOpening(c) \/ ReceiveChange(c) PROVE WatchTypes'
  <2>1. wire[c] \in Seq(Nat) /\ wire[c] # << >>
    BY <1>a, <1>7 DEF ReceiveOpening, ReceiveChange
  <2>2. Head(wire[c]) \in Nat /\ Tail(wire[c]) \in Seq(Nat)
    BY <2>1
  <2>3. wire' \in [Clients -> Seq(Nat)]
    BY <1>a, <1>7, <2>2 DEF ReceiveOpening, ReceiveChange
  <2>4. client' \in [Clients -> Loops]
    <3>1. CASE ReceiveOpening(c)
      <4> DEFINE loop == [client[c] EXCEPT !.opening = FALSE, !.resume = Head(wire[c])]
      <4>1. loop \in Loops
        BY <1>a, <2>2 DEF Loops
      <4>2. client' = [client EXCEPT ![c] = loop]
        BY <1>a, <3>1 DEF ReceiveOpening, Loops
      <4> QED
        BY <1>a, <4>1, <4>2
    <3>2. CASE ReceiveChange(c)
      <4> DEFINE loop == [client[c] EXCEPT !.at = "changed", !.event = Head(wire[c])]
      <4>1. loop \in Loops
        BY <1>a, <2>2 DEF Loops
      <4>2. client' = [client EXCEPT ![c] = loop]
        BY <1>a, <3>2 DEF ReceiveChange, Loops
      <4> QED
        BY <1>a, <4>1, <4>2
    <3> QED
      BY <1>7, <3>1, <3>2
  <2>5. seen' \in [Clients -> Histories]
    <3> DEFINE history == [seen[c] EXCEPT !.told = stream[c].process, !.byReading = FALSE]
    <3>1. history \in Histories
      BY <1>a DEF Histories, Streams
    <3>2. seen' = [seen EXCEPT ![c] = history] \/ seen' = seen
      BY <1>a, <1>7 DEF ReceiveOpening, ReceiveChange, Histories
    <3> QED
      BY <1>a, <3>1, <3>2
  <2> QED
    BY <1>a, <1>7, <2>3, <2>4, <2>5 DEF ReceiveOpening, ReceiveChange, WatchTypes
<1>8. ASSUME NEW c \in Clients, Fetch(c) PROVE WatchTypes'
  <2>1. client' \in [Clients -> Loops]
    BY <1>a, <1>8 DEF Fetch, Loops
  <2> QED
    BY <1>a, <1>8, <2>1 DEF Fetch, WatchTypes
<1>9. ASSUME NEW c \in Clients, Answer(c) PROVE WatchTypes'
  <2>1. process \in Process
    BY <1>0, Answers DEF Process
  <2>2. seen' \in [Clients -> Histories]
    BY <1>a, <1>9, <2>1 DEF Answer, Histories
  <2> QED
    BY <1>a, <1>9, <2>2 DEF Answer, WatchTypes
<1>10. ASSUME NEW c \in Clients, Deliver(c) PROVE WatchTypes'
  <2>1. request[c].install \in Nat /\ request[c].version \in Version
    BY <1>0, Answers
  <2>2. client' \in [Clients -> Loops]
    <3>1. client[c].event \in Nat /\ client[c].holds \in Version
      BY <1>a DEF Loops
    <3> QED
      BY <1>a, <1>10, <2>1, <3>1 DEF Deliver, Loops
  <2>3. seen' \in [Clients -> Histories]
    <3>1. [process |-> seen[c].fetched, install |-> request[c].install] \in Install
      BY <1>a, <2>1 DEF Histories, Install
    <3>2. stream[c].process \in Process
      BY <1>a DEF Streams
    <3> DEFINE read == [process |-> seen[c].fetched, install |-> request[c].install]
               told == stream[c].process
    <3>3. seen' = [seen EXCEPT ![c].read = read, ![c].told = told, ![c].byReading = TRUE]
      BY <1>10 DEF Deliver
    <3>4. read \in Install /\ told \in Process
      BY <3>1, <3>2
    <3> HIDE DEF read, told
    <3>5. [seen[c] EXCEPT !.read = read, !.told = told, !.byReading = TRUE] \in Histories
      BY <1>a, <3>4 DEF Histories
    <3>6. seen' = [seen EXCEPT ![c] =
                     [seen[c] EXCEPT !.read = read, !.told = told, !.byReading = TRUE]]
      BY <1>a, <3>3
    <3> QED
      BY <1>a, <3>5, <3>6
  <2> QED
    BY <1>a, <1>10, <2>2, <2>3 DEF Deliver, WatchTypes
<1>11. ASSUME NEW c \in Clients, DeliveryRefused(c) PROVE WatchTypes'
  <2>1. request[c].version \in Version
    BY <1>0, Answers
  <2>2. client' \in [Clients -> Loops]
    BY <1>a, <1>11, <2>1 DEF DeliveryRefused, Loops
  <2>3. Abandon(c)
    BY <1>11 DEF DeliveryRefused
  <2> QED
    BY <1>0, <1>a, <1>11, <2>2, <2>3, AbandonTypes DEF DeliveryRefused, WatchTypes
<1>12. ASSUME NEW c \in Clients, FetchDies(c) \/ FetchLost(c) \/ StreamEnds(c) \/ Stop(c)
       PROVE  WatchTypes'
  <2>1. Abandon(c)
    BY <1>12 DEF FetchDies, FetchLost, StreamEnds, Stop
  <2>2. client' \in [Clients -> Loops]
    <3>1. \/ client' = [client EXCEPT ![c].at = "waiting"]
          \/ client' = [client EXCEPT ![c].at = "ended"]
      BY <1>12 DEF FetchDies, FetchLost, StreamEnds, Stop
    <3>2. \A at \in {"waiting", "ended"} : [client EXCEPT ![c].at = at] \in [Clients -> Loops]
      BY <1>a DEF Loops
    <3> QED
      BY <3>1, <3>2
  <2>3. UNCHANGED <<streams, seen>> /\ faults' \in 0 .. MaxFaults
    BY <1>a, <1>b, <1>12 DEF FetchDies, FetchLost, StreamEnds, Stop
  <2> QED
    BY <1>0, <1>a, <2>1, <2>2, <2>3, AbandonTypes DEF WatchTypes
<1>13. ASSUME NEW c \in Clients, StreamLost(c) PROVE WatchTypes'
  <2>1. stream' \in [Clients -> Streams]
    BY <1>a, <1>13 DEF StreamLost, Streams
  <2> QED
    BY <1>a, <1>b, <1>13, <2>1 DEF StreamLost, WatchTypes
<1>14. CASE UNCHANGED vars
  BY <1>a, <1>14 DEF vars, watchVars, WatchTypes
<1> QED
  BY <1>1, <1>2, <1>3, <1>4, <1>5, <1>6, <1>7, <1>8, <1>9, <1>10, <1>11, <1>12, <1>13, <1>14
     DEF Next, ClientStep

\* What the types say of one client.
LEMMA OneClient ==
    ASSUME TypeOK, NEW c \in Clients
    PROVE  /\ stream[c] \in Streams /\ wire[c] \in Seq(Nat) /\ client[c] \in Loops
           /\ seen[c] \in Histories
           /\ stream[c].open \in BOOLEAN /\ stream[c].process \in Nat
           /\ stream[c].resume \in Nat /\ stream[c].sent \in Nat
           /\ client[c].event \in Nat /\ client[c].resume \in Nat
           /\ seen[c].read.install \in Nat /\ Len(wire[c]) \in Nat
           /\ \A i \in 1 .. Len(wire[c]) : wire[c][i] \in Nat
<1>1. WatchTypes
  BY Types
<1>2. /\ stream[c] \in Streams /\ wire[c] \in Seq(Nat) /\ client[c] \in Loops
      /\ seen[c] \in Histories
  BY <1>1 DEF WatchTypes
<1>3. seen[c].read.install \in Nat
  BY <1>2 DEF Histories, Install
<1>4. /\ stream[c].open \in BOOLEAN /\ stream[c].process \in Nat
      /\ stream[c].resume \in Nat /\ stream[c].sent \in Nat
  BY <1>2 DEF Streams, Process
<1>5. client[c].event \in Nat /\ client[c].resume \in Nat
  BY <1>2 DEF Loops
<1>6. Len(wire[c]) \in Nat /\ \A i \in 1 .. Len(wire[c]) : wire[c][i] \in Nat
  BY <1>2
<1> QED
  BY <1>2, <1>3, <1>4, <1>5, <1>6

-----------------------------------------------------------------------------
(* The places.                                                             *)

Open == {c \in Clients : stream[c].open}

LEMMA OpenIsFinite == IsFiniteSet(Open) /\ Cardinality(Open) \in Nat
                      /\ IsFiniteSet(Open') /\ Cardinality(Open') \in Nat
<1>1. Open \subseteq Clients /\ Open' \subseteq Clients /\ IsFiniteSet(Clients)
  BY StreamBounds DEF Open
<1> QED
  BY <1>1, FS_Subset, FS_CardinalityType

\* A connection the server no longer has is one fewer, if it was there.
LEMMA Closed ==
    ASSUME NEW c \in Clients, stream[c].open \in BOOLEAN, ~stream'[c].open,
           \A d \in Clients : d # c => stream'[d].open = stream[d].open
    PROVE  Cardinality(Open') =
              IF stream[c].open THEN Cardinality(Open) - 1 ELSE Cardinality(Open)
<1>1. Open' = Open \ {c}
  BY DEF Open
<1>2. c \in Open <=> stream[c].open
  BY DEF Open
<1>3. CASE stream[c].open
  BY <1>1, <1>2, <1>3, OpenIsFinite, FS_RemoveElement
<1>4. CASE ~stream[c].open
  <2>1. Open' = Open
    BY <1>1, <1>2, <1>4
  <2> QED
    BY <1>4, <2>1
<1> QED
  BY <1>3, <1>4

\* A connection given up is an orphan from then on, if the server has it.
LEMMA AbandonKeepsPlaces ==
    ASSUME TypeOK, NEW c \in Clients, Abandon(c)
    PROVE  Cardinality(Open') + orphans' = Cardinality(Open) + orphans
<1>1. stream \in [Clients -> Streams] /\ orphans \in Nat /\ stream[c].open \in BOOLEAN
  BY Types, OneClient DEF WatchTypes
<1>2. /\ ~stream'[c].open
      /\ \A d \in Clients : d # c => stream'[d].open = stream[d].open
  BY <1>1 DEF Abandon, NoStream
<1>3. Cardinality(Open') =
         IF stream[c].open THEN Cardinality(Open) - 1 ELSE Cardinality(Open)
  BY <1>1, <1>2, Closed
<1> QED
  BY <1>1, <1>3, OpenIsFinite DEF Abandon

Places == streams = Cardinality(Open) + orphans /\ streams <= MaxStreams

LEMMA SamePlaces == PermitsMatchStreams = Places /\ PermitsMatchStreams' = Places'
  BY DEF PermitsMatchStreams, Places, Open

\* Every step keeps the account of the places.
LEMMA NextPlaces ==
    ASSUME TypeOK, \A c \in Clients : Following(c), Places, [Next]_vars
    PROVE  Places'
<1>1. streams \in Nat /\ orphans \in Nat /\ MaxStreams \in Nat
      /\ stream \in [Clients -> Streams]
  BY Types, StreamBounds DEF WatchTypes
<1>2. ASSUME UNCHANGED <<stream, streams, orphans>> PROVE Places'
  BY <1>2 DEF Places, Open
<1>3. CASE SectionStep
  BY <1>2, <1>3 DEF SectionStep, watchVars
<1>4. CASE Crash
  <2>1. Open' = {}
    BY <1>1, <1>4 DEF Crash, Open, Streams
  <2> QED
    BY <1>1, <1>4, <2>1, FS_EmptySet DEF Crash, Places
<1>5. CASE OrphanDropped
  <2>1. Open' = Open
    BY <1>5 DEF OrphanDropped, Open
  <2> QED
    BY <1>1, <1>5, <2>1, OpenIsFinite DEF OrphanDropped, Places
<1>6. ASSUME NEW c \in Clients, Emit(c) PROVE Places'
  <2>1. \A d \in Clients : stream'[d].open = stream[d].open
    BY <1>1, <1>6 DEF Emit, Streams
  <2>2. Open' = Open
    BY <2>1 DEF Open
  <2> QED
    BY <1>6, <2>2 DEF Emit, Places
\* A client that subscribes has no connection, so this one is a new one.
<1>7. ASSUME NEW c \in Clients, Subscribe(c) PROVE Places'
  <2>1. ~stream[c].open
    BY <1>7 DEF Subscribe, Following
  <2>2. /\ stream'[c].open
        /\ \A d \in Clients : d # c => stream'[d].open = stream[d].open
    BY <1>1, <1>7 DEF Subscribe
  <2>3. Open' = Open \cup {c} /\ c \notin Open
    BY <2>1, <2>2 DEF Open
  <2>4. Cardinality(Open') = Cardinality(Open) + 1
    BY <2>3, OpenIsFinite, FS_AddElement
  <2> QED
    BY <1>1, <1>7, <2>4, OpenIsFinite DEF Subscribe, Places
<1>8. ASSUME NEW c \in Clients,
             \/ NotServed(c) \/ ReceiveOpening(c) \/ ReceiveChange(c)
             \/ Fetch(c) \/ Answer(c) \/ Deliver(c)
      PROVE  Places'
  BY <1>2, <1>8 DEF NotServed, ReceiveOpening, ReceiveChange, Fetch, Answer, Deliver
<1>9. ASSUME NEW c \in Clients,
             DeliveryRefused(c) \/ FetchDies(c) \/ FetchLost(c) \/ StreamEnds(c) \/ Stop(c)
      PROVE  Places'
  <2>1. Abandon(c) /\ streams' = streams
    BY <1>9 DEF DeliveryRefused, FetchDies, FetchLost, StreamEnds, Stop
  <2>2. Cardinality(Open') + orphans' = Cardinality(Open) + orphans
    BY <2>1, AbandonKeepsPlaces
  <2> QED
    BY <2>1, <2>2 DEF Places
<1>10. ASSUME NEW c \in Clients, StreamLost(c) PROVE Places'
  <2>1. /\ ~stream'[c].open /\ stream[c].open
        /\ \A d \in Clients : d # c => stream'[d].open = stream[d].open
    BY <1>1, <1>10 DEF StreamLost, Streams
  <2>2. Cardinality(Open') = Cardinality(Open) - 1
    BY <2>1, Closed
  <2> QED
    BY <1>1, <1>10, <2>2, OpenIsFinite DEF StreamLost, Places
<1>11. CASE UNCHANGED vars
  BY <1>2, <1>11 DEF vars, watchVars
<1> QED
  BY <1>3, <1>4, <1>5, <1>6, <1>7, <1>8, <1>9, <1>10, <1>11 DEF Next, ClientStep

-----------------------------------------------------------------------------
(* The ids.                                                                *)

\* A client that has read a change of a process accounts for it.
Accounts(c) ==
    seen[c].byReading /\ seen[c].read.process = seen[c].told
        => client[c].resume <= seen[c].read.install

Sound(c) == Following(c) /\ IdsIncrease(c) /\ Accounts(c)

LEMMA SameSound ==
    /\ (\A c \in Clients : Sound(c)) <=> (\A c \in Clients : Following(c)) /\ ResumeMeansRead
    /\ (\A c \in Clients : Sound(c)') <=> (\A c \in Clients : Following(c)') /\ ResumeMeansRead'
  BY DEF Sound, ResumeMeansRead, Accounts

\* A client none of whose own state a step touches.
LEMMA Untouched ==
    ASSUME NEW c \in Clients, Sound(c),
           stream'[c] = stream[c], wire'[c] = wire[c], client'[c] = client[c],
           seen'[c] = seen[c], request'[c] = request[c],
           UNCHANGED <<up, process, generation>>
    PROVE  Sound(c)'
  BY DEF Sound, Following, IdsIncrease, Accounts

\* What a client does is its own.
LEMMA OneAtATime ==
    ASSUME TypeOK, NEW c \in Clients, Emit(c) \/ ClientStep(c),
           NEW d \in Clients, d # c
    PROVE  /\ stream'[d] = stream[d] /\ wire'[d] = wire[d] /\ client'[d] = client[d]
           /\ seen'[d] = seen[d] /\ request'[d] = request[d]
           /\ UNCHANGED <<up, process, generation>>
<1>1. /\ stream \in [Clients -> Streams] /\ wire \in [Clients -> Seq(Nat)]
      /\ client \in [Clients -> Loops] /\ seen \in [Clients -> Histories]
  BY Types DEF WatchTypes
<1>2. Section!TypeOK /\ DOMAIN request = Clients
  BY Types DEF Section!TypeOK
<1>3. ASSUME Abandon(c) PROVE stream'[d] = stream[d] /\ wire'[d] = wire[d]
  BY <1>1, <1>3 DEF Abandon
<1>4. CASE Emit(c)
  BY <1>1, <1>4 DEF Emit, sectionVars
<1>5. CASE Subscribe(c) \/ NotServed(c)
  BY <1>1, <1>5 DEF Subscribe, NotServed, sectionVars
<1>6. CASE ReceiveOpening(c) \/ ReceiveChange(c)
  BY <1>1, <1>6 DEF ReceiveOpening, ReceiveChange, sectionVars
<1>7. CASE Fetch(c) \/ Answer(c)
  BY <1>1, <1>2, <1>7 DEF Fetch, Answer, Section!LoadGeneration, Section!LoadDocument
<1>8. CASE Deliver(c)
  BY <1>1, <1>2, <1>8 DEF Deliver, Section!TakeAnswer
<1>9. CASE DeliveryRefused(c)
  BY <1>1, <1>2, <1>3, <1>9 DEF DeliveryRefused, Section!TakeAnswer
<1>10. CASE FetchDies(c) \/ StreamEnds(c) \/ Stop(c)
  BY <1>1, <1>3, <1>10 DEF FetchDies, StreamEnds, Stop, sectionVars
<1>11. CASE FetchLost(c)
  BY <1>1, <1>2, <1>3, <1>11 DEF FetchLost
<1>12. CASE StreamLost(c)
  BY <1>1, <1>12 DEF StreamLost, sectionVars
<1> QED
  BY <1>4, <1>5, <1>6, <1>7, <1>8, <1>9, <1>10, <1>11, <1>12 DEF ClientStep

\* What the types say of the state a client's step finds.
LEMMA Found ==
    ASSUME TypeOK, NEW c \in Clients
    PROVE  /\ stream \in [Clients -> Streams] /\ wire \in [Clients -> Seq(Nat)]
           /\ client \in [Clients -> Loops] /\ seen \in [Clients -> Histories]
           /\ DOMAIN request = Clients
           /\ generation \in Nat /\ process \in Nat /\ Len(installs) \in Nat
           /\ wire[c] \in Seq(Nat) /\ Len(wire[c]) \in Nat
           /\ \A i \in 1 .. Len(wire[c]) : wire[c][i] \in Nat
           /\ stream[c].sent \in Nat /\ stream[c].process \in Nat
           /\ client[c].event \in Nat /\ client[c].resume \in Nat
<1>1. Section!TypeOK /\ WatchTypes /\ DOMAIN request = Clients
  BY Types DEF Section!TypeOK
<1> QED
  BY <1>1, Answers, OneClient DEF WatchTypes

\* The server sends the number it reads: past what it sent, and installed.
LEMMA EmitSound == ASSUME TypeOK, NEW c \in Clients, Sound(c), Emit(c) PROVE Sound(c)'
<1>1. /\ stream[c].open /\ up /\ generation # 0 /\ stream[c].sent < generation
      /\ stream[c].process = process
      /\ \A i \in 1 .. Len(wire[c]) : wire[c][i] <= generation
      /\ \A i \in 1 .. Len(wire[c]) - 1 : wire[c][i] < wire[c][i + 1]
      /\ wire[c] # << >> => wire[c][Len(wire[c])] = stream[c].sent
      /\ client[c].at # "waiting"
      /\ client[c].at \in {"changed", "fetching"} => client[c].event <= generation
  BY Found DEF Emit, IsNews, Sound, Following, IdsIncrease
<1>2. /\ stream'[c].open = stream[c].open /\ stream'[c].process = stream[c].process
      /\ stream'[c].sent = generation
      /\ wire'[c] = Append(wire[c], generation)
      /\ UNCHANGED <<client, request, up, process, generation>>
  BY Found DEF Emit, Streams, sectionVars
<1>3. /\ seen'[c].read = seen[c].read /\ seen'[c].told = seen[c].told
      /\ seen'[c].byReading = seen[c].byReading /\ seen'[c].fetched = seen[c].fetched
  BY Found DEF Emit, Histories
<1>4. /\ Len(wire'[c]) = Len(wire[c]) + 1 /\ wire'[c][Len(wire[c]) + 1] = generation
      /\ \A i \in 1 .. Len(wire[c]) : wire'[c][i] = wire[c][i]
      /\ wire[c] = << >> <=> Len(wire[c]) = 0
  BY Found, <1>2
<1>5. Following(c)'
  BY Found, <1>1, <1>2, <1>3, <1>4 DEF Sound, Following
<1>6. IdsIncrease(c)'
  BY Found, <1>1, <1>2, <1>4 DEF IdsIncrease
<1> QED
  BY <1>2, <1>3, <1>5, <1>6 DEF Sound, Accounts

\* A client that takes the next event knows a number that is installed.
LEMMA ReceiveSound ==
    ASSUME TypeOK, NEW c \in Clients, Sound(c), ReceiveOpening(c) \/ ReceiveChange(c)
    PROVE  Sound(c)'
<1>1. /\ wire[c] # << >> /\ client[c].at = "streaming"
      /\ wire'[c] = Tail(wire[c]) /\ UNCHANGED <<stream, request, up, process, generation>>
  BY Found DEF ReceiveOpening, ReceiveChange, sectionVars
<1>2. /\ Len(wire'[c]) = Len(wire[c]) - 1
      /\ \A i \in 1 .. Len(wire[c]) - 1 : wire'[c][i] = wire[c][i + 1]
      /\ Len(wire[c]) > 0 /\ Head(wire[c]) = wire[c][1]
      /\ wire'[c] # << >> => Len(wire[c]) - 1 > 0
  BY Found, <1>1
<1>3. IdsIncrease(c)'
  <2>1. \A i \in 1 .. Len(wire'[c]) - 1 : wire'[c][i] < wire'[c][i + 1]
    <3> SUFFICES ASSUME NEW i \in 1 .. Len(wire'[c]) - 1 PROVE wire'[c][i] < wire'[c][i + 1]
      OBVIOUS
    <3>1. i + 1 \in 1 .. Len(wire[c]) - 1
      BY Found, <1>2
    <3>2. wire'[c][i] = wire[c][i + 1] /\ wire'[c][i + 1] = wire[c][(i + 1) + 1]
      BY Found, <1>2, <3>1
    <3> QED
      BY <3>1, <3>2 DEF Sound, IdsIncrease
  <2>2. wire'[c] # << >> => wire'[c][Len(wire'[c])] = stream[c].sent
    <3> SUFFICES ASSUME wire'[c] # << >> PROVE wire'[c][Len(wire'[c])] = stream[c].sent
      OBVIOUS
    <3>1. Len(wire[c]) - 1 \in 1 .. Len(wire[c]) - 1 /\ (Len(wire[c]) - 1) + 1 = Len(wire[c])
      BY Found, <1>2
    <3>2. wire'[c][Len(wire[c]) - 1] = wire[c][(Len(wire[c]) - 1) + 1]
      BY <1>2, <3>1
    <3>3. wire'[c][Len(wire[c]) - 1] = wire[c][Len(wire[c])]
      BY <3>1, <3>2
    <3> QED
      BY <1>1, <1>2, <3>3 DEF Sound, IdsIncrease
  <2> QED
    BY <1>1, <2>1, <2>2 DEF Sound, IdsIncrease
<1>4. CASE ReceiveOpening(c)
  <2>1. client'[c].at = "streaming"
    BY Found, <1>1, <1>4 DEF ReceiveOpening, Loops
  <2>2. ~seen'[c].byReading
    BY Found, <1>4 DEF ReceiveOpening, Histories
  <2>3. Following(c)'
    BY Found, <1>1, <1>2, <2>1 DEF Sound, Following
  <2> QED
    BY <1>3, <2>2, <2>3 DEF Sound, Accounts
<1>5. CASE ReceiveChange(c)
  <2>1. /\ client'[c].at = "changed" /\ client'[c].event = wire[c][1]
        /\ client'[c].resume = client[c].resume /\ seen' = seen
    BY Found, <1>2, <1>5 DEF ReceiveChange, Loops
  <2>2. Following(c)'
    BY Found, <1>1, <1>2, <2>1 DEF Sound, Following
  <2> QED
    BY <1>3, <2>1, <2>2 DEF Sound, Accounts
<1> QED
  BY <1>4, <1>5

\* A connection's beginning: nothing sent, nothing waiting.
LEMMA SubscribeSound ==
    ASSUME TypeOK, NEW c \in Clients, Sound(c), Subscribe(c) \/ NotServed(c)
    PROVE  Sound(c)'
<1>1. CASE Subscribe(c)
  <2>1. /\ stream'[c].open /\ stream'[c].process = process /\ stream'[c].sent = 0
        /\ up /\ wire[c] = << >> /\ client[c].at = "waiting"
        /\ UNCHANGED <<wire, request, up, process, generation, seen>>
    BY Found, <1>1 DEF Subscribe, Sound, Following, sectionVars
  <2>2. client'[c].at = "streaming" /\ client'[c].resume = client[c].resume
    BY Found, <1>1 DEF Subscribe, Loops
  <2>3. Following(c)'
    BY Found, <2>1, <2>2 DEF Sound, Following
  <2>4. IdsIncrease(c)'
    BY Found, <2>1 DEF IdsIncrease
  <2> QED
    BY <2>1, <2>2, <2>3, <2>4 DEF Sound, Accounts
<1>2. CASE NotServed(c)
  <2>1. /\ client'[c].at = "ended" /\ client'[c].resume = client[c].resume
        /\ UNCHANGED <<wire, stream, request, up, process, generation, seen>>
    BY Found, <1>2 DEF NotServed, Loops, sectionVars
  <2> QED
    BY Found, <2>1 DEF Sound, Following, IdsIncrease, Accounts
<1> QED
  BY <1>1, <1>2

\* The two ends of a fetch: the document that answers it was the newest of the
\* process it came from, which is at least as new as the event that asked for it.
LEMMA FetchSound ==
    ASSUME TypeOK, Section!Counted, NEW c \in Clients, Sound(c), Fetch(c) \/ Answer(c)
    PROVE  Sound(c)'
<1>1. UNCHANGED <<stream, wire, up, process, generation>>
  BY DEF Fetch, Answer, Section!LoadGeneration, Section!LoadDocument
<1>2. CASE Fetch(c)
  <2>1. /\ client[c].at = "changed" /\ client'[c].at = "fetching"
        /\ client'[c].event = client[c].event /\ client'[c].resume = client[c].resume
        /\ seen' = seen
    BY Found, <1>2 DEF Fetch, Loops
  <2>2. request'[c].at = "labelled"
    BY Found, <1>2 DEF Fetch, Section!LoadGeneration
  <2> QED
    BY Found, <1>1, <2>1, <2>2 DEF Sound, Following, IdsIncrease, Accounts
<1>3. CASE Answer(c)
  <2>1. /\ client[c].at = "fetching" /\ client' = client
        /\ up /\ request'[c].at = "answered" /\ request'[c].install = Len(installs)
    BY Found, <1>3 DEF Answer, Section!LoadDocument
  <2>2. /\ seen'[c].fetched = process /\ seen'[c].read = seen[c].read
        /\ seen'[c].told = seen[c].told /\ seen'[c].byReading = seen[c].byReading
    BY Found, <1>3 DEF Answer, Histories
  <2>3. generation <= Len(installs)
    BY Found DEF Section!Counted
  <2> QED
    BY Found, <1>1, <2>1, <2>2, <2>3 DEF Sound, Following, IdsIncrease, Accounts
<1> QED
  BY <1>2, <1>3

\* The id moves to the event once the document it asked for is in hand.
LEMMA DeliverSound == ASSUME TypeOK, NEW c \in Clients, Sound(c), Deliver(c) PROVE Sound(c)'
<1>1. /\ UNCHANGED <<stream, wire, up, process, generation>>
      /\ client[c].at = "fetching" /\ request[c].at = "answered"
  BY DEF Deliver, Section!TakeAnswer
<1>2. client'[c].at = "streaming" /\ client'[c].resume = client[c].event
  BY Found DEF Deliver
<1>3. /\ seen'[c].read.process = seen[c].fetched
      /\ seen'[c].read.install = request[c].install /\ seen'[c].told = stream[c].process
  BY Found DEF Deliver, Histories
<1> QED
  BY Found, <1>1, <1>2, <1>3 DEF Sound, Following, IdsIncrease, Accounts

\* A connection's end, however it comes.
LEMMA EndSound ==
    ASSUME TypeOK, NEW c \in Clients, Sound(c),
           \/ DeliveryRefused(c) \/ FetchDies(c) \/ FetchLost(c)
           \/ StreamLost(c) \/ StreamEnds(c) \/ Stop(c)
    PROVE  Sound(c)'
<1>1. CASE StreamLost(c)
  <2>1. /\ ~stream'[c].open /\ stream'[c].process = stream[c].process
        /\ stream'[c].sent = stream[c].sent
        /\ UNCHANGED <<wire, client, request, up, process, generation, seen>>
    BY Found, <1>1 DEF StreamLost, Streams, sectionVars
  <2> QED
    BY Found, <2>1 DEF Sound, Following, IdsIncrease, Accounts
<1>2. CASE DeliveryRefused(c) \/ FetchDies(c) \/ FetchLost(c) \/ StreamEnds(c) \/ Stop(c)
  <2>1. Abandon(c) /\ UNCHANGED <<up, process, generation, seen>>
    BY <1>2 DEF DeliveryRefused, FetchDies, FetchLost, StreamEnds, Stop, sectionVars,
       Section!TakeAnswer
  <2>2. wire'[c] = << >> /\ stream'[c] = NoStream
    BY Found, <2>1 DEF Abandon
  <2>3. client'[c].at \in {"waiting", "ended"} /\ client'[c].resume = client[c].resume
    <3>1. client \in [Clients -> Loops]
      BY Types DEF WatchTypes
    <3>2. CASE DeliveryRefused(c)
      BY <3>1, <3>2 DEF DeliveryRefused, Loops
    <3>3. CASE FetchDies(c) \/ FetchLost(c)
      BY <3>1, <3>3 DEF FetchDies, FetchLost, Loops
    <3>4. CASE StreamEnds(c) \/ Stop(c)
      BY <3>1, <3>4 DEF StreamEnds, Stop, Loops
    <3> QED
      BY <1>2, <3>2, <3>3, <3>4
  <2> QED
    BY Found, <2>1, <2>2, <2>3 DEF Sound, Following, IdsIncrease, Accounts, NoStream
<1> QED
  BY <1>1, <1>2
\* The section moving under a client that waits: the number a process publishes
\* only grows, and what a dead process announced is no later process's.
LEMMA SectionSound ==
    ASSUME TypeOK, NEW c \in Clients, Sound(c), SectionStep, (Section!TypeOK)'
    PROVE  Sound(c)'
<1>1. Section!TypeOK
  BY Types
<1>2. UNCHANGED <<stream, wire, client, seen, request>>
  BY <1>1, SectionMoves DEF watchVars
<1>3. generation' \in Nat /\ process' \in Nat
  BY DEF Section!TypeOK
<1>4. CASE up' = up /\ process' = process /\ generation <= generation'
  BY Found, <1>2, <1>3, <1>4 DEF Sound, Following, IdsIncrease, Accounts
<1>5. CASE ~up /\ process' = process + 1
  BY Found, <1>2, <1>3, <1>5 DEF Sound, Following, IdsIncrease, Accounts
<1>6. CASE ~up /\ ~up' /\ process' = process
  BY Found, <1>2, <1>3, <1>6 DEF Sound, Following, IdsIncrease, Accounts
<1> QED
  BY <1>1, <1>4, <1>5, <1>6, SectionMoves

\* The end of a process: nothing of it is open, and what it sent may still be read.
LEMMA CrashSound == ASSUME TypeOK, NEW c \in Clients, Sound(c), Crash PROVE Sound(c)'
<1>1. ~up' /\ process' = process /\ UNCHANGED <<wire, client, seen>>
  BY DEF Crash, Section!Crash
<1>2. /\ ~stream'[c].open /\ stream'[c].process = stream[c].process
      /\ stream'[c].sent = stream[c].sent
  BY Found DEF Crash, Streams
<1>3. request'[c].at = "answered" => request'[c] = request[c]
  BY DEF Crash, Section!Crash, Section!NoRequest
<1> QED
  BY Found, <1>1, <1>2, <1>3 DEF Sound, Following, IdsIncrease, Accounts

\* Every step keeps every client sound.
LEMMA NextSound ==
    ASSUME TypeOK, Section!Counted, (Section!TypeOK)', [Next]_vars,
           \A c \in Clients : Sound(c)
    PROVE  \A c \in Clients : Sound(c)'
<1> SUFFICES ASSUME NEW c \in Clients PROVE Sound(c)'
  OBVIOUS
<1>1. CASE SectionStep
  BY <1>1, SectionSound
<1>2. CASE Crash
  BY <1>2, CrashSound
<1>3. CASE OrphanDropped \/ UNCHANGED vars
  BY <1>3, Untouched DEF OrphanDropped, vars, sectionVars, watchVars
<1>4. ASSUME NEW d \in Clients, Emit(d) \/ ClientStep(d) PROVE Sound(c)'
  <2>1. CASE c = d
    BY <1>4, <2>1, EmitSound, ReceiveSound, SubscribeSound, FetchSound, DeliverSound, EndSound
       DEF ClientStep
  <2>2. CASE c # d
    BY <1>4, <2>2, OneAtATime, Untouched
  <2> QED
    BY <2>1, <2>2
<1> QED
  BY <1>1, <1>2, <1>3, <1>4 DEF Next

-----------------------------------------------------------------------------
(* What a client holds.                                                    *)

Caught(c) == Reading(c) /\ Holding(c)

\* What the types say of what it has read.
LEMMA HasRead ==
    ASSUME TypeOK, NEW c \in Clients
    PROVE  /\ seen[c].read.process \in Nat /\ seen[c].read.install \in Nat
           /\ seen[c].told \in Nat /\ seen[c].fetched \in Nat /\ seen[c].byReading \in BOOLEAN
           /\ DOMAIN installs = 1 .. Len(installs)
<1>1. seen[c] \in Histories /\ Section!TypeOK
  BY OneClient, Types
<1>2. installs \in Seq(Section!Versions)
  BY <1>1 DEF Section!TypeOK
<1> QED
  BY <1>1, <1>2 DEF Histories, Install, Process

\* A process only adds to what it has installed.
LEMMA InstallsGrow ==
    ASSUME Section!TypeOK, SectionStep
    PROVE  \/ /\ up' = up /\ process' = process
              /\ \A i \in DOMAIN installs : i \in DOMAIN installs' /\ installs'[i] = installs[i]
           \/ ~up /\ process' = process + 1
<1> USE DEF SectionStep
<1>1. installs \in Seq(Section!Versions)
  BY DEF Section!TypeOK
<1>2. CASE Section!Edit
  BY <1>2 DEF Section!Edit
<1>3. CASE Section!PublishDocument
  BY <1>1, <1>3 DEF Section!PublishDocument
<1>4. CASE Section!Reloads /\ ~Section!PublishDocument
  BY <1>4 DEF Section!Reloads, Section!WatchWakes, Section!ReloadCalled,
     Section!ReadSources, Section!PublishGeneration
<1>5. CASE Section!LoadAtStart
  BY <1>5 DEF Section!LoadAtStart
<1>6. CASE Section!WatchAtStart
  BY <1>6 DEF Section!WatchAtStart
<1> QED
  BY <1>2, <1>3, <1>4, <1>5, <1>6

LEMMA SectionCaught ==
    ASSUME TypeOK, NEW c \in Clients, Caught(c), SectionStep PROVE Caught(c)'
<1>1. Section!TypeOK /\ UNCHANGED <<stream, wire, client, seen, request>>
  BY Types, SectionMoves DEF watchVars
<1>2. process \in Nat
  BY Found
<1>3. CASE /\ up' = up /\ process' = process
           /\ \A i \in DOMAIN installs : i \in DOMAIN installs' /\ installs'[i] = installs[i]
  BY <1>1, <1>3 DEF Caught, Reading, Holding
<1>4. CASE ~up /\ process' = process + 1
  BY HasRead, OneClient, <1>1, <1>2, <1>4 DEF Caught, Reading, Holding
<1> QED
  BY <1>1, <1>3, <1>4, InstallsGrow

LEMMA CrashCaught == ASSUME TypeOK, NEW c \in Clients, Caught(c), Crash PROVE Caught(c)'
<1>1. ~up' /\ process' = process /\ UNCHANGED <<wire, client, seen>>
  BY DEF Crash, Section!Crash
<1>2. /\ stream'[c].resume = stream[c].resume /\ stream'[c].process = stream[c].process
      /\ stream'[c].sent = stream[c].sent
  BY Found DEF Crash, Streams
<1>3. request'[c].at = "answered" => request'[c] = request[c]
  BY DEF Crash, Section!Crash, Section!NoRequest
<1> QED
  BY <1>1, <1>2, <1>3 DEF Caught, Reading, Holding

LEMMA UntouchedCaught ==
    ASSUME NEW c \in Clients, Caught(c),
           stream'[c] = stream[c], wire'[c] = wire[c], client'[c] = client[c],
           seen'[c] = seen[c], request'[c] = request[c],
           UNCHANGED <<up, process, installs>>
    PROVE  Caught(c)'
  BY DEF Caught, Reading, Holding

\* A step of a client's installs nothing.
LEMMA NothingInstalled ==
    ASSUME NEW c \in Clients, Emit(c) \/ ClientStep(c) PROVE UNCHANGED installs
<1>1. CASE Emit(c) \/ Subscribe(c) \/ NotServed(c) \/ ReceiveOpening(c) \/ ReceiveChange(c)
  BY <1>1 DEF Emit, Subscribe, NotServed, ReceiveOpening, ReceiveChange, sectionVars
<1>2. CASE Fetch(c) \/ Answer(c) \/ Deliver(c) \/ DeliveryRefused(c)
  BY <1>2 DEF Fetch, Answer, Deliver, DeliveryRefused, Section!LoadGeneration,
     Section!LoadDocument, Section!TakeAnswer
<1>3. CASE FetchDies(c) \/ FetchLost(c) \/ StreamLost(c) \/ StreamEnds(c) \/ Stop(c)
  BY <1>3 DEF FetchDies, FetchLost, StreamLost, StreamEnds, Stop, sectionVars
<1> QED
  BY <1>1, <1>2, <1>3 DEF ClientStep

\* Of what is taken from the wire last, the number is the one that was sent last.
LEMMA LastIsSent ==
    ASSUME TypeOK, NEW c \in Clients, Sound(c), wire[c] # << >>
    PROVE  stream[c].sent # 0 /\ (Tail(wire[c]) = << >> => Head(wire[c]) = stream[c].sent)
<1>1. wire[c] \in Seq(Nat)
  BY Found
<1>2. stream[c].sent # 0 /\ wire[c][Len(wire[c])] = stream[c].sent
  BY DEF Sound, Following, IdsIncrease
<1>3. ASSUME Tail(wire[c]) = << >> PROVE Len(wire[c]) = 1
  <2>1. Len(Tail(wire[c])) = Len(wire[c]) - 1 /\ Len(wire[c]) \in Nat
    BY <1>1
  <2>2. Len(<< >>) = 0
    OBVIOUS
  <2>3. Len(Tail(wire[c])) = 0
    BY <1>3, <2>2
  <2> QED
    BY <2>1, <2>3
<1> QED
  BY <1>1, <1>2, <1>3

LEMMA ConnectionCaught ==
    ASSUME TypeOK, NEW c \in Clients, Sound(c), Caught(c),
           Emit(c) \/ Subscribe(c) \/ NotServed(c) \/ StreamLost(c)
    PROVE  Caught(c)'
<1>1. UNCHANGED <<up, process, installs, request>>
  BY DEF Emit, Subscribe, NotServed, StreamLost, sectionVars
<1>2. CASE Emit(c)
  <2>1. /\ stream'[c].process = stream[c].process /\ stream'[c].resume = stream[c].resume
        /\ stream'[c].sent # 0 /\ client' = client
    BY Found, <1>2 DEF Emit, IsNews, Streams
  <2>2. wire'[c] # << >>
    <3>1. wire'[c] = Append(wire[c], generation)
      BY Found, <1>2 DEF Emit
    <3>2. Len(Append(wire[c], generation)) = Len(wire[c]) + 1
      BY Found
    <3>3. Len(wire[c]) + 1 # 0 /\ Len(<< >>) = 0
      BY Found
    <3> QED
      BY <3>1, <3>2, <3>3
  <2>3. /\ seen'[c].read = seen[c].read /\ seen'[c].told = seen[c].told
        /\ seen'[c].byReading = seen[c].byReading /\ seen'[c].fetched = seen[c].fetched
    BY Found, <1>2 DEF Emit, Histories
  <2>4. client[c].at \in {"changed", "fetching"} => stream'[c].sent # 0
    BY <2>1
  <2> QED
    BY <1>1, <2>1, <2>2, <2>3 DEF Caught, Reading, Holding
<1>3. CASE Subscribe(c)
  <2>1. stream'[c].sent = 0 /\ stream'[c].resume = client[c].resume /\ seen' = seen
    BY Found, <1>3 DEF Subscribe
  <2>2. /\ client[c].at = "waiting" /\ client'[c].at = "streaming"
        /\ client'[c].resume = client[c].resume
        /\ client'[c].last = client[c].last /\ client'[c].holds = client[c].holds
    BY Found, <1>3 DEF Subscribe, Loops
  <2> QED
    BY <1>1, <2>1, <2>2 DEF Caught, Reading, Holding
<1>4. CASE NotServed(c)
  <2>1. client'[c].at = "ended" /\ seen' = seen
    BY Found, <1>4 DEF NotServed
  <2> QED
    BY <1>1, <1>4, <2>1 DEF Caught, Reading, Holding, NotServed
<1>5. CASE StreamLost(c)
  <2>1. /\ stream'[c].process = stream[c].process /\ stream'[c].resume = stream[c].resume
        /\ stream'[c].sent = stream[c].sent /\ UNCHANGED <<wire, client, seen>>
    BY Found, <1>5 DEF StreamLost, Streams
  <2> QED
    BY <1>1, <2>1 DEF Caught, Reading, Holding
<1> QED
  BY <1>2, <1>3, <1>4, <1>5

LEMMA ReceiveCaught ==
    ASSUME TypeOK, NEW c \in Clients, Sound(c), Caught(c),
           ReceiveOpening(c) \/ ReceiveChange(c)
    PROVE  Caught(c)'
<1>1. /\ UNCHANGED <<up, process, installs, request, stream>>
      /\ client[c].at = "streaming" /\ wire[c] # << >> /\ wire'[c] = Tail(wire[c])
  BY Found DEF ReceiveOpening, ReceiveChange, sectionVars
<1>2. stream[c].sent # 0 /\ (wire'[c] = << >> => Head(wire[c]) = stream[c].sent)
  BY <1>1, LastIsSent
<1>3. CASE ReceiveOpening(c)
  <2>1. /\ client'[c].at = "streaming" /\ client'[c].resume = Head(wire[c])
        /\ client'[c].last = client[c].last /\ client'[c].holds = client[c].holds
    BY Found, <1>3 DEF ReceiveOpening, Loops
  <2>2. /\ ~seen'[c].byReading /\ seen'[c].read = seen[c].read
        /\ seen'[c].fetched = seen[c].fetched
    BY Found, <1>3 DEF ReceiveOpening, Histories
  <2> QED
    BY <1>1, <1>2, <2>1, <2>2 DEF Caught, Reading, Holding
<1>4. CASE ReceiveChange(c)
  <2>1. /\ client'[c].at = "changed" /\ client'[c].event = Head(wire[c])
        /\ client'[c].last = client[c].last /\ client'[c].holds = client[c].holds
        /\ seen' = seen
    BY Found, <1>4 DEF ReceiveChange, Loops
  <2> QED
    BY <1>1, <1>2, <2>1 DEF Caught, Reading, Holding
<1> QED
  BY <1>3, <1>4

\* The answer of a running process is the newest it installed, by number and by version.
LEMMA FetchCaught ==
    ASSUME TypeOK, Section!Counted, NEW c \in Clients, Sound(c), Caught(c),
           Fetch(c) \/ Answer(c)
    PROVE  Caught(c)'
<1>1. UNCHANGED <<stream, wire, up, process, installs>>
  BY DEF Fetch, Answer, Section!LoadGeneration, Section!LoadDocument
<1>2. CASE Fetch(c)
  <2>1. /\ client[c].at = "changed" /\ client'[c].at = "fetching"
        /\ client'[c].event = client[c].event
        /\ client'[c].last = client[c].last /\ client'[c].holds = client[c].holds
        /\ seen' = seen
    BY Found, <1>2 DEF Fetch, Loops
  <2>2. request'[c].at = "labelled"
    BY Found, <1>2 DEF Fetch, Section!LoadGeneration
  <2> QED
    BY <1>1, <2>1, <2>2 DEF Caught, Reading, Holding
<1>3. CASE Answer(c)
  <2>1. /\ client[c].at = "fetching" /\ client' = client /\ up
        /\ request'[c].install = Len(installs)
        /\ request'[c].version = installs[Len(installs)]
    BY Found, <1>3 DEF Answer, Section!LoadDocument, Section!Current
  <2>2. /\ seen'[c].fetched = process /\ seen'[c].read = seen[c].read
        /\ seen'[c].told = seen[c].told /\ seen'[c].byReading = seen[c].byReading
    BY Found, <1>3 DEF Answer, Histories
  <2>3. Len(installs) \in DOMAIN installs
    <3>1. installs # << >> /\ installs \in Seq(Section!Versions)
      BY <2>1, Types DEF Section!Counted, Section!TypeOK
    <3> QED
      BY <3>1
  <2>4. process \in stream[c].process .. process
    BY Found DEF Sound, Following
  <2> QED
    BY <1>1, <2>1, <2>2, <2>3, <2>4 DEF Caught, Reading, Holding
<1> QED
  BY <1>2, <1>3

LEMMA DeliverCaught == ASSUME TypeOK, NEW c \in Clients, Caught(c), Deliver(c) PROVE Caught(c)'
<1>1. /\ UNCHANGED <<stream, wire, up, process, installs>>
      /\ client[c].at = "fetching" /\ request[c].at = "answered"
  BY DEF Deliver, Section!TakeAnswer
<1>2. /\ client'[c].at = "streaming" /\ client'[c].resume = client[c].event
      /\ client'[c].last = request[c].version
      /\ client'[c].holds = IF request[c].version # client[c].last
                            THEN request[c].version ELSE client[c].holds
  BY Found DEF Deliver
<1>3. /\ seen'[c].read.process = seen[c].fetched
      /\ seen'[c].read.install = request[c].install /\ seen'[c].told = stream[c].process
  BY Found DEF Deliver, Histories
<1>4. /\ stream[c].sent # 0 /\ (wire[c] = << >> => client[c].event = stream[c].sent)
      /\ stream[c].process <= seen[c].fetched /\ seen[c].fetched <= process
      /\ up /\ seen[c].fetched = process =>
             request[c].install \in DOMAIN installs
             /\ request[c].version = installs[request[c].install]
      /\ client[c].last \in {0, client[c].holds}
  BY <1>1, HasRead, Found DEF Caught, Reading, Holding
<1>5. Reading(c)'
  BY <1>1, <1>2, <1>4 DEF Reading
<1>6. Holding(c)'
  BY <1>1, <1>2, <1>3, <1>4 DEF Holding
<1> QED
  BY <1>5, <1>6 DEF Caught

LEMMA EndCaught ==
    ASSUME TypeOK, NEW c \in Clients, Caught(c),
           DeliveryRefused(c) \/ FetchDies(c) \/ FetchLost(c) \/ StreamEnds(c) \/ Stop(c)
    PROVE  Caught(c)'
<1>1. UNCHANGED <<up, process, installs, seen>>
  BY DEF DeliveryRefused, FetchDies, FetchLost, StreamEnds, Stop, sectionVars,
     Section!TakeAnswer
<1>2. CASE DeliveryRefused(c)
  <2>1. client'[c].at = "ended"
    BY Found, <1>2 DEF DeliveryRefused, Loops
  <2> QED
    BY <1>1, <2>1 DEF Caught, Reading, Holding
<1>3. CASE FetchDies(c) \/ FetchLost(c)
  <2>1. /\ client[c].at # "ended" /\ client'[c].at = "waiting"
        /\ client'[c].last = client[c].last /\ client'[c].holds = client[c].holds
    BY Found, <1>3 DEF FetchDies, FetchLost, Loops
  <2> QED
    BY <1>1, <2>1 DEF Caught, Reading, Holding
<1>4. CASE StreamEnds(c) \/ Stop(c)
  <2>1. /\ client[c].at # "ended" /\ client'[c].at \in {"waiting", "ended"}
        /\ client'[c].last = client[c].last /\ client'[c].holds = client[c].holds
    BY Found, <1>4 DEF StreamEnds, Stop, Loops
  <2> QED
    BY <1>1, <2>1 DEF Caught, Reading, Holding
<1> QED
  BY <1>2, <1>3, <1>4

\* Every step leaves every client with what it read last.
LEMMA NextCaught ==
    ASSUME TypeOK, Section!Counted, [Next]_vars,
           \A c \in Clients : Sound(c) /\ Caught(c)
    PROVE  \A c \in Clients : Caught(c)'
<1> SUFFICES ASSUME NEW c \in Clients PROVE Caught(c)'
  OBVIOUS
<1>1. CASE SectionStep
  BY <1>1, SectionCaught
<1>2. CASE Crash
  BY <1>2, CrashCaught
<1>3. CASE OrphanDropped \/ UNCHANGED vars
  BY <1>3, UntouchedCaught DEF OrphanDropped, vars, sectionVars, watchVars
<1>4. ASSUME NEW d \in Clients, Emit(d) \/ ClientStep(d) PROVE Caught(c)'
  <2>1. CASE c = d
    BY <1>4, <2>1, ConnectionCaught, ReceiveCaught, FetchCaught, DeliverCaught, EndCaught
       DEF ClientStep
  <2>2. CASE c # d
    BY <1>4, <2>2, OneAtATime, UntouchedCaught, NothingInstalled
  <2> QED
    BY <2>1, <2>2
<1> QED
  BY <1>1, <1>2, <1>3, <1>4 DEF Next

\* A process that runs is one that was started.
LEMMA ProcessesCount ==
    ASSUME Section!TypeOK, process # 0, [Next]_vars PROVE process' # 0
<1>1. CASE SectionStep
  BY <1>1, SectionMoves DEF Section!TypeOK
<1>2. CASE Crash
  BY <1>2 DEF Crash, Section!Crash
<1>3. CASE OrphanDropped \/ UNCHANGED vars
  BY <1>3 DEF OrphanDropped, vars, sectionVars
<1>4. ASSUME NEW c \in Clients, Emit(c) \/ ClientStep(c) PROVE process' = process
  <2>1. CASE Emit(c) \/ Subscribe(c) \/ NotServed(c) \/ ReceiveOpening(c) \/ ReceiveChange(c)
    BY <2>1 DEF Emit, Subscribe, NotServed, ReceiveOpening, ReceiveChange, sectionVars
  <2>2. CASE Fetch(c) \/ Answer(c) \/ Deliver(c) \/ DeliveryRefused(c)
    BY <2>2 DEF Fetch, Answer, Deliver, DeliveryRefused, Section!LoadGeneration,
       Section!LoadDocument, Section!TakeAnswer
  <2>3. CASE FetchDies(c) \/ FetchLost(c) \/ StreamLost(c) \/ StreamEnds(c) \/ Stop(c)
    BY <2>3 DEF FetchDies, FetchLost, StreamLost, StreamEnds, Stop, sectionVars
  <2> QED
    BY <1>4, <2>1, <2>2, <2>3 DEF ClientStep
<1> QED
  BY <1>1, <1>2, <1>3, <1>4 DEF Next

-----------------------------------------------------------------------------
(* Together.                                                               *)

LEMMA NextInv == IndInv /\ [Next]_vars => IndInv'
<1> SUFFICES ASSUME IndInv, [Next]_vars PROVE IndInv'
  OBVIOUS
<1>1. TypeOK /\ Section!Counted /\ Section!TypeOK /\ Places /\ PermitsMatchStreams
      /\ process # 0 /\ (\A c \in Clients : Following(c))
  BY Types, SamePlaces DEF IndInv
<1>2. \A c \in Clients : Sound(c) /\ Caught(c)
  BY SameSound DEF IndInv, Caught
<1>3. (Section!TypeOK)' /\ (Section!Counted)'
  BY <1>1, StepOfSection
<1>4. TypeOK'
  BY <1>1, NextTypes
<1>5. PermitsMatchStreams'
  BY <1>1, NextPlaces, SamePlaces
<1>6. (\A c \in Clients : Following(c)') /\ ResumeMeansRead'
  BY <1>1, <1>2, <1>3, NextSound, SameSound
<1>7. \A c \in Clients : Reading(c)' /\ Holding(c)'
  BY <1>1, <1>2, NextCaught DEF Caught
<1>8. process' # 0
  BY <1>1, ProcessesCount
<1> QED
  BY <1>3, <1>4, <1>5, <1>6, <1>7, <1>8 DEF IndInv

LEMMA AlwaysInv == Spec => []IndInv
  BY InitInv, NextInv, PTL DEF Spec

\* Every variable keeps to its type, whatever the clients, the network and the
\* section do.
THEOREM WatchTypeOK == Spec => []TypeOK
  BY AlwaysInv, PTL DEF IndInv

\* A place among the streams is neither lost nor given twice, and the ceiling of
\* max_stream_connections holds, however connections end.
THEOREM PlacesAreKept == Spec => []PermitsMatchStreams
  BY AlwaysInv, PTL DEF IndInv

\* Events arrive in the order of the installs, each once, and the Last-Event-ID a
\* client resumes from names a change it has read.
THEOREM ResumingIsSafe == Spec => []ResumeMeansRead
  BY AlwaysInv, PTL DEF IndInv

\* A client at rest that resumes from what it read of the process that runs holds what
\* is served (ConfigServer::watch, Generations): it was sent the newest number, or began
\* with it, and has read that install, so that what it holds is that document.
THEOREM RestingIsCurrent == Spec => []AtRestIsCurrent
<1>1. IndInv => AtRestIsCurrent
  <2> SUFFICES ASSUME IndInv, NEW c \in Clients, AtRest(c), seen[c].byReading,
                      seen[c].told = process
               PROVE  client[c].holds = Section!Current
    BY DEF AtRestIsCurrent
  <2>1. /\ TypeOK /\ Section!Counted /\ Following(c) /\ Reading(c) /\ Holding(c)
        /\ ResumeMeansRead
    BY DEF IndInv
  <2>2. /\ up /\ stream[c].open /\ wire[c] = << >> /\ client[c].at = "streaming"
        /\ generation = Len(installs) /\ ~IsNews(stream[c], generation)
    BY <2>1 DEF AtRest, Following
  <2>3. installs # << >> /\ installs \in Seq(Section!Versions)
    BY <2>1, <2>2, Types DEF Section!Counted, Section!TypeOK
  <2>4. Len(installs) \in Nat /\ Len(installs) # 0
    BY <2>3
  <2>5. client[c].resume = generation
    <3>1. CASE stream[c].sent = 0
      BY <2>1, <2>2, <2>4, <3>1 DEF IsNews, Reading
    <3>2. CASE stream[c].sent # 0
      <4>1. stream[c].sent <= generation /\ ~(generation > stream[c].sent)
        BY <2>1, <2>2, <2>4, <3>2 DEF IsNews, ResumeMeansRead, IdsIncrease
      <4>2. client[c].resume = stream[c].sent
        BY <2>1, <2>2, <3>2 DEF Reading
      <4> QED
        BY <2>1, <4>1, <4>2, Found
    <3> QED
      BY <3>1, <3>2
  <2>6. seen[c].read.process = process
    BY <2>1, HasRead, Found DEF Holding
  <2>7. /\ seen[c].read.install \in 1 .. Len(installs)
        /\ client[c].last = installs[seen[c].read.install]
        /\ client[c].last \in {0, client[c].holds}
    BY <2>1, <2>2, <2>6, HasRead DEF Holding
  <2>8. client[c].resume <= seen[c].read.install
    BY <2>1, <2>6 DEF ResumeMeansRead
  <2>9. seen[c].read.install = Len(installs)
    BY <2>2, <2>4, <2>5, <2>7, <2>8
  <2>10. installs[Len(installs)] # 0
    <3>1. installs[Len(installs)] \in Section!Versions
      BY <2>3, <2>4
    <3> QED
      BY <3>1, StreamBounds DEF Section!Versions
  <2> QED
    BY <2>7, <2>9, <2>10 DEF Section!Current
<1> QED
  BY <1>1, AlwaysInv, PTL

-----------------------------------------------------------------------------
(* The contract, while one process serves: the steps of the clients are    *)
(* those of WatchContract, its fairness aside.                             *)

LEMMA OneProcessInit == Init => OneProcess
<1> SUFFICES ASSUME Init PROVE OneProcess
  OBVIOUS
<1>1. up /\ process = 1 /\ generation = 1 /\ Len(installs) = 1
  BY DEF Init, Section!Init
<1>2. \A c \in Clients : Forward(c)
  BY <1>1 DEF Init, Forward, Newer, Nothing
<1> QED
  BY <1>1, <1>2, InitInv DEF OneProcess

\* Where no process ends, the only step that installs or publishes is the section's.
LEMMA SectionForward ==
    ASSUME OneProcess, SectionStep, (Section!TypeOK)', NEW c \in Clients
    PROVE  Forward(c)' /\ up' /\ process' = 1
<1>1. TypeOK /\ Section!TypeOK /\ up /\ process = 1 /\ Forward(c)
  BY Types DEF OneProcess, IndInv
<1>2. /\ UNCHANGED <<stream, wire, client, seen, request>>
      /\ up' = up /\ process' = process /\ generation <= generation'
  BY <1>1, SectionMoves DEF watchVars
<1>3. Len(installs) <= Len(installs')
  <2>1. installs \in Seq(Section!Versions) /\ installs' \in Seq(Section!Versions)
    BY <1>1 DEF Section!TypeOK
  <2>2. \A i \in DOMAIN installs : i \in DOMAIN installs'
    BY <1>1, <1>2, InstallsGrow
  <2>3. DOMAIN installs = 1 .. Len(installs) /\ DOMAIN installs' = 1 .. Len(installs')
        /\ Len(installs) \in Nat /\ Len(installs') \in Nat
    BY <2>1
  <2>4. CASE Len(installs) = 0
    BY <2>3, <2>4
  <2>5. CASE Len(installs) # 0
    <3>1. Len(installs) \in 1 .. Len(installs)
      BY <2>3, <2>5
    <3> QED
      BY <2>2, <2>3, <3>1
  <2> QED
    BY <2>4, <2>5
<1>4. generation \in Nat /\ generation' \in Nat /\ Len(installs) \in Nat /\ Len(installs') \in Nat
  BY <1>1, Found DEF Section!TypeOK
<1> QED
  BY <1>1, <1>2, <1>3, <1>4, Found, HasRead DEF Forward, Newer

\* What every lemma below knows of the client that moves.
Known(c) ==
    /\ TypeOK /\ Section!Counted /\ Sound(c) /\ Caught(c) /\ Forward(c)
    /\ up /\ process = 1 /\ generation \in Nat /\ Len(installs) \in Nat
    /\ generation <= Len(installs)
    /\ wire[c] \in Seq(Nat) /\ Len(wire[c]) \in Nat
    /\ \A i \in 1 .. Len(wire[c]) : wire[c][i] \in Nat
    /\ client[c].event \in Nat /\ client[c].resume \in Nat /\ stream[c].sent \in Nat
    /\ seen[c].read.install \in Nat

LEMMA Knowing == ASSUME OneProcess, NEW c \in Clients PROVE Known(c)
<1>1. /\ TypeOK /\ Section!Counted /\ Caught(c) /\ Forward(c) /\ up /\ process = 1
      /\ \A d \in Clients : Sound(d)
  BY SameSound DEF OneProcess, IndInv, Caught
<1>2. generation <= Len(installs)
  BY <1>1, Found DEF Section!Counted
<1> QED
  BY <1>1, <1>2, Found, HasRead DEF Known

\* An event that is sent is newer than all that was sent, and than what was read.
LEMMA EmitForward == ASSUME NEW c \in Clients, Known(c), Emit(c) PROVE Forward(c)'
<1>1. /\ UNCHANGED <<up, process, generation, installs, request, client>>
      /\ wire'[c] = Append(wire[c], generation)
      /\ generation # 0 /\ IsNews(stream[c], generation)
      /\ stream[c].open
  BY Found DEF Known, Emit, IsNews, sectionVars
<1>2. stream'[c].process = stream[c].process /\ seen'[c].read = seen[c].read
  BY Found, <1>1 DEF Known, Emit, Streams, Histories
<1>3. /\ Len(wire'[c]) = Len(wire[c]) + 1 /\ wire'[c][Len(wire[c]) + 1] = generation
      /\ \A i \in 1 .. Len(wire[c]) : wire'[c][i] = wire[c][i]
      /\ \A i \in 1 .. Len(wire'[c]) : i \in 1 .. Len(wire[c]) \/ i = Len(wire'[c])
  BY <1>1 DEF Known
<1>4. wire[c] # << >> => /\ Len(wire[c]) \in 1 .. Len(wire[c])
                         /\ wire[c][Len(wire[c])] = stream[c].sent /\ stream[c].sent # 0
  BY DEF Known, Sound, Following, IdsIncrease
<1>5. \A i \in 1 .. Len(wire[c]) : wire[c][i] < generation
  <2> SUFFICES ASSUME NEW i \in 1 .. Len(wire[c]) PROVE wire[c][i] < generation
    OBVIOUS
  <2>1. wire[c] # << >> /\ Len(wire[c]) \in 1 .. Len(wire[c])
    BY DEF Known
  <2>2. wire[c][i] <= stream[c].sent
    <3>1. CASE i = Len(wire[c])
      BY <1>4, <2>1, <3>1 DEF Known
    <3>2. CASE i # Len(wire[c])
      <4>1. i < Len(wire[c])
        BY <3>2 DEF Known
      <4>2. wire[c][i] < wire[c][Len(wire[c])]
        BY <2>1, <4>1 DEF Known, Forward
      <4> QED
        BY <1>4, <2>1, <4>2 DEF Known
    <3> QED
      BY <3>1, <3>2
  <2>3. stream[c].sent < generation
    BY <1>1, <1>4, <2>1 DEF Known, IsNews
  <2> QED
    BY <2>2, <2>3 DEF Known
<1>6. client[c].at = "streaming" => client[c].resume < generation
  <2> SUFFICES ASSUME client[c].at = "streaming" PROVE client[c].resume < generation
    OBVIOUS
  <2>1. CASE stream[c].sent = 0
    BY <1>1, <2>1 DEF Known, Caught, Reading, IsNews, Forward
  <2>2. CASE stream[c].sent # 0 /\ wire[c] = << >>
    BY <1>1, <2>2 DEF Known, Caught, Reading, IsNews
  <2>3. CASE wire[c] # << >>
    <3>1. client[c].resume < wire[c][Len(wire[c])] /\ wire[c][Len(wire[c])] < generation
      BY <1>4, <1>5, <2>3 DEF Known, Forward, Newer
    <3> QED
      BY <1>4, <2>3, <3>1 DEF Known
  <2> QED
    BY <2>1, <2>2, <2>3
<1>7. client[c].at \in {"changed", "fetching"} => client[c].event < generation
  <2> SUFFICES ASSUME client[c].at \in {"changed", "fetching"}
               PROVE  client[c].event < generation
    OBVIOUS
  <2>1. stream[c].sent # 0
    BY DEF Known, Caught, Reading
  <2>2. CASE wire[c] = << >>
    BY <1>1, <2>1, <2>2 DEF Known, Caught, Reading, IsNews
  <2>3. CASE wire[c] # << >>
    <3>1. client[c].event < wire[c][Len(wire[c])] /\ wire[c][Len(wire[c])] < generation
      BY <1>4, <1>5, <2>3 DEF Known, Forward, Newer
    <3> QED
      BY <1>4, <2>3, <3>1 DEF Known
  <2> QED
    BY <2>2, <2>3
<1>8. ASSUME NEW i \in 1 .. Len(wire'[c]), NEW j \in 1 .. Len(wire'[c]), i < j
      PROVE  wire'[c][i] < wire'[c][j]
  <2>1. i \in 1 .. Len(wire[c])
    BY <1>3, <1>8 DEF Known
  <2>2. CASE j \in 1 .. Len(wire[c])
    <3>1. wire[c][i] < wire[c][j]
      BY <1>8, <2>1, <2>2 DEF Known, Forward
    <3> QED
      BY <1>3, <2>1, <2>2, <3>1
  <2>3. CASE j = Len(wire'[c])
    BY <1>3, <1>5, <2>1, <2>3
  <2> QED
    BY <1>3, <2>2, <2>3
<1>9. ASSUME NEW number \in Nat, Newer(c, number), number < generation PROVE Newer(c, number)'
  BY <1>3, <1>9 DEF Newer
<1>10. client[c].at = "streaming" => Newer(c, client[c].resume)'
  BY <1>1, <1>6, <1>9 DEF Known, Forward
<1>11. client[c].at \in {"changed", "fetching"} => Newer(c, client[c].event)'
  BY <1>1, <1>7, <1>9 DEF Known, Forward
<1> QED
  BY <1>1, <1>2, <1>8, <1>10, <1>11 DEF Known, Forward

\* The next event is the oldest that is left.
LEMMA ReceiveForward ==
    ASSUME NEW c \in Clients, Known(c), ReceiveOpening(c) \/ ReceiveChange(c)
    PROVE  /\ Forward(c)'
           /\ Head(wire[c]) \in Nat /\ Head(wire[c]) # 0 /\ Head(wire[c]) <= generation
           /\ client[c].resume < Head(wire[c])
<1>1. /\ UNCHANGED <<up, process, generation, installs, request, stream>>
      /\ wire[c] # << >> /\ client[c].at = "streaming" /\ wire'[c] = Tail(wire[c])
  BY Found DEF Known, ReceiveOpening, ReceiveChange, sectionVars
<1>2. /\ Len(wire'[c]) = Len(wire[c]) - 1
      /\ \A i \in 1 .. Len(wire[c]) - 1 : wire'[c][i] = wire[c][i + 1]
      /\ 1 \in 1 .. Len(wire[c]) /\ Head(wire[c]) = wire[c][1]
      /\ \A i \in 1 .. Len(wire[c]) - 1 : i + 1 \in 1 .. Len(wire[c])
  BY <1>1 DEF Known
<1>3. /\ Head(wire[c]) \in Nat /\ client[c].resume < Head(wire[c])
      /\ Head(wire[c]) <= generation /\ Head(wire[c]) # 0
  BY <1>1, <1>2 DEF Known, Forward, Newer, Sound, Following
<1>4. ASSUME NEW i \in 1 .. Len(wire'[c]) PROVE Head(wire[c]) < wire'[c][i]
  <2>1. i + 1 \in 1 .. Len(wire[c]) /\ 1 < i + 1 /\ wire'[c][i] = wire[c][i + 1]
    BY <1>2 DEF Known
  <2>2. wire[c][1] < wire[c][i + 1]
    BY <1>2, <2>1 DEF Known, Forward
  <2> QED
    BY <1>2, <2>1, <2>2
<1>5. ASSUME NEW i \in 1 .. Len(wire'[c]), NEW j \in 1 .. Len(wire'[c]), i < j
      PROVE  wire'[c][i] < wire'[c][j]
  <2>1. /\ i + 1 \in 1 .. Len(wire[c]) /\ wire'[c][i] = wire[c][i + 1]
        /\ j + 1 \in 1 .. Len(wire[c]) /\ wire'[c][j] = wire[c][j + 1]
    BY <1>2 DEF Known
  <2>2. i + 1 < j + 1
    BY <1>2, <1>5 DEF Known
  <2>3. wire[c][i + 1] < wire[c][j + 1]
    BY <2>1, <2>2 DEF Known, Forward
  <2> QED
    BY <2>1, <2>3
<1>6. CASE ReceiveOpening(c)
  <2>1. /\ client'[c].at = "streaming" /\ client'[c].resume = Head(wire[c])
        /\ client'[c].opening = FALSE
    BY Found, <1>6 DEF Known, ReceiveOpening, Loops
  <2>2. seen'[c].read = seen[c].read
    BY Found, <1>6 DEF Known, ReceiveOpening, Histories
  <2> QED
    BY <1>1, <1>3, <1>4, <1>5, <2>1, <2>2 DEF Known, Forward, Newer
<1>7. CASE ReceiveChange(c)
  <2>1. /\ client'[c].at = "changed" /\ client'[c].event = Head(wire[c])
        /\ client'[c].resume = client[c].resume /\ client'[c].opening = client[c].opening
        /\ seen' = seen /\ ~client[c].opening
    BY Found, <1>7 DEF Known, ReceiveChange, Loops
  <2> QED
    BY <1>1, <1>3, <1>4, <1>5, <2>1 DEF Known, Forward, Newer
<1> QED
  BY <1>3, <1>6, <1>7

LEMMA ConnectionForward ==
    ASSUME NEW c \in Clients, Known(c), Subscribe(c) \/ NotServed(c) \/ StreamLost(c)
    PROVE  Forward(c)'
<1>1. UNCHANGED <<up, process, generation, installs, request, seen, wire>>
  BY DEF Subscribe, NotServed, StreamLost, sectionVars
<1>2. CASE Subscribe(c)
  <2>1. stream'[c].process = process /\ wire[c] = << >>
    BY Found, <1>2 DEF Known, Subscribe, Sound, Following
  <2>2. /\ client'[c].at = "streaming" /\ client'[c].resume = client[c].resume
        /\ client'[c].opening = (client[c].resume = 0)
    BY Found, <1>2 DEF Known, Subscribe, Loops
  <2>3. \A i \in 1 .. Len(wire'[c]) : FALSE
    BY <1>1, <2>1
  <2>4. seen'[c].read = seen[c].read
    BY <1>1
  <2> QED
    BY <1>1, <2>1, <2>2, <2>3, <2>4 DEF Known, Forward, Newer
<1>3. CASE NotServed(c)
  <2>1. /\ client'[c].at = "ended" /\ client'[c].resume = client[c].resume
        /\ client'[c].opening = client[c].opening
    BY Found, <1>3 DEF Known, NotServed, Loops
  <2> QED
    BY <1>1, <2>1 DEF Known, Forward
<1>4. CASE StreamLost(c)
  <2>1. stream'[c].process = stream[c].process /\ client' = client
    BY Found, <1>4 DEF Known, StreamLost, Streams
  <2> QED
    BY <1>1, <2>1 DEF Known, Forward, Newer
<1> QED
  BY <1>2, <1>3, <1>4

\* The document that is read is no older than the one before, and than its event.
LEMMA FetchForward ==
    ASSUME NEW c \in Clients, Known(c), Fetch(c) \/ Answer(c) \/ Deliver(c)
    PROVE  /\ Forward(c)'
           /\ Deliver(c) =>
                 /\ client[c].event \in client[c].resume + 1 .. generation
                 /\ client[c].resume # 0
                 /\ request[c].install \in 1 .. Len(installs)
                 /\ client[c].event <= request[c].install
                 /\ seen[c].read.install <= request[c].install
<1>1. UNCHANGED <<up, process, generation, installs, stream, wire>>
  BY DEF Fetch, Answer, Deliver, Section!LoadGeneration, Section!LoadDocument,
     Section!TakeAnswer
<1>2. CASE Fetch(c)
  <2>1. /\ client[c].at = "changed" /\ client'[c].at = "fetching" /\ seen' = seen
        /\ client'[c].event = client[c].event /\ client'[c].resume = client[c].resume
        /\ client'[c].opening = client[c].opening
    BY Found, <1>2 DEF Known, Fetch, Loops
  <2>2. request'[c].at = "labelled"
    BY Found, <1>2 DEF Known, Fetch, Section!LoadGeneration
  <2>3. ~Deliver(c)
    BY <2>1 DEF Deliver, Section!TakeAnswer
  <2> QED
    BY <1>1, <2>1, <2>2, <2>3 DEF Known, Forward, Newer
<1>3. CASE Answer(c)
  <2>1. client[c].at = "fetching" /\ client' = client /\ request'[c].install = Len(installs)
    BY Found, <1>3 DEF Known, Answer, Section!LoadDocument
  <2>2. seen'[c].read = seen[c].read
    BY Found, <1>3 DEF Known, Answer, Histories
  <2>3. ~Deliver(c)
    BY <1>3 DEF Answer, Deliver, Section!LoadDocument, Section!TakeAnswer
  <2> QED
    BY <1>1, <2>1, <2>2, <2>3 DEF Known, Forward, Newer
<1>4. CASE Deliver(c)
  <2>1. client[c].at = "fetching" /\ request[c].at = "answered"
    BY <1>4 DEF Deliver, Section!TakeAnswer
  <2>2. stream[c].process = process /\ seen[c].fetched = process
    BY <2>1, Found, HasRead DEF Known, Forward, Caught, Reading
  <2>3. /\ request[c].install \in 1 .. Len(installs)
        /\ client[c].event <= request[c].install
    BY <2>1, <2>2, HasRead DEF Known, Caught, Reading, Sound, Following
  <2>4. /\ client[c].resume # 0 /\ client[c].resume < client[c].event
        /\ client[c].event <= generation /\ seen[c].read.install <= request[c].install
    BY <2>1, <2>2 DEF Known, Forward, Sound, Following
  <2>5. /\ client'[c].at = "streaming" /\ client'[c].resume = client[c].event
        /\ client'[c].opening = FALSE
    BY Found, <1>4 DEF Known, Deliver
  <2>6. seen'[c].read.install = request[c].install
    BY Found, <1>4 DEF Known, Deliver, Histories
  <2>7. Newer(c, client[c].event) /\ client[c].event \in Nat
        /\ \A i, j \in 1 .. Len(wire[c]) : i < j => wire[c][i] < wire[c][j]
    BY <2>1 DEF Known, Forward
  <2>8. Newer(c, client[c].resume)'
    BY <1>1, <2>5, <2>7 DEF Newer
  <2>9. client'[c].resume <= generation' /\ seen'[c].read.install <= Len(installs')
    BY <1>1, <2>3, <2>4, <2>5, <2>6
  <2>10. client'[c].resume # 0
    BY <2>4, <2>5 DEF Known
  <2>11. Forward(c)'
    BY <1>1, <2>2, <2>5, <2>7, <2>8, <2>9, <2>10 DEF Forward
  <2> QED
    BY <2>3, <2>4, <2>11 DEF Known
<1> QED
  BY <1>2, <1>3, <1>4

LEMMA EndForward ==
    ASSUME NEW c \in Clients, Known(c),
           DeliveryRefused(c) \/ FetchDies(c) \/ FetchLost(c) \/ StreamEnds(c) \/ Stop(c)
    PROVE  /\ Forward(c)'
           /\ client'[c].at \in {"waiting", "ended"} /\ client'[c].resume = client[c].resume
<1>1. /\ UNCHANGED <<up, process, generation, installs, seen>> /\ Abandon(c)
  BY DEF DeliveryRefused, FetchDies, FetchLost, StreamEnds, Stop, sectionVars,
     Section!TakeAnswer
<1>2. wire'[c] = << >>
  BY Found, <1>1 DEF Known, Abandon
<1>3. /\ client'[c].at \in {"waiting", "ended"} /\ client'[c].resume = client[c].resume
      /\ client'[c].opening = client[c].opening
  <2>1. CASE DeliveryRefused(c)
    BY Found, <2>1 DEF Known, DeliveryRefused, Loops
  <2>2. CASE FetchDies(c) \/ FetchLost(c)
    BY Found, <2>2 DEF Known, FetchDies, FetchLost, Loops
  <2>3. CASE StreamEnds(c) \/ Stop(c)
    BY Found, <2>3 DEF Known, StreamEnds, Stop, Loops
  <2> QED
    BY <2>1, <2>2, <2>3
<1> QED
  BY <1>1, <1>2, <1>3 DEF Known, Forward, Newer

\* A process that runs is not ended by a client, and its section not moved.
LEMMA ClientsAlone ==
    ASSUME NEW c \in Clients, Emit(c) \/ ClientStep(c), TypeOK
    PROVE  UNCHANGED <<up, process, generation, installs>>
<1>1. UNCHANGED installs
  BY NothingInstalled
<1>2. CASE Emit(c) \/ Subscribe(c) \/ NotServed(c) \/ ReceiveOpening(c) \/ ReceiveChange(c)
  BY <1>2 DEF Emit, Subscribe, NotServed, ReceiveOpening, ReceiveChange, sectionVars
<1>3. CASE Fetch(c) \/ Answer(c) \/ Deliver(c) \/ DeliveryRefused(c)
  BY <1>3 DEF Fetch, Answer, Deliver, DeliveryRefused, Section!LoadGeneration,
     Section!LoadDocument, Section!TakeAnswer
<1>4. CASE FetchDies(c) \/ FetchLost(c) \/ StreamLost(c) \/ StreamEnds(c) \/ Stop(c)
  BY <1>4 DEF FetchDies, FetchLost, StreamLost, StreamEnds, Stop, sectionVars
<1> QED
  BY <1>1, <1>2, <1>3, <1>4 DEF ClientStep

LEMMA OneProcessNext == MaxStarts = 1 /\ OneProcess /\ [Next]_vars => OneProcess'
<1> SUFFICES ASSUME MaxStarts = 1, OneProcess, [Next]_vars PROVE OneProcess'
  OBVIOUS
<1>1. IndInv /\ TypeOK /\ up /\ process = 1
  BY DEF OneProcess, IndInv
<1>2. IndInv' /\ (Section!TypeOK)'
  BY <1>1, NextInv, Types DEF IndInv
<1>3. ~Crash
  BY <1>1 DEF Crash, Section!Crash
<1>4. CASE SectionStep
  <2>1. up' /\ process' = 1
    BY <1>1, <1>4, SectionMoves, Types
  <2> QED
    BY <1>2, <1>4, <2>1, SectionForward DEF OneProcess
<1>5. CASE OrphanDropped \/ UNCHANGED vars
  <2>1. UNCHANGED <<client, seen, stream, wire, request, up, process, generation, installs>>
    BY <1>5 DEF OrphanDropped, vars, sectionVars, watchVars
  <2>2. ASSUME NEW c \in Clients PROVE Forward(c)'
    <3>1. Forward(c)
      BY DEF OneProcess
    <3> QED
      BY <2>1, <3>1 DEF Forward, Newer
  <2> QED
    BY <1>1, <1>2, <2>1, <2>2 DEF OneProcess
<1>6. ASSUME NEW d \in Clients, Emit(d) \/ ClientStep(d) PROVE OneProcess'
  <2>1. UNCHANGED <<up, process, generation, installs>>
    BY <1>1, <1>6, ClientsAlone
  <2>2. ASSUME NEW c \in Clients PROVE Forward(c)'
    <3>1. Known(c)
      BY Knowing
    <3>2. CASE c = d
      BY <1>6, <3>1, <3>2, EmitForward, ReceiveForward, ConnectionForward, FetchForward,
         EndForward DEF ClientStep
    <3>3. CASE c # d
      <4>1. /\ stream'[c] = stream[c] /\ wire'[c] = wire[c] /\ client'[c] = client[c]
            /\ seen'[c] = seen[c] /\ request'[c] = request[c]
        BY <1>1, <1>6, <3>3, OneAtATime
      <4> QED
        BY <2>1, <3>1, <4>1 DEF Known, Forward, Newer
    <3> QED
      BY <3>2, <3>3
  <2> QED
    BY <1>1, <1>2, <2>1, <2>2 DEF OneProcess
<1> QED
  BY <1>3, <1>4, <1>5, <1>6 DEF Next

\* A step of one client, as the contract sees it.
LEMMA OneProgram ==
    ASSUME TypeOK, NEW c \in Clients, Emit(c) \/ ClientStep(c)
    PROVE  LET claimed == [d \in Clients |-> client[d].resume]
               held == [d \in Clients |-> seen[d].read.install]
               over == {d \in Clients : client[d].at = "ended"}
           IN  /\ claimed' = [claimed EXCEPT ![c] = client'[c].resume]
               /\ held' = [held EXCEPT ![c] = seen'[c].read.install]
               /\ client'[c].at = "ended" => over' = over \cup {c}
               /\ client'[c].at # "ended" /\ client[c].at # "ended" => over' = over
<1>1. \A d \in Clients \ {c} : client'[d] = client[d] /\ seen'[d] = seen[d]
  BY OneAtATime
<1> QED
  BY <1>1

LEMMA StepsOfTheSection ==
    ASSUME OneProcess, SectionStep
    PROVE  Contract!Next \/ UNCHANGED Contract!contractVars
<1>1. /\ UNCHANGED <<client, seen>> /\ up /\ installs \in Seq(Section!Versions)
      /\ generation \in Nat /\ Section!Counted
  BY Types DEF OneProcess, IndInv, SectionStep, watchVars, Section!TypeOK
<1>2. CASE Section!PublishDocument
  <2>1. Len(installs') = Len(installs) + 1 /\ generation' = generation
    BY <1>1, <1>2 DEF Section!PublishDocument
  <2> QED
    BY <1>1, <2>1 DEF Contract!Next, Contract!Install
<1>3. CASE Section!PublishGeneration
  <2>1. /\ installs' = installs /\ generation' = generation + 1
        /\ generation < Len(installs)
    BY <1>1, <1>3 DEF Section!PublishGeneration, Section!Counted
  <2> QED
    BY <1>1, <2>1 DEF Contract!Next, Contract!Publish
<1>4. CASE ~Section!PublishDocument /\ ~Section!PublishGeneration
  <2>1. UNCHANGED <<installs, generation>>
    BY <1>1, <1>4 DEF SectionStep, Section!Edit, Section!Reloads, Section!WatchWakes,
       Section!ReloadCalled, Section!ReadSources, Section!LoadAtStart,
       Section!WatchAtStart
  <2> QED
    BY <1>1, <2>1 DEF Contract!contractVars
<1> QED
  BY <1>2, <1>3, <1>4

LEMMA StepsOfAClient ==
    ASSUME OneProcess, NEW c \in Clients, Emit(c) \/ ClientStep(c)
    PROVE  Contract!Next \/ UNCHANGED Contract!contractVars
<1> DEFINE claimed == [d \in Clients |-> client[d].resume]
           held == [d \in Clients |-> seen[d].read.install]
           over == {d \in Clients : client[d].at = "ended"}
<1>1. TypeOK /\ Known(c) /\ UNCHANGED <<generation, installs>>
  BY Knowing, ClientsAlone DEF OneProcess, IndInv
<1>2. /\ claimed' = [claimed EXCEPT ![c] = client'[c].resume]
      /\ held' = [held EXCEPT ![c] = seen'[c].read.install]
      /\ client'[c].at = "ended" => over' = over \cup {c}
      /\ client'[c].at # "ended" /\ client[c].at # "ended" => over' = over
  BY <1>1, OneProgram
<1>3. claimed[c] = client[c].resume /\ held[c] = seen[c].read.install
      /\ (c \in over <=> client[c].at = "ended")
  OBVIOUS
<1>4. ASSUME client'[c].resume = client[c].resume,
             seen'[c].read.install = seen[c].read.install,
             client'[c].at = "ended" \/ client[c].at # "ended"
      PROVE  Contract!Next \/ UNCHANGED Contract!contractVars
  <2>1. claimed \in [Clients -> {claimed[d] : d \in Clients}]
        /\ held \in [Clients -> {held[d] : d \in Clients}]
    OBVIOUS
  <2>2. [claimed EXCEPT ![c] = claimed[c]] = claimed
    BY <2>1
  <2>3. [held EXCEPT ![c] = held[c]] = held
    BY <2>1
  <2>4. claimed' = claimed /\ held' = held
    BY <1>2, <1>3, <1>4, <2>2, <2>3
  <2>5. CASE client'[c].at = "ended"
    BY <1>1, <1>2, <2>4, <2>5 DEF Contract!Next, Contract!End
  <2>6. CASE client'[c].at # "ended"
    BY <1>1, <1>2, <1>4, <2>4, <2>6 DEF Contract!contractVars
  <2> QED
    BY <2>5, <2>6
<1>5. CASE ReceiveOpening(c)
  <2>1. /\ client[c].resume = 0 /\ client[c].at = "streaming"
        /\ client'[c].at = "streaming" /\ client'[c].resume = Head(wire[c])
    BY <1>1, <1>5, Found DEF ReceiveOpening, Known, Forward, Loops
  <2>2. seen'[c].read.install = seen[c].read.install
    BY <1>1, <1>5, Found DEF ReceiveOpening, Histories
  <2>3. Head(wire[c]) \in 1 .. generation
    BY <1>1, <1>5, ReceiveForward DEF Known
  <2>4. held' = held /\ over' = over
    BY <1>2, <2>1, <2>2
  <2>5. Contract!Learn(c)
    BY <1>1, <1>2, <1>3, <2>1, <2>3, <2>4 DEF Contract!Learn
  <2> QED
    BY <2>5 DEF Contract!Next
<1>6. CASE Deliver(c)
  <2>1. /\ client[c].at = "fetching" /\ client'[c].at = "streaming"
        /\ client'[c].resume = client[c].event
    BY <1>1, <1>6, Found DEF Deliver
  <2>2. seen'[c].read.install = request[c].install
    BY <1>1, <1>6, Found DEF Deliver, Histories
  <2>3. /\ client[c].event \in client[c].resume + 1 .. generation /\ client[c].resume # 0
        /\ request[c].install \in 1 .. Len(installs)
        /\ client[c].event <= request[c].install
        /\ seen[c].read.install <= request[c].install
    BY <1>1, <1>6, FetchForward
  <2>4. over' = over
    BY <1>2, <2>1
  <2>5. request[c].install >= client[c].event /\ request[c].install >= seen[c].read.install
    BY <1>1, <2>3 DEF Known
  <2>6. /\ claimed' = [claimed EXCEPT ![c] = client[c].event]
        /\ held' = [held EXCEPT ![c] = request[c].install]
    BY <1>2, <2>1, <2>2
  <2>7. client[c].event \in claimed[c] + 1 .. generation
    BY <1>3, <2>3
  <2>8. c \notin over /\ claimed[c] # 0 /\ request[c].install >= held[c]
    BY <1>3, <2>1, <2>3, <2>5
  <2>9. Contract!CatchUp(c)
    BY <1>1, <2>3, <2>4, <2>5, <2>6, <2>7, <2>8 DEF Contract!CatchUp
  <2> QED
    BY <2>9 DEF Contract!Next
<1>7. CASE Emit(c) \/ StreamLost(c) \/ Fetch(c) \/ Answer(c)
  <2>1. seen'[c].read.install = seen[c].read.install
    <3>1. CASE Emit(c)
      BY <1>1, <3>1, Found DEF Emit, Histories
    <3>2. CASE Answer(c)
      BY <1>1, <3>2, Found DEF Answer, Histories
    <3>3. CASE StreamLost(c) \/ Fetch(c)
      BY <3>3 DEF StreamLost, Fetch
    <3> QED
      BY <1>7, <3>1, <3>2, <3>3
  <2>2. CASE Fetch(c)
    <3>1. /\ client'[c].resume = client[c].resume
          /\ client'[c].at # "ended" /\ client[c].at # "ended"
      BY <1>1, <2>2, Found DEF Fetch, Loops
    <3> QED
      BY <1>4, <2>1, <3>1
  <2>3. CASE ~Fetch(c)
    <3>1. client' = client
      BY <1>7, <2>3 DEF Emit, StreamLost, Answer
    <3> QED
      BY <1>4, <2>1, <3>1
  <2> QED
    BY <2>2, <2>3
<1>8. CASE Subscribe(c) \/ NotServed(c) \/ ReceiveChange(c)
  <2>1. /\ client'[c].resume = client[c].resume /\ client[c].at # "ended" /\ seen' = seen
    <3>1. CASE Subscribe(c)
      BY <1>1, <3>1, Found DEF Subscribe, Loops
    <3>2. CASE NotServed(c)
      BY <1>1, <3>2, Found DEF NotServed, Loops
    <3>3. CASE ReceiveChange(c)
      BY <1>1, <3>3, Found DEF ReceiveChange, Loops
    <3> QED
      BY <1>8, <3>1, <3>2, <3>3
  <2> QED
    BY <1>4, <2>1
<1>9. CASE DeliveryRefused(c) \/ FetchDies(c) \/ FetchLost(c) \/ StreamEnds(c) \/ Stop(c)
  <2>1. client'[c].resume = client[c].resume
    BY <1>1, <1>9, EndForward
  <2>2. client[c].at # "ended" /\ seen' = seen
    BY <1>9 DEF DeliveryRefused, FetchDies, FetchLost, StreamEnds, Stop
  <2> QED
    BY <1>4, <2>1, <2>2
<1> QED
  BY <1>5, <1>6, <1>7, <1>8, <1>9 DEF ClientStep

\* While one process serves the section, the clients and the streams do what
\* WatchContract says that a watching program may see: it learns once where the section
\* stands, and from then on each change that it accounts for brings it a document at least
\* as new as the number it would resume from, and as any it read before
\* (ConfigServer::watch, Generations).  That it does catch up is not said here.
THEOREM ContractIsKept == MaxStarts = 1 /\ Spec => StepsOfTheContract
<1> SUFFICES ASSUME MaxStarts = 1 PROVE Spec => StepsOfTheContract
  OBVIOUS
<1>1. Init => Contract!Init
  <2> SUFFICES ASSUME Init PROVE Contract!Init
    OBVIOUS
  <2> QED
    BY DEF Init, Section!Init, Contract!Init, Nothing
<1>2. OneProcess /\ [Next]_vars => [Contract!Next]_(Contract!contractVars)
  <2> SUFFICES ASSUME OneProcess, [Next]_vars
               PROVE  Contract!Next \/ UNCHANGED Contract!contractVars
    OBVIOUS
  <2>1. ~Crash
    BY DEF Crash, Section!Crash, OneProcess
  <2>2. CASE OrphanDropped \/ UNCHANGED vars
    BY <2>2 DEF OrphanDropped, vars, sectionVars, watchVars, Contract!contractVars
  <2> QED
    BY <2>1, <2>2, StepsOfTheSection, StepsOfAClient DEF Next
<1>3. OneProcess /\ [Next]_vars => OneProcess'
  BY OneProcessNext
<1>4. Init => OneProcess
  BY OneProcessInit
<1> QED
  BY <1>1, <1>2, <1>3, <1>4, PTL DEF Spec, StepsOfTheContract

=============================================================================
