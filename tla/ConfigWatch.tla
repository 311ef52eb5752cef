---------------------------- MODULE ConfigWatch ----------------------------
(***************************************************************************)
(* The change stream of one served section, end to end: the server's       *)
(* stream endpoint with its ceiling (routes/stream.rs, server.rs), and the *)
(* clients that follow it with ConfigServer::watch (client/mod.rs).        *)
(*                                                                         *)
(* The section itself is ServedSection, instantiated: a client's fetch is  *)
(* one of its document requests.  An event is a generation; 0 stands for   *)
(* `no Last-Event-ID' and for `nothing sent yet', as no event carries it.  *)
(*                                                                         *)
(* `seen' is a history variable: which install each client has read, which *)
(* process issued the id it would resume from and how it came by that id.  *)
(* No action reads it.                                                     *)
(***************************************************************************)
EXTENDS Naturals, Sequences, FiniteSets

CONSTANTS
    Clients,      \* the programs watching the section
    MaxStreams,   \* max_stream_connections
    Buffer,       \* bound: events a connection holds before the stream is not polled
    MaxFaults,    \* bound: connections the network loses
    MaxEdits, MaxCalls, MaxStarts    \* bounds of the section

ASSUME StreamBounds ==
    /\ IsFiniteSet(Clients)
    /\ MaxStreams \in Nat /\ Buffer \in Nat \ {0}
    /\ {MaxFaults, MaxEdits, MaxCalls, MaxStarts} \subseteq Nat

VARIABLES
    sources, noticed, up, process, installs, generation, healthy, reload, request, missed,
    streams,      \* Server::streams, the permits that are out
    orphans,      \* streams whose client has gone and the server has not noticed
    stream,       \* each client's Generations, the server's end of its connection
    wire,         \* the events sent down it and not yet read
    client,       \* each client's watch loop, and the document its program holds
    faults,       \* how many connections the network has lost
    seen          \* history

sectionVars == <<sources, noticed, up, process, installs, generation, healthy,
                 reload, request, missed>>
watchVars == <<streams, orphans, stream, wire, client, faults, seen>>
vars == <<sectionVars, watchVars>>

Section == INSTANCE ServedSection WITH Requests <- Clients

NoStream == [open |-> FALSE, process |-> 0, resume |-> 0, sent |-> 0]
Nothing == [process |-> 0, install |-> 0]

\* Every client has fetched the document once, on its own, before it watches: the
\* first process serves.
Init ==
    /\ Section!Init /\ up
    /\ streams = 0
    /\ orphans = 0
    /\ stream = [c \in Clients |-> NoStream]
    /\ wire = [c \in Clients |-> << >>]
    /\ client = [c \in Clients |-> [at |-> "waiting", resume |-> 0, opening |-> FALSE,
                                    event |-> 0, last |-> 0, holds |-> 1]]
    /\ faults = 0
    /\ seen = [c \in Clients |-> [read |-> Nothing, told |-> 0, byReading |-> FALSE,
                                  fetched |-> 0, baseline |-> Nothing]]

-----------------------------------------------------------------------------
(* The server's end of a connection.                                       *)

\* Generations::is_news.
IsNews(s, g) ==
    /\ g # 0
    /\ IF s.sent # 0 THEN g > s.sent
       ELSE s.resume # 0 => g # s.resume

\* Generations::poll_next: the number is read when the connection is polled,
\* and a connection that is not being read is not polled.
Emit(c) ==
    /\ up /\ stream[c].open /\ IsNews(stream[c], generation)
    /\ Len(wire[c]) < Buffer
    /\ stream' = [stream EXCEPT ![c].sent = generation]
    /\ wire' = [wire EXCEPT ![c] = Append(@, generation)]
    /\ seen' = [seen EXCEPT ![c].baseline =
                  IF @ = Nothing THEN [process |-> process, install |-> generation] ELSE @]
    /\ UNCHANGED <<sectionVars, streams, orphans, client, faults>>

\* The server finds that a client has gone, and drops the body and its permit.
OrphanDropped ==
    /\ orphans > 0
    /\ orphans' = orphans - 1
    /\ streams' = streams - 1
    /\ UNCHANGED <<sectionVars, stream, wire, client, faults, seen>>

-----------------------------------------------------------------------------
(* The client's watch loop.                                                *)

\* The client drops its end.  The server's end, if there still is one, holds
\* its permit until it notices.
Abandon(c) ==
    /\ orphans' = IF stream[c].open THEN orphans + 1 ELSE orphans
    /\ stream' = [stream EXCEPT ![c] = NoStream]
    /\ wire' = [wire EXCEPT ![c] = << >>]

\* Mutant: one stream more than the ceiling.
SubscribePastTheCeiling(c) ==
    /\ up /\ client[c].at = "waiting" /\ streams <= MaxStreams
    /\ streams' = streams + 1
    /\ stream' = [stream EXCEPT ![c] = [open |-> TRUE, process |-> process,
                                        resume |-> client[c].resume, sent |-> 0]]
    /\ client' = [client EXCEPT ![c].at = "streaming",
                                ![c].opening = client[c].resume = 0]
    /\ UNCHANGED <<sectionVars, orphans, wire, faults, seen>>

\* Mutant: the first event of every connection is taken for its opening.
SubscribeAlwaysOpening(c) ==
    /\ up /\ client[c].at = "waiting" /\ streams < MaxStreams
    /\ streams' = streams + 1
    /\ stream' = [stream EXCEPT ![c] = [open |-> TRUE, process |-> process,
                                        resume |-> client[c].resume, sent |-> 0]]
    /\ client' = [client EXCEPT ![c].at = "streaming", ![c].opening = TRUE]
    /\ UNCHANGED <<sectionVars, orphans, wire, faults, seen>>

\* A subscription the server admits.  Past the ceiling the answer is a 503, and
\* with no server there is no answer: the client paces itself and stays where
\* it is, which is no step of this model.
Subscribe(c) ==
    /\ up /\ client[c].at = "waiting" /\ streams < MaxStreams
    /\ streams' = streams + 1
    /\ stream' = [stream EXCEPT ![c] = [open |-> TRUE, process |-> process,
                                        resume |-> client[c].resume, sent |-> 0]]
    /\ client' = [client EXCEPT ![c].at = "streaming",
                                ![c].opening = client[c].resume = 0]
    /\ UNCHANGED <<sectionVars, orphans, wire, faults, seen>>

\* A 404 ends the watch: streams are switched off, or the roster a later
\* process was started with no longer grants this client the section.
NotServed(c) ==
    /\ up /\ client[c].at = "waiting"
    /\ MaxStreams = 0 \/ process > 1
    /\ client' = [client EXCEPT ![c].at = "ended"]
    /\ UNCHANGED <<sectionVars, streams, orphans, stream, wire, faults, seen>>

\* The first event of a subscription that named no id says where the document
\* stands: its id is kept and nothing is fetched.
ReceiveOpening(c) ==
    /\ client[c].at = "streaming" /\ client[c].opening /\ wire[c] # << >>
    /\ wire' = [wire EXCEPT ![c] = Tail(@)]
    /\ client' = [client EXCEPT ![c].opening = FALSE, ![c].resume = Head(wire[c])]
    /\ seen' = [seen EXCEPT ![c].told = stream[c].process, ![c].byReading = FALSE]
    /\ UNCHANGED <<sectionVars, streams, orphans, stream, faults>>

\* Mutant: the id is kept before what it announces has been read.
ReceiveChangeAdvancing(c) ==
    /\ client[c].at = "streaming" /\ ~client[c].opening /\ wire[c] # << >>
    /\ wire' = [wire EXCEPT ![c] = Tail(@)]
    /\ client' = [client EXCEPT ![c].at = "changed", ![c].event = Head(wire[c]),
                                ![c].resume = Head(wire[c])]
    /\ UNCHANGED <<sectionVars, streams, orphans, stream, faults, seen>>

\* Any other event is a change.
ReceiveChange(c) ==
    /\ client[c].at = "streaming" /\ ~client[c].opening /\ wire[c] # << >>
    /\ wire' = [wire EXCEPT ![c] = Tail(@)]
    /\ client' = [client EXCEPT ![c].at = "changed", ![c].event = Head(wire[c])]
    /\ UNCHANGED <<sectionVars, streams, orphans, stream, faults, seen>>

\* ConfigServer::read, over a connection of its own: the request...
Fetch(c) ==
    /\ client[c].at = "changed"
    /\ Section!LoadGeneration(c)
    /\ client' = [client EXCEPT ![c].at = "fetching"]
    /\ UNCHANGED <<streams, orphans, stream, wire, faults, seen>>

\* ...the answer leaving the server...
Answer(c) ==
    /\ client[c].at = "fetching"
    /\ Section!LoadDocument(c)
    /\ seen' = [seen EXCEPT ![c].fetched = process]
    /\ UNCHANGED <<streams, orphans, stream, wire, client, faults>>

\* ...and the document delivered if it differs from the last one delivered.
\* `resume' moves only here, once there is nothing left that can fail.
Deliver(c) ==
    /\ client[c].at = "fetching"
    /\ Section!TakeAnswer(c)
    /\ client' = [client EXCEPT ![c] =
                    [at |-> "streaming", resume |-> client[c].event,
                     opening |-> FALSE, event |-> 0, last |-> request[c].version,
                     holds |-> IF request[c].version # client[c].last
                               THEN request[c].version ELSE client[c].holds]]
    /\ seen' = [seen EXCEPT ![c].read = [process |-> seen[c].fetched,
                                         install |-> request[c].install],
                            ![c].told = stream[c].process, ![c].byReading = TRUE]
    /\ UNCHANGED <<streams, orphans, stream, wire, faults>>

\* The program refuses the document, or its callback panics: the watch ends.
DeliveryRefused(c) ==
    /\ client[c].at = "fetching" /\ request[c].version # client[c].last
    /\ Section!TakeAnswer(c)
    /\ Abandon(c)
    /\ client' = [client EXCEPT ![c].at = "ended", ![c].last = request[c].version]
    /\ UNCHANGED <<streams, faults, seen>>

\* A fetch with no server to answer it.
FetchDies(c) ==
    /\ \/ client[c].at = "changed" /\ ~up
       \/ client[c].at = "fetching" /\ request[c].at = "none"
    /\ Abandon(c)
    /\ client' = [client EXCEPT ![c].at = "waiting"]
    /\ UNCHANGED <<sectionVars, streams, faults, seen>>

\* Mutant: a failed fetch is given up on and the stream followed further.
FetchLostStreamKept(c) ==
    /\ client[c].at \in {"changed", "fetching"} /\ faults < MaxFaults
    /\ request' = [request EXCEPT ![c] = Section!NoRequest]
    /\ client' = [client EXCEPT ![c].at = "streaming"]
    /\ faults' = faults + 1
    /\ UNCHANGED <<sources, noticed, up, process, installs, generation, healthy,
                   reload, missed, streams, orphans, stream, wire, seen>>

\* Mutant: a failed fetch counts as read.
FetchLostAdvancing(c) ==
    /\ client[c].at \in {"changed", "fetching"} /\ faults < MaxFaults
    /\ Abandon(c)
    /\ request' = [request EXCEPT ![c] = Section!NoRequest]
    /\ client' = [client EXCEPT ![c].at = "waiting", ![c].resume = client[c].event]
    /\ faults' = faults + 1
    /\ UNCHANGED <<sources, noticed, up, process, installs, generation, healthy,
                   reload, missed, streams, seen>>

\* A fetch the network loses, at any point of it.
FetchLost(c) ==
    /\ client[c].at \in {"changed", "fetching"} /\ faults < MaxFaults
    /\ Abandon(c)
    /\ request' = [request EXCEPT ![c] = Section!NoRequest]
    /\ client' = [client EXCEPT ![c].at = "waiting"]
    /\ faults' = faults + 1
    /\ UNCHANGED <<sources, noticed, up, process, installs, generation, healthy,
                   reload, missed, streams, seen>>

\* A stream the network loses, or that has gone silent past the idle deadline.
\* The client finds out when it next has nothing else to do.
StreamLost(c) ==
    /\ stream[c].open /\ faults < MaxFaults
    /\ orphans' = orphans + 1
    /\ stream' = [stream EXCEPT ![c].open = FALSE]
    /\ faults' = faults + 1
    /\ UNCHANGED <<sectionVars, streams, wire, client, seen>>

\* The end of a stream that is no longer served: what had been sent down it has
\* been read by then, or is lost with it.
StreamEnds(c) ==
    /\ client[c].at = "streaming" /\ ~stream[c].open
    /\ Abandon(c)
    /\ client' = [client EXCEPT ![c].at = "waiting"]
    /\ UNCHANGED <<sectionVars, streams, faults, seen>>

\* The program stops the watch, which the loop notices between events.
Stop(c) ==
    /\ client[c].at \in {"waiting", "streaming"}
    /\ Abandon(c)
    /\ client' = [client EXCEPT ![c].at = "ended"]
    /\ UNCHANGED <<sectionVars, streams, faults, seen>>

-----------------------------------------------------------------------------
(* The section's own steps, and the end of a process.                      *)

SectionStep ==
    /\ \/ Section!Edit \/ Section!Reloads
       \/ Section!LoadAtStart \/ Section!WatchAtStart
    /\ UNCHANGED watchVars

\* Every server end dies with the process; what it had sent may still be read.
Crash ==
    /\ Section!Crash
    /\ streams' = 0
    /\ orphans' = 0
    /\ stream' = [c \in Clients |-> [stream[c] EXCEPT !.open = FALSE]]
    /\ UNCHANGED <<wire, client, faults, seen>>

ClientStep(c) ==
    \/ Subscribe(c) \/ NotServed(c)
    \/ ReceiveOpening(c) \/ ReceiveChange(c)
    \/ Fetch(c) \/ Answer(c) \/ Deliver(c) \/ DeliveryRefused(c)
    \/ FetchDies(c) \/ FetchLost(c) \/ StreamLost(c) \/ StreamEnds(c)
    \/ Stop(c)

Next ==
    \/ SectionStep
    \/ Crash
    \/ OrphanDropped
    \/ \E c \in Clients : Emit(c) \/ ClientStep(c)

Spec == Init /\ [][Next]_vars

\* Every thread and connection that can move does: the watcher and its reload,
\* the server polling a connection that is being read and noticing one that is
\* not (its keep-alive fails), the client's loop.  Nothing is assumed of edits,
\* crashes, restarts, stops, refusals or the network, which loses MaxFaults
\* connections at most.
Fairness ==
    /\ WF_vars(Section!WatchWakes /\ UNCHANGED watchVars)
    /\ WF_vars(Section!ReadSources /\ UNCHANGED watchVars)
    /\ WF_vars(Section!PublishDocument /\ UNCHANGED watchVars)
    /\ WF_vars(Section!PublishGeneration /\ UNCHANGED watchVars)
    /\ WF_vars(OrphanDropped)
    /\ \A c \in Clients :
          /\ WF_vars(Emit(c))
          /\ WF_vars(Subscribe(c))
          /\ WF_vars(ReceiveOpening(c) \/ ReceiveChange(c))
          /\ WF_vars(Fetch(c) \/ Answer(c) \/ Deliver(c) \/ FetchDies(c))
          /\ WF_vars(StreamEnds(c))

FairSpec == Spec /\ Fairness

-----------------------------------------------------------------------------
(* Properties.                                                             *)

Process == Nat
Version == 0 .. MaxEdits + 1
Install == [process : Process, install : Nat]

\* Every variable holds a value of its type.
TypeOK ==
    /\ Section!TypeOK
    /\ streams \in Nat /\ orphans \in Nat
    /\ stream \in [Clients -> [open : BOOLEAN, process : Process,
                               resume : Nat, sent : Nat]]
    /\ wire \in [Clients -> Seq(Nat)]
    /\ client \in [Clients -> [at : {"waiting", "streaming", "changed", "fetching", "ended"},
                               resume : Nat, opening : BOOLEAN, event : Nat,
                               last : Version, holds : Version]]
    /\ faults \in 0 .. MaxFaults
    /\ seen \in [Clients -> [read : Install, told : Process, byReading : BOOLEAN,
                             fetched : Process, baseline : Install]]

\* The permits that are out are exactly the streams the server still holds, and
\* never more than the ceiling, however connections end: a place can neither
\* leak nor be given twice.  (Server::open_stream, StreamPermit::drop.)
PermitsMatchStreams ==
    /\ streams = Cardinality({c \in Clients : stream[c].open}) + orphans
    /\ streams <= MaxStreams

\* Whatever waits on a connection is in the order of the installs, each number
\* once, up to the last one sent, which is never ahead of the section.
IdsIncrease(c) ==
    /\ \A i \in 1 .. Len(wire[c]) - 1 : wire[c][i] < wire[c][i + 1]
    /\ wire[c] # << >> => wire[c][Len(wire[c])] = stream[c].sent
    /\ stream[c].open => stream[c].sent <= generation

\* A client is told of installs once each and in order, and the Last-Event-ID it
\* resumes from, once it has read a change, names one it really has: one whose
\* document, or a later one, was read from the process that issued the id.
\* (Generations::is_news; the comment at `Advanced last'.)
ResumeMeansRead ==
    \A c \in Clients :
        /\ IdsIncrease(c)
        /\ seen[c].byReading /\ seen[c].read.process = seen[c].told
               => client[c].resume <= seen[c].read.install

\* What holds between the steps of a stream and of a fetch: a connection that is not
\* there holds nothing, an open one belongs to the running process, and what it has
\* announced of that process is installed by the time it is read.
Following(c) ==
    /\ client[c].at = "waiting" => wire[c] = << >> /\ ~stream[c].open
    /\ stream[c].open => up /\ stream[c].process = process
    /\ stream[c].process <= process
    /\ wire[c] # << >> => stream[c].sent # 0
    /\ up /\ stream[c].process = process =>
           /\ \A i \in 1 .. Len(wire[c]) : wire[c][i] <= generation
           /\ client[c].at \in {"changed", "fetching"} => client[c].event <= generation
    /\ client[c].at = "fetching" /\ request[c].at = "answered"
       /\ seen[c].fetched = stream[c].process => client[c].event <= request[c].install

\* A client with nothing to read, to send or to be told.
AtRest(c) ==
    /\ client[c].at = "streaming" /\ stream[c].open /\ wire[c] = << >>
    /\ ~IsNews(stream[c], generation)
    /\ generation = Len(installs)

\* A client at rest that resumes from what it has read of the running process
\* holds the document being served: losing the connection at any point, before,
\* during or after a fetch, has not cost it a change.
AtRestIsCurrent ==
    \A c \in Clients :
        AtRest(c) /\ seen[c].byReading /\ seen[c].told = process
            => client[c].holds = Section!Current

\* And what makes that one inductive: the number a client would resume from is what its
\* connection sent last, or began with; the answer of a fetch is of the process that sent
\* the event, or a later one; and the document last delivered is the install last read.
Reading(c) ==
    /\ client[c].at = "streaming" =>
           IF stream[c].sent = 0 THEN client[c].resume = stream[c].resume
           ELSE wire[c] = << >> => client[c].resume = stream[c].sent
    /\ client[c].at \in {"changed", "fetching"} =>
           stream[c].sent # 0 /\ (wire[c] = << >> => client[c].event = stream[c].sent)
    /\ client[c].at = "fetching" /\ request[c].at = "answered" =>
           /\ seen[c].fetched \in stream[c].process .. process
           /\ up /\ seen[c].fetched = process =>
                  /\ request[c].install \in DOMAIN installs
                  /\ request[c].version = installs[request[c].install]

Holding(c) ==
    /\ seen[c].read.process <= process
    /\ seen[c].byReading => seen[c].told <= seen[c].read.process
    /\ up /\ seen[c].read.process = process =>
           /\ seen[c].read.install \in DOMAIN installs
           /\ client[c].at # "ended" => client[c].last = installs[seen[c].read.install]
    /\ client[c].at # "ended" => client[c].last \in {0, client[c].holds}

IndInv ==
    /\ TypeOK /\ Section!Counted /\ process # 0
    /\ \A c \in Clients : Following(c) /\ Reading(c) /\ Holding(c)
    /\ PermitsMatchStreams /\ ResumeMeansRead

\* `There is no window in which a change can be missed by being reconnected
\* past': once the server has first told a client where the section stands, a
\* client at rest holds what is served, unless nothing was installed since.
NoChangeReconnectedPast ==
    \A c \in Clients :
        AtRest(c) /\ seen[c].baseline # Nothing /\ ~client[c].opening
            => \/ client[c].holds = Section!Current
               \/ seen[c].baseline = [process |-> process, install |-> generation]

\* Every install published after a client has learned where the section stands
\* reaches the client, or a later one does, or the watch or the process ends.
ChangeReachesClient ==
    \A c \in Clients, p \in 1 .. MaxStarts, g \in 1 .. MaxEdits + MaxCalls + 1 :
        (up /\ process = p /\ generation = g /\ seen[c].told = p /\ client[c].resume < g)
            ~> \/ seen[c].read.process = p /\ seen[c].read.install >= g
               \/ client[c].at = "ended"
               \/ ~up \/ process # p

\* While one process serves the section, all of the above does what
\* WatchContract promises: every change a client accounts for advances it, to a
\* document at least as new as the number it would resume from and as anything
\* it read before, and a client that is behind catches up.
Contract == INSTANCE WatchContract WITH
    Programs <- Clients,
    installed <- Len(installs),
    published <- generation,
    claimed <- [c \in Clients |-> client[c].resume],
    held <- [c \in Clients |-> seen[c].read.install],
    over <- {c \in Clients : client[c].at = "ended"}

KeepsTheContract == Contract!Spec

\* Its safety part, for which the scheduling does not matter.
StepsOfTheContract == Contract!Init /\ [][Contract!Next]_(Contract!contractVars)

\* What makes a step of the one a step of the other, while one process serves: what a
\* client has yet to read, and to account for, is newer than what it has.
Newer(c, number) == \A i \in 1 .. Len(wire[c]) : number < wire[c][i]

Forward(c) ==
    /\ client[c].resume <= generation /\ seen[c].read.install <= Len(installs)
    /\ client[c].opening => client[c].resume = 0
    /\ client[c].at \in {"streaming", "changed", "fetching"} => stream[c].process = process
    /\ \A i, j \in 1 .. Len(wire[c]) : i < j => wire[c][i] < wire[c][j]
    /\ client[c].at = "streaming" =>
           /\ ~client[c].opening => client[c].resume # 0
           /\ Newer(c, client[c].resume)
    /\ client[c].at \in {"changed", "fetching"} =>
           /\ client[c].resume # 0 /\ client[c].resume < client[c].event
           /\ Newer(c, client[c].event)
    /\ client[c].at = "fetching" /\ request[c].at = "answered" =>
           seen[c].read.install <= request[c].install

OneProcess == IndInv /\ up /\ process = 1 /\ \A c \in Clients : Forward(c)
=============================================================================
