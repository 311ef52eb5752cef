-------------------------------- MODULE Server --------------------------------
(***************************************************************************)
(* The config server and the connection of a client: the sections it       *)
(* serves, which this module extends, and beside them the requests it      *)
(* admits, its start, the connections it holds, and one client's.  The     *)
(* parts share no state in the model; each has its constants and variables *)
(* here, and its properties under their own names.                         *)
(***************************************************************************)
EXTENDS ServedSection

CONSTANTS
    \* Of the requests, besides Requests: what they ask, and of whom.
    Asks, Scripts, Applications, Malformed, Served, Granted, Anonymous, Ceilings,
    Ttl, ReviewTime, MaxTime, MaxOutages,
    \* Of the start.
    Configurations, Features, Names, WeakTokens, MaxRotations,
    \* Of the connections.
    Connections, Paths, HANDSHAKE_TIMEOUT, HEADER_TIMEOUT, DRAIN_TIMEOUT,
    \* Of a client's connection.
    Streams, TIMEOUT, IDLE, SLICE, MOST_EVENT_BYTES, MaxTokens, MaxChunk

VARIABLES
    ceiling, now, revoked, api, down, outages, cache, ask, admissionAt, review, caller, consulted,
    answer, log, open, label,
    config, files, rotations, startAt, section, read, opened, served, roster, anonymous,
    outcome,
    path, server, asked, servingAt, left, drain, silent, audited,
    goal, secure, clientAt, elapsed, deadline, file, began, presented, stream, arrived,
    buffer, events, quiet, stopping

admissionVars == <<ceiling, now, revoked, api, down, outages, cache, ask, admissionAt, review,
    caller, consulted, answer, log, open, label>>
startVars == <<config, files, rotations, startAt, section, read, opened, served, roster,
    anonymous, outcome>>
servingVars == <<path, server, asked, servingAt, left, drain, silent, audited>>
clientVars == <<goal, secure, clientAt, elapsed, deadline, file, began, presented, stream,
    arrived, buffer, events, quiet, stopping>>

-----------------------------------------------------------------------------

Adm == INSTANCE Admission WITH at <- admissionAt, generation <- label

Starting == INSTANCE ServerStart WITH at <- startAt

Serve == INSTANCE Serving WITH at <- servingAt

Client == INSTANCE ClientConnection WITH at <- clientAt

ASSUME ServerBounds ==
    Adm!Bounds /\ Starting!Bounds /\ Serve!Bounds /\ Client!Bounds

-----------------------------------------------------------------------------
(* The properties of the parts, stated in their modules.                    *)

\* Every variable holds a value of its type.
TypesOK ==
    /\ TypeOK /\ Adm!TypeOK /\ Starting!TypeOK /\ Serve!TypeOK
    /\ Client!TypeOK

\* No verdict about a pod outlives its token, or an outage, by more than it is kept.
VerdictsAreRecent == Adm!VerdictsAreRecent
\* What is not granted and what does not exist are answered alike.
NotYoursIsNoSuchThing == Adm!NotYoursIsNoSuchThing
\* An answer is recorded once, and as what it was.
EveryAnswerIsRecorded == Adm!EveryAnswerIsRecorded

\* No file is opened for a server that would let anybody in.
NothingIsOpenedForTheWorld == Starting!NothingIsOpenedForTheWorld
\* A server that listens serves what it was configured to, to whom.
ServesAsConfigured == Starting!ServesAsConfigured
\* The key that is used is the certificate's, and private.
KeyIsPrivateAndMatches == Starting!KeyIsPrivateAndMatches

\* No connection holds its place, or the end of the server, for ever.
NothingIsHeldForEver == Serve!NothingIsHeldForEver
\* What is in flight when the server ends is answered.
InFlightIsAnswered == Serve!InFlightIsAnswered
\* A server that is told to stop, stops.
ShutdownEnds == Serve!ShutdownEnds

\* A client reads the events the server wrote, in whatever pieces they come.
EventsAreAsWritten == Client!EventsAreAsWritten
\* A client waits for nothing past its deadline.
DeadlinesAreKept == Client!DeadlinesAreKept
=============================================================================
