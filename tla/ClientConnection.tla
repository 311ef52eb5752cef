-------------------------- MODULE ClientConnection --------------------------
(***************************************************************************)
(* One connection of a config-server client: opened within a budget, asked *)
(* for a document or for the change stream, and read.  The bearer token is *)
(* read from its file for each connection, and the file may be replaced    *)
(* meanwhile.  A stream arrives in whatever pieces the network makes of it, *)
(* and ends when the server ends it, when it has been quiet for IDLE, or   *)
(* when the watch is stopped.                                              *)
(***************************************************************************)
EXTENDS Naturals, Sequences, SequencesExt

CONSTANTS
    Streams,          \* what a server may write: sequences of events
    TIMEOUT,          \* with_timeout, in ticks
    IDLE,             \* how long a stream may be silent
    SLICE,            \* how often the stop of a watch is looked for
    MOST_EVENT_BYTES, \* the most that is held of an event
    MaxTokens,        \* bound: how many tokens the file holds, one after the other
    MaxChunk          \* bound: the most symbols that arrive at once

Bounds ==
    /\ {TIMEOUT, IDLE, SLICE, MOST_EVENT_BYTES, MaxTokens, MaxChunk} \subseteq Nat \ {0}
    /\ \A written \in Streams :
           /\ written \in Seq(Range(written))
           /\ \A e \in Range(written) :
                  /\ e \in [id : Seq(Range(e.id)), data : Seq(Range(e.data)), carried : BOOLEAN]
                  /\ Len(e.id) <= 1
                  /\ e.carried = (e.id # << >> \/ e.data # << >>)

Nothing == 0

VARIABLES
    goal,      \* "document" or "stream"
    secure,    \* whether the URL is an https one
    at,        \* what the connection is about
    elapsed,   \* the ticks since the attempt began, until the stream is open
    deadline,  \* when the wait it is in gives up
    file,      \* the token in the file; Nothing when there is no file
    began,     \* the token in the file when the attempt began
    presented, \* the token that was presented
    stream,    \* the events the server writes
    arrived,   \* how many symbols of them have arrived
    buffer,    \* what has arrived and was not taken
    events,    \* the events handed to the watch
    quiet,     \* the ticks since something arrived
    stopping   \* the ticks the stream was waited for since the watch was stopped, and one

attempt == <<goal, secure, began, presented>>
pieces == <<stream, arrived, buffer, events>>
vars == <<attempt, at, elapsed, deadline, file, pieces, quiet, stopping>>

Waiting == {"connect", "handshake", "request", "body"}
Over == {"done", "remote", "auth", "refused", "closed"}

Init ==
    /\ goal \in {"document", "stream"} /\ secure \in BOOLEAN
    /\ at = "connect" /\ elapsed = 0 /\ deadline = TIMEOUT
    /\ file \in 1 .. MaxTokens /\ began = file /\ presented = Nothing
    /\ stream \in IF goal = "stream" THEN Streams ELSE {<< >>}
    /\ arrived = 0 /\ buffer = << >> /\ events = << >>
    /\ quiet = 0 /\ stopping = Nothing

-----------------------------------------------------------------------------
(* Outside: the token is rotated, and its file may be gone for a moment;   *)
(* the watch is stopped; time passes, though never past a deadline.        *)

RotateToken ==
    /\ at \notin Over /\ file # Nothing /\ file < MaxTokens
    /\ file' = file + 1
    /\ UNCHANGED <<attempt, at, elapsed, deadline, pieces, quiet, stopping>>

LoseToken ==
    /\ at \notin Over /\ file # Nothing
    /\ file' = Nothing
    /\ UNCHANGED <<attempt, at, elapsed, deadline, pieces, quiet, stopping>>

StopWatch ==
    /\ at \notin Over /\ goal = "stream" /\ stopping = Nothing
    /\ stopping' = 1
    /\ UNCHANGED <<attempt, at, elapsed, deadline, file, pieces, quiet>>

Newline == <<"newline">>

\* What is in the buffer is taken at once.
Complete(bytes) ==
    {i \in 2 .. Len(bytes) : bytes[i - 1] = Newline /\ bytes[i] = Newline}

StopDue == stopping > SLICE

Tick ==
    /\ \/ at \in Waiting /\ elapsed < deadline
       \/ at = "stream" /\ quiet < IDLE /\ Complete(buffer) = {} /\ ~StopDue
    /\ elapsed' = IF at \in Waiting THEN elapsed + 1 ELSE elapsed
    /\ quiet' = IF at = "stream" THEN quiet + 1 ELSE quiet
    /\ stopping' = IF at = "stream" /\ stopping # Nothing THEN stopping + 1 ELSE stopping
    /\ UNCHANGED <<attempt, at, deadline, file, pieces>>

-----------------------------------------------------------------------------
(* Connection::open and get, each step within what the budget has left.    *)

\* Mutant: each step has the whole of the budget.
LeftAgain == TIMEOUT

Left == TIMEOUT - elapsed

Go(next) ==
    /\ at' = next
    /\ deadline' = elapsed + Left
    /\ UNCHANGED <<elapsed, file, pieces, quiet, stopping>>

Connected ==
    /\ at = "connect"
    /\ Go(IF secure THEN "handshake" ELSE "bearer")
    /\ UNCHANGED attempt

HandshakeDone ==
    /\ at = "handshake"
    /\ Go("bearer")
    /\ UNCHANGED attempt

\* Refused, reset, or not to be verified.
ConnectionFails ==
    /\ at \in Waiting
    /\ Go("remote")
    /\ UNCHANGED attempt

\* A step that finds nothing left is given no time.
OutOfTime ==
    /\ at \in Waiting /\ elapsed = deadline
    /\ Go("remote")
    /\ UNCHANGED attempt

\* The token is read when there is a connection to present it on.
Bearer ==
    /\ at = "bearer"
    /\ IF file = Nothing
       THEN Go("auth") /\ UNCHANGED attempt
       ELSE /\ presented' = file
            /\ Go("request")
            /\ UNCHANGED <<goal, secure, began>>

\* 401, 403 and 404 are about the credential; a stream that is not there is refused.
Answered ==
    /\ at = "request"
    /\ Go(CASE goal = "document" -> "body" [] OTHER -> "stream")
    /\ UNCHANGED attempt

TurnedAway ==
    /\ at = "request"
    /\ \E status \in {401, 403, 404, 503} :
          Go(CASE status = 503 -> "remote"
               [] status = 404 /\ goal = "stream" -> "refused"
               [] OTHER -> "auth")
    /\ UNCHANGED attempt

\* The whole body, and an envelope that holds a document; or one that is too long, or not.
BodyRead ==
    /\ at = "body"
    /\ \E end \in {"done", "remote"} : Go(end)
    /\ UNCHANGED attempt

-----------------------------------------------------------------------------
(* Events.                                                                 *)

\* An event is named as well as numbered, and a keep-alive is a comment.
Lines(e) ==
    LET Field(kind, values) == [i \in DOMAIN values |-> <<kind, values[i]>>] IN
    IF e.carried
    THEN Field("id", e.id) \o << <<"event">> >> \o Field("data", e.data)
    ELSE << <<"comment">> >>

\* Each line is ended, and then the block is.
Written(e) ==
    LET lines == Lines(e) IN
    [i \in 1 .. 2 * Len(lines) + 1 |->
        IF \E j \in DOMAIN lines : i = 2 * j - 1
        THEN lines[CHOOSE j \in DOMAIN lines : i = 2 * j - 1]
        ELSE Newline]

\* Of a stream: what its first n events are.
Bytes(written) ==
    LET upto[n \in 0 .. Len(written)] ==
            IF n = 0 THEN << >> ELSE upto[n - 1] \o Written(written[n])
    IN  upto
AllBytes == Bytes(stream)[Len(stream)]

Least(set) == CHOOSE i \in set : \A j \in set : i <= j

\* The last id counts, and all of the data; any other line says nothing.
Blank == [id |-> << >>, data |-> << >>, carried |-> FALSE]
Understood(e, line) ==
    CASE line[1] = "id" -> [id |-> <<line[2]>>, data |-> e.data, carried |-> TRUE]
      [] line[1] = "data" -> [id |-> e.id, data |-> Append(e.data, line[2]), carried |-> TRUE]
      [] OTHER -> e
Parse(block) ==
    LET after[n \in 0 .. Len(block)] ==
            IF n = 0 THEN Blank ELSE Understood(after[n - 1], block[n])
    IN  after[Len(block)]

\* Mutant: what follows the block in the buffer goes with it.
TakeAll ==
    /\ at = "stream" /\ Complete(buffer) # {}
    /\ LET end == Least(Complete(buffer)) IN
          events' = Append(events, Parse(SubSeq(buffer, 1, end)))
    /\ buffer' = << >>
    /\ UNCHANGED <<attempt, at, elapsed, deadline, file, stream, arrived, quiet, stopping>>

\* One complete block, and what is left.
Take ==
    /\ at = "stream" /\ Complete(buffer) # {}
    /\ LET end == Least(Complete(buffer)) IN
          /\ events' = Append(events, Parse(SubSeq(buffer, 1, end)))
          /\ buffer' = SubSeq(buffer, end + 1, Len(buffer))
    /\ UNCHANGED <<attempt, at, elapsed, deadline, file, stream, arrived, quiet, stopping>>

\* A piece of the stream: kept, unless it would make an event that is too long.
Chunk ==
    /\ at = "stream" /\ Complete(buffer) = {}
    /\ \E n \in 1 .. MaxChunk :
          /\ arrived + n <= Len(AllBytes)
          /\ IF Len(buffer) + n > MOST_EVENT_BYTES
             THEN /\ at' = "remote"
                  /\ UNCHANGED <<arrived, buffer>>
             ELSE /\ arrived' = arrived + n
                  /\ buffer' = buffer \o SubSeq(AllBytes, arrived + 1, arrived + n)
                  /\ UNCHANGED at
    /\ quiet' = 0
    /\ UNCHANGED <<attempt, elapsed, deadline, file, stream, events, stopping>>

\* Half an event is not one.
StreamCloses ==
    /\ at = "stream" /\ Complete(buffer) = {}
    /\ \E end \in {"closed", "remote"} : Go(end)
    /\ UNCHANGED attempt

Silence ==
    /\ at = "stream" /\ Complete(buffer) = {} /\ quiet = IDLE
    /\ Go("remote")
    /\ UNCHANGED attempt

\* Looked for while nothing arrives, and between two events.
StopSeen ==
    /\ at = "stream" /\ stopping # Nothing
    /\ Go("closed")
    /\ UNCHANGED attempt

Next ==
    \/ RotateToken \/ LoseToken \/ StopWatch \/ Tick
    \/ Connected \/ HandshakeDone \/ ConnectionFails \/ OutOfTime \/ Bearer \/ Answered
    \/ TurnedAway \/ BodyRead \/ Take \/ Chunk \/ StreamCloses \/ Silence \/ StopSeen

Spec == Init /\ [][Next]_vars

-----------------------------------------------------------------------------
(* Properties.                                                             *)

\* Every variable holds a value of its type.
TypeOK ==
    /\ at \in Waiting \cup Over \cup {"bearer", "stream"}
    /\ {elapsed, deadline} \subseteq Nat /\ quiet \in 0 .. IDLE
    /\ {file, presented} \subseteq 0 .. MaxTokens
    /\ arrived \in 0 .. Len(AllBytes) /\ Len(buffer) <= MOST_EVENT_BYTES
    /\ stopping \in 0 .. IDLE + SLICE + 1

\* What is handed over is what the server wrote, event by event, whatever the pieces it
\* arrived in; a keep-alive carries nothing; and half an event is never one.
EventsAreAsWritten ==
    /\ IsPrefix(events, stream)
    /\ at = "stream" /\ Complete(buffer) = {} =>
           \A n \in 1 .. Len(stream) :
               Len(Bytes(stream)[n]) <= arrived => Len(events) >= n

\* Whatever waits, waits within what is left: an attempt is over, or has its stream, when
\* its timeout has passed, and a watch that is stopped lets go of a stream that says
\* nothing within a slice.
\* (`a slow connect leaves the body less time rather than adding to the total'; `A stopped
\* watch does not wait for the stream to say something'.)
DeadlinesAreKept ==
    /\ at \in Waiting => elapsed <= TIMEOUT
    /\ at = "stream" => stopping <= SLICE + 1

\* What makes that inductive: whatever an attempt waits for, it gives up at the same time,
\* which is not past; and the stop is looked for before another slice has begun.
Budgeted ==
    /\ elapsed \in 0 .. TIMEOUT /\ deadline = TIMEOUT
    /\ stopping \in 0 .. SLICE + 1

\* What makes the first inductive: what has arrived is what was handed over, as it was
\* written, and the buffer.
NothingIsLost ==
    LET taken == Bytes(stream)[Len(events)] IN
    /\ stream \in Streams \cup {<< >>}
    /\ Len(events) \in 0 .. Len(stream) /\ events = SubSeq(stream, 1, Len(events))
    /\ arrived \in Len(taken) .. Len(AllBytes)
    /\ buffer = SubSeq(AllBytes, Len(taken) + 1, arrived)
=============================================================================
