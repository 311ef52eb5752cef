------------------------------- MODULE Serving -------------------------------
(***************************************************************************)
(* The connections of the config server, and its end.  Over TLS a          *)
(* connection has HANDSHAKE_TIMEOUT to shake hands and HEADER_TIMEOUT to    *)
(* send the headers of a request, and from the moment it sees the shutdown *)
(* DRAIN_TIMEOUT to be done.  In the clear the first two have no end, and  *)
(* DRAIN_TIMEOUT is that of the server.                                    *)
(*                                                                         *)
(* Deadlines are countdowns in ticks of a clock that does not pass one.    *)
(***************************************************************************)
EXTENDS Naturals, FiniteSets

CONSTANTS
    Connections, \* the connections
    Paths,       \* "tls" (serve_tls), "plain" (serve_plain)
    HANDSHAKE_TIMEOUT, HEADER_TIMEOUT, DRAIN_TIMEOUT

Bounds ==
    /\ Paths \subseteq {"tls", "plain"}
    /\ {HANDSHAKE_TIMEOUT, HEADER_TIMEOUT, DRAIN_TIMEOUT} \subseteq Nat \ {0}

Unlimited == HANDSHAKE_TIMEOUT + HEADER_TIMEOUT + DRAIN_TIMEOUT + 1
Latest == HANDSHAKE_TIMEOUT + DRAIN_TIMEOUT

VARIABLES
    path,     \* how it serves
    server,   \* "accepting", "draining" or "stopped"
    asked,    \* the ticks since the shutdown was asked for
    at,       \* where each connection is
    left,     \* what is left of the time it has there
    drain,    \* what is left of the time it has to finish; Unlimited before it has to
    silent,   \* the ticks since it was accepted, while no request has come
    audited   \* the connections whose handshake is in the audit log

vars == <<path, server, asked, at, left, drain, silent, audited>>

Open == {"handshaking", "headers", "responding", "streaming"}
Closed == {"refused", "timed out", "idle", "answered", "dropped", "gone"}

Init ==
    /\ path \in Paths
    /\ server = "accepting" /\ asked = 0
    /\ at = [c \in Connections |-> "away"]
    /\ left = [c \in Connections |-> Unlimited]
    /\ drain = [c \in Connections |-> Unlimited]
    /\ silent = [c \in Connections |-> 0]
    /\ audited = {}

Go(c, where, limit) ==
    /\ at' = [at EXCEPT ![c] = where]
    /\ left' = [left EXCEPT ![c] = IF path = "tls" THEN limit ELSE Unlimited]

Close(c, how) == Go(c, how, Unlimited)

\* A connection that is done with what it was doing while it drains does not go on.
Draining(c) == drain[c] # Unlimited

-----------------------------------------------------------------------------

Accept(c) ==
    /\ server = "accepting" /\ at[c] = "away"
    /\ IF path = "tls" THEN Go(c, "handshaking", HANDSHAKE_TIMEOUT)
                       ELSE Go(c, "headers", Unlimited)
    /\ UNCHANGED <<path, server, asked, drain, silent, audited>>

\* Mutant: a connection that shook hands waits for its headers for ever.
ShakeHandsWaiting(c) ==
    /\ at[c] = "handshaking"
    /\ IF server = "accepting"
       THEN Go(c, "headers", Unlimited) /\ UNCHANGED drain
       ELSE \/ Close(c, "idle") /\ UNCHANGED drain
            \/ /\ \E where \in {"headers", "responding", "streaming"} : Go(c, where, Unlimited)
               /\ drain' = [drain EXCEPT ![c] = DRAIN_TIMEOUT]
    /\ UNCHANGED <<path, server, asked, silent, audited>>

\* A handshake that is done as its time ends is done.  The shutdown is looked at from here
\* on; what shook hands meanwhile sees it at once.  Which of the two is polled first is
\* not said, so a request may still be read.
ShakeHands(c) ==
    /\ at[c] = "handshaking"
    /\ IF server = "accepting"
       THEN Go(c, "headers", HEADER_TIMEOUT) /\ UNCHANGED drain
       ELSE \/ Close(c, "idle") /\ UNCHANGED drain
            \/ /\ \E where \in {"headers", "responding", "streaming"} :
                     Go(c, where, IF where = "headers" THEN HEADER_TIMEOUT ELSE Unlimited)
               /\ drain' = [drain EXCEPT ![c] = DRAIN_TIMEOUT]
    /\ UNCHANGED <<path, server, asked, silent, audited>>

\* It failed, or took too long: one connection, and one line that says no more.
RefuseHandshake(c) ==
    /\ at[c] = "handshaking"
    /\ Close(c, "refused")
    /\ audited' = audited \cup {c}
    /\ UNCHANGED <<path, server, asked, drain, silent>>

\* The headers are there: a request with an answer, or one for the change stream.
Request(c) ==
    /\ at[c] = "headers" /\ left[c] > 0
    /\ \E where \in {"responding", "streaming"} : Go(c, where, Unlimited)
    /\ silent' = [silent EXCEPT ![c] = 0]
    /\ UNCHANGED <<path, server, asked, drain, audited>>

HeadersTimeOut(c) ==
    /\ at[c] = "headers" /\ left[c] = 0
    /\ Close(c, "timed out")
    /\ UNCHANGED <<path, server, asked, drain, silent, audited>>

\* The answer is sent: the connection waits for another request, unless it drains.
Respond(c) ==
    /\ at[c] = "responding"
    /\ IF Draining(c) THEN Close(c, "answered") ELSE Go(c, "headers", HEADER_TIMEOUT)
    /\ UNCHANGED <<path, server, asked, drain, silent, audited>>

ClientLeaves(c) ==
    /\ at[c] \in Open \ {"handshaking"}
    /\ Close(c, "gone")
    /\ UNCHANGED <<path, server, asked, drain, silent, audited>>

\* Mutant: whoever is not streaming is closed at once.
ShutdownAbrupt ==
    /\ server = "accepting"
    /\ server' = "draining"
    /\ \E idle \in SUBSET {c \in Connections : at[c] \in {"headers", "responding"}} :
          /\ at' = [c \in Connections |-> IF c \in idle THEN "idle" ELSE at[c]]
          /\ drain' = [c \in Connections |->
                          IF at[c] \in Open \ {"handshaking"} /\ c \notin idle
                          THEN DRAIN_TIMEOUT ELSE drain[c]]
    /\ UNCHANGED <<path, asked, left, silent, audited>>

\* Mutant: the connections are waited for, and given no time to finish in.
ShutdownPatient ==
    /\ server = "accepting"
    /\ server' = "draining"
    /\ \E idle \in SUBSET {c \in Connections : at[c] = "headers"} :
          at' = [c \in Connections |-> IF c \in idle THEN "idle" ELSE at[c]]
    /\ UNCHANGED <<path, asked, left, drain, silent, audited>>

\* The listener is gone.  What waits for a request is closed, or is in the middle of its
\* headers; what shakes hands does not see it yet.
Shutdown ==
    /\ server = "accepting"
    /\ server' = "draining"
    /\ \E idle \in SUBSET {c \in Connections : at[c] = "headers"} :
          /\ at' = [c \in Connections |-> IF c \in idle THEN "idle" ELSE at[c]]
          /\ drain' = [c \in Connections |->
                          IF at[c] \in Open \ {"handshaking"} /\ c \notin idle
                          THEN DRAIN_TIMEOUT ELSE drain[c]]
    /\ UNCHANGED <<path, asked, left, silent, audited>>

\* Over TLS each connection is dropped at its own time, in the clear all at the server's.
DrainEnds(c) ==
    /\ drain[c] = 0 /\ at[c] \in Open
    /\ Close(c, "dropped")
    /\ UNCHANGED <<path, server, asked, drain, silent, audited>>

Stop ==
    /\ server = "draining"
    /\ \A c \in Connections : at[c] \notin Open
    /\ server' = "stopped"
    /\ UNCHANGED <<path, asked, at, left, drain, silent, audited>>

\* Nothing is late: a deadline that has come is met before time goes on.
Later(count) == IF count = Unlimited THEN count ELSE count - 1

Tick ==
    /\ \E c \in Connections : at[c] \in Open
    /\ \A c \in Connections : at[c] \in Open => left[c] > 0 /\ drain[c] > 0
    /\ left' = [c \in Connections |-> IF at[c] \in Open THEN Later(left[c]) ELSE left[c]]
    /\ drain' = [c \in Connections |-> IF at[c] \in Open THEN Later(drain[c]) ELSE drain[c]]
    /\ silent' = [c \in Connections |->
                     IF at[c] \in {"handshaking", "headers"} /\ silent[c] < Unlimited
                     THEN silent[c] + 1 ELSE silent[c]]
    /\ asked' = IF server = "draining" /\ asked <= Latest THEN asked + 1 ELSE asked
    /\ UNCHANGED <<path, server, at, audited>>

Connection(c) ==
    \/ ShakeHands(c) \/ RefuseHandshake(c) \/ Request(c) \/ HeadersTimeOut(c)
    \/ Respond(c) \/ DrainEnds(c)

Next ==
    \/ \E c \in Connections : Accept(c) \/ ClientLeaves(c) \/ Connection(c)
    \/ Shutdown \/ Stop \/ Tick

Spec == Init /\ [][Next]_vars

\* Time passes, and the server's own steps happen when they are due: neither a client nor
\* a handler is trusted to do anything.
Fairness ==
    /\ WF_vars(Tick) /\ WF_vars(Stop)
    /\ \A c \in Connections :
          /\ WF_vars(left[c] = 0 /\ RefuseHandshake(c))
          /\ WF_vars(HeadersTimeOut(c)) /\ WF_vars(DrainEnds(c))

FairSpec == Spec /\ Fairness

-----------------------------------------------------------------------------
(* Properties.                                                             *)

\* Every variable holds a value of its type.
TypeOK ==
    /\ path \in Paths /\ server \in {"accepting", "draining", "stopped"}
    /\ asked \in 0 .. Latest + 1
    /\ at \in [Connections -> Open \cup Closed \cup {"away"}]
    /\ left \in [Connections -> 0 .. Unlimited]
    /\ drain \in [Connections -> 0 .. Unlimited]
    /\ silent \in [Connections -> 0 .. Unlimited]
    /\ audited \subseteq Connections

\* A request that is in flight when the shutdown comes is answered, unless its answer
\* takes longer than a connection is given to finish.
\* (`dropping the fetch a pod is making at that moment would make a rollout look like a
\* configuration failure'.)
InFlightIsAnswered ==
    [][\A c \in Connections :
          at[c] = "responding" /\ server' # "accepting" /\ at'[c] \in Closed \ {"gone"}
              => at'[c] = "answered" \/ asked >= DRAIN_TIMEOUT]_vars

\* A connection that says nothing does not hold a place over TLS: it is gone when a
\* handshake and the headers of a request have had their time.  And whoever says nothing,
\* streams, or is still shaking hands, a server that is told to stop has stopped within
\* the two times it gives them.
\* (`A connection must not be able to hold a slot forever'; `Shutdown must end'.)
NothingIsHeldForEver ==
    /\ path = "tls" =>
           \A c \in Connections : at[c] \in {"handshaking", "headers"} =>
               silent[c] <= HANDSHAKE_TIMEOUT + HEADER_TIMEOUT
    /\ server = "draining" => asked <= Latest

\* `How long a connection has to finish once shutdown has been asked for.'
EndsWithinTheDrain == server = "draining" => asked <= DRAIN_TIMEOUT

\* A server that is told to stop, stops, though streams do not end and clients do not
\* leave.
\* (`Shutdown must end.')
ShutdownEnds == server = "draining" ~> server = "stopped"

\* What the clock leaves of a connection's time, and what it has used of it, are no more
\* than it was given; and of a server that drains, no less than it is promised.
InTime(c) ==
    /\ at[c] = "away" => silent[c] = 0
    /\ at[c] = "handshaking" => path = "tls" /\ left[c] + silent[c] <= HANDSHAKE_TIMEOUT
    /\ path = "tls" =>
           /\ at[c] = "headers" =>
                  left[c] + silent[c] <= HANDSHAKE_TIMEOUT + HEADER_TIMEOUT
           /\ at[c] = "responding" => silent[c] <= HANDSHAKE_TIMEOUT
    /\ server = "accepting" => drain[c] = Unlimited
    /\ server = "draining" =>
           /\ at[c] = "handshaking" => left[c] + asked <= HANDSHAKE_TIMEOUT
           /\ at[c] \in Open \ {"handshaking"} => drain[c] + asked <= Latest
           /\ drain[c] # Unlimited => drain[c] + asked >= DRAIN_TIMEOUT
    /\ server = "stopped" => at[c] \notin Open

IndInv ==
    /\ TypeOK
    /\ server = "accepting" => asked = 0
    /\ server = "draining" => asked <= Latest
    /\ \A c \in Connections : InTime(c)
=============================================================================
