------------------------------ MODULE Admission ------------------------------
(***************************************************************************)
(* Who may ask the config server for what.  A request is authenticated by  *)
(* its header: a configured token, a pod's service-account token that the  *)
(* Kubernetes API server vouches for, or nothing at all where an anonymous *)
(* client is configured.  It is then admitted by the caller's grants,      *)
(* before anything is looked up; served; and recorded.                     *)
(*                                                                         *)
(* A verdict of the API server is kept for CACHE_TTL.  Requests ask for    *)
(* one side by side, each without the lock, and the one that is answered   *)
(* last stays.                                                             *)
(***************************************************************************)
EXTENDS Naturals, FiniteSets

CONSTANTS
    Requests,     \* the requests, each made once
    Asks,         \* what may be asked: records [header, endpoint, application, shaped]
    Scripts,      \* which requests are made side by side
    Applications, \* the names of applications
    Malformed,    \* a name that is_name refuses
    Served,       \* the applications that have a section
    Granted,      \* what each principal may read
    Anonymous,    \* whether there is an anonymous client
    Ceilings,     \* what max_stream_connections may be; zero turns the stream off
    Ttl,          \* CACHE_TTL
    ReviewTime,   \* the timeout of a review
    MaxTime,      \* bound: when the model's clock stops
    MaxOutages    \* bound: how often the API server goes away

Principals == {"client", "anonymous", "pod"}
Headers == {"absent", "not_text", "unusable", "client", "pod"}
Endpoints == {"document", "status", "check", "stream", "metrics"}

Bounds ==
    /\ Served \subseteq Applications /\ Malformed \notin Applications
    /\ Granted \in [Principals -> SUBSET Applications]
    /\ Granted["client"] \cup Granted["anonymous"] \subseteq Served
    /\ Asks \subseteq [header : Headers, endpoint : Endpoints,
                       application : Applications \cup {Malformed}, shaped : BOOLEAN]
    /\ Scripts \subseteq [Requests -> Asks]
    /\ Anonymous \in BOOLEAN
    /\ Ceilings \subseteq Nat /\ {Ttl, ReviewTime, MaxTime, MaxOutages} \subseteq Nat
    /\ Ttl > 0

Nobody == "nobody"
Never == MaxTime + 100

VARIABLES
    ceiling,   \* max_stream_connections of this server
    now,       \* the time
    revoked,   \* since when the pod's token is not valid; Never while it is
    api,       \* whether the API server answers, and this server's own token is there
    down,      \* when it last did not; Never if it always did
    outages,   \* how often it went away
    cache,     \* the verdict kept about the pod's token, and since when
    ask,       \* what each request asks for
    at,        \* where its handler is
    review,    \* of a request under review: when it began, and what it heard
    caller,    \* who it is from
    consulted, \* whether the section map was looked at for it
    answer,    \* what it was answered with: the status, and the applications named
    log,       \* the audit lines of each request
    open,      \* the streams that are open
    generation \* the generation of the sections

world == <<ceiling, now, revoked, api, down, outages>>
request == <<ask, at, review, caller, consulted, answer, log>>
vars == <<world, cache, request, open, generation>>

NoVerdict == [principal |-> "none", since |-> 0]
NoReview == [began |-> Never, heard |-> "none"]
Unanswered == [status |-> "none", names |-> {}]

Init ==
    /\ ceiling \in Ceilings
    /\ now = 0 /\ revoked = Never /\ api = TRUE /\ down = Never /\ outages = 0
    /\ cache = NoVerdict
    /\ ask \in Scripts
    /\ at = [r \in Requests |-> "out"]
    /\ review = [r \in Requests |-> NoReview]
    /\ caller = [r \in Requests |-> Nobody]
    /\ consulted = [r \in Requests |-> FALSE]
    /\ answer = [r \in Requests |-> Unanswered]
    /\ log = [r \in Requests |-> {}]
    /\ open = {}
    /\ generation = 1

-----------------------------------------------------------------------------
(* The cluster, and time, which matter where a pod asks.  A review ends at *)
(* its timeout.                                                            *)

APodAsks == \E r \in Requests : ask[r].header = "pod"

Tick ==
    /\ now < MaxTime /\ APodAsks
    /\ \A r \in Requests : at[r] \in {"reviewing", "heard"} =>
           now < review[r].began + ReviewTime
    /\ now' = now + 1
    /\ down' = IF api THEN down ELSE now'
    /\ UNCHANGED <<ceiling, revoked, api, outages, cache, request, open, generation>>

RevokePod ==
    /\ revoked = Never /\ APodAsks
    /\ revoked' = now
    /\ UNCHANGED <<ceiling, now, api, down, outages, cache, request, open, generation>>

ApiGoes ==
    /\ api /\ outages < MaxOutages /\ APodAsks
    /\ api' = FALSE
    /\ down' = now
    /\ outages' = outages + 1
    /\ UNCHANGED <<ceiling, now, revoked, cache, request, open, generation>>

ApiReturns ==
    /\ ~api
    /\ api' = TRUE
    /\ down' = now
    /\ UNCHANGED <<ceiling, now, revoked, outages, cache, request, open, generation>>

Install ==
    /\ generation = 1
    /\ generation' = 2
    /\ UNCHANGED <<world, cache, request, open>>

-----------------------------------------------------------------------------
(* authenticate and KubernetesVerifier::verify.                            *)

Identify(r, who) ==
    /\ caller' = [caller EXCEPT ![r] = who]
    /\ at' = [at EXCEPT ![r] = IF who = Nobody THEN "refused" ELSE "identified"]

\* A header that is there and is of no use is not taken for none.  One that is not
\* text is: admit and metrics turn it into None before they ask who it is.
Authenticate(r) ==
    /\ at[r] = "out" /\ ask[r].header # "pod"
    /\ Identify(r, CASE ask[r].header = "client" -> "client"
                     [] ask[r].header \in {"absent", "not_text"} /\ Anonymous -> "anonymous"
                     [] OTHER -> Nobody)
    /\ UNCHANGED <<world, cache, ask, review, consulted, answer, log, open, generation>>

\* Mutant: a verdict is kept for an instant too long.
FreshTooLong == cache # NoVerdict /\ now - cache.since <= Ttl

Fresh == cache # NoVerdict /\ now - cache.since < Ttl

VerdictKept(r) ==
    /\ at[r] = "out" /\ ask[r].header = "pod" /\ Fresh
    /\ Identify(r, cache.principal)
    /\ UNCHANGED <<world, cache, ask, review, consulted, answer, log, open, generation>>

BeginReview(r) ==
    /\ at[r] = "out" /\ ask[r].header = "pod" /\ ~Fresh
    /\ at' = [at EXCEPT ![r] = "reviewing"]
    /\ review' = [review EXCEPT ![r].began = now]
    /\ UNCHANGED <<world, cache, ask, caller, consulted, answer, log, open, generation>>

\* What the API server says, or that it does not: both are verdicts.
Hear(r) ==
    /\ at[r] = "reviewing"
    /\ at' = [at EXCEPT ![r] = "heard"]
    /\ review' = [review EXCEPT ![r].heard =
                     IF api /\ revoked = Never THEN "pod" ELSE Nobody]
    /\ UNCHANGED <<world, cache, ask, caller, consulted, answer, log, open, generation>>

KeepVerdict(r) ==
    /\ at[r] = "heard"
    /\ cache' = [principal |-> review[r].heard, since |-> now]
    /\ Identify(r, review[r].heard)
    /\ review' = [review EXCEPT ![r] = NoReview]
    /\ UNCHANGED <<world, ask, consulted, answer, log, open, generation>>

-----------------------------------------------------------------------------
(* admit, and the handlers.                                                *)

\* One answer, and one line about it.  A name that was not checked is not written.
Answer(r, status, outcome, names, where, label) ==
    /\ at' = [at EXCEPT ![r] = "answered"]
    /\ answer' = [answer EXCEPT ![r] = [status |-> status, names |-> names]]
    /\ log' = [log EXCEPT ![r] = @ \cup {[caller |-> caller[r], outcome |-> outcome,
                                          where |-> where, generation |-> label]}]

MayRead(r) == ask[r].application \in Granted[caller[r]]

RefuseNobody(r) ==
    /\ at[r] = "refused"
    /\ Answer(r, "unauthenticated", "unauthenticated", {}, {}, 0)
    /\ UNCHANGED <<world, cache, ask, review, caller, consulted, open, generation>>

\* A scrape names the sections the caller may read.
Scrape(r) ==
    /\ at[r] = "identified" /\ ask[r].endpoint = "metrics"
    /\ Answer(r, "ok", "served", Served \cap Granted[caller[r]], {}, 0)
    /\ UNCHANGED <<world, cache, ask, review, caller, consulted, open, generation>>

RefuseMalformed(r) ==
    /\ at[r] = "identified" /\ ask[r].endpoint # "metrics"
    /\ ask[r].application = Malformed
    /\ Answer(r, "not_found", "malformed", {}, {}, 0)
    /\ UNCHANGED <<world, cache, ask, review, caller, consulted, open, generation>>

\* Mutant: the map is looked at before the grant.
AdmitLookingFirst(r) ==
    /\ at[r] = "identified" /\ ask[r].endpoint # "metrics"
    /\ ask[r].application # Malformed
    /\ consulted' = [consulted EXCEPT ![r] = TRUE]
    /\ IF MayRead(r) /\ ask[r].application \in Served
       THEN at' = [at EXCEPT ![r] = "admitted"] /\ UNCHANGED <<answer, log>>
       ELSE Answer(r, "not_found", "not-found", {}, {ask[r].application}, 0)
    /\ UNCHANGED <<world, cache, ask, review, caller, open, generation>>

\* The grant is asked first, and the map is not touched without one.
Admit(r) ==
    /\ at[r] = "identified" /\ ask[r].endpoint # "metrics"
    /\ ask[r].application # Malformed
    /\ consulted' = [consulted EXCEPT ![r] = MayRead(r)]
    /\ IF MayRead(r) /\ ask[r].application \in Served
       THEN at' = [at EXCEPT ![r] = "admitted"] /\ UNCHANGED <<answer, log>>
       ELSE Answer(r, "not_found", "not-found", {}, {ask[r].application}, 0)
    /\ UNCHANGED <<world, cache, ask, review, caller, open, generation>>

ServeAdmitted(r, label) ==
    Answer(r, "ok", "served", {ask[r].application}, {ask[r].application}, label)

\* document and paths, of a section that was loaded when the server started.
ServeDocument(r) ==
    /\ at[r] = "admitted" /\ ask[r].endpoint = "document"
    /\ ServeAdmitted(r, generation)
    /\ UNCHANGED <<world, cache, ask, review, caller, consulted, open, generation>>

ServeStatus(r) ==
    /\ at[r] = "admitted" /\ ask[r].endpoint = "status"
    /\ ServeAdmitted(r, generation)
    /\ UNCHANGED <<world, cache, ask, review, caller, consulted, open, generation>>

\* Mutant: a diagnosis that fails is recorded like one that was served.
DiagnosedEitherWay(r) ==
    /\ at[r] = "reading"
    /\ \/ ServeAdmitted(r, generation)
       \/ Answer(r, "failed", "served", {ask[r].application}, {ask[r].application}, 0)
    /\ UNCHANGED <<world, cache, ask, review, caller, consulted, open, generation>>

\* check and explain read the sources on another thread; the path of an explanation is
\* looked at first.
RefuseShape(r) ==
    /\ at[r] = "admitted" /\ ask[r].endpoint = "check" /\ ~ask[r].shaped
    /\ Answer(r, "not_found", "malformed", {}, {ask[r].application}, 0)
    /\ UNCHANGED <<world, cache, ask, review, caller, consulted, open, generation>>

ReadSources(r) ==
    /\ at[r] = "admitted" /\ ask[r].endpoint = "check" /\ ask[r].shaped
    /\ at' = [at EXCEPT ![r] = "reading"]
    /\ UNCHANGED <<world, cache, ask, review, caller, consulted, answer, log, open,
                   generation>>

Diagnosed(r) ==
    /\ at[r] = "reading"
    /\ \/ ServeAdmitted(r, generation)
       \/ Answer(r, "failed", "unavailable", {ask[r].application}, {ask[r].application}, 0)
    /\ UNCHANGED <<world, cache, ask, review, caller, consulted, open, generation>>

\* A caller that goes away takes its handler with it.
Abandon(r) ==
    /\ at[r] = "reading"
    /\ at' = [at EXCEPT ![r] = "abandoned"]
    /\ UNCHANGED <<world, cache, ask, review, caller, consulted, answer, log, open,
                   generation>>

\* Turned off, it is a path that is not served.
StreamTurnedOff(r) ==
    /\ at[r] = "admitted" /\ ask[r].endpoint = "stream" /\ ceiling = 0
    /\ Answer(r, "not_found", "not-found", {}, {ask[r].application}, 0)
    /\ UNCHANGED <<world, cache, ask, review, caller, consulted, open, generation>>

\* Full, it is a server that is not able.
StreamAtCapacity(r) ==
    /\ at[r] = "admitted" /\ ask[r].endpoint = "stream"
    /\ ceiling > 0 /\ Cardinality(open) >= ceiling
    /\ Answer(r, "unavailable", "unavailable", {}, {ask[r].application}, 0)
    /\ UNCHANGED <<world, cache, ask, review, caller, consulted, open, generation>>

Stream(r) ==
    /\ at[r] = "admitted" /\ ask[r].endpoint = "stream" /\ Cardinality(open) < ceiling
    /\ ServeAdmitted(r, generation)
    /\ open' = open \cup {r}
    /\ UNCHANGED <<world, cache, ask, review, caller, consulted, generation>>

CloseStream(r) ==
    /\ r \in open
    /\ open' = open \ {r}
    /\ UNCHANGED <<world, cache, request, generation>>

Handler(r) ==
    \/ Authenticate(r) \/ VerdictKept(r) \/ BeginReview(r) \/ Hear(r) \/ KeepVerdict(r)
    \/ RefuseNobody(r) \/ Scrape(r) \/ RefuseMalformed(r) \/ Admit(r)
    \/ ServeDocument(r) \/ ServeStatus(r) \/ RefuseShape(r) \/ ReadSources(r)
    \/ Diagnosed(r) \/ Abandon(r)
    \/ StreamTurnedOff(r) \/ StreamAtCapacity(r) \/ Stream(r) \/ CloseStream(r)

Next ==
    \/ Tick \/ RevokePod \/ ApiGoes \/ ApiReturns \/ Install
    \/ \E r \in Requests : Handler(r)

Spec == Init /\ [][Next]_vars

-----------------------------------------------------------------------------
(* Properties.                                                             *)

\* Where a request stands before it is known who it is from, and then.
Unknown == {"out", "reviewing", "heard", "refused"}
Known == {"identified", "admitted", "reading", "abandoned"}

Statuses == {"none", "ok", "unauthenticated", "not_found", "unavailable", "failed"}
Outcomes == {"served", "unauthenticated", "malformed", "not-found", "unavailable"}

\* Every variable holds a value of its type.
TypeOK ==
    /\ ceiling \in Ceilings /\ api \in BOOLEAN
    /\ now \in 0 .. MaxTime /\ revoked \in 0 .. MaxTime \cup {Never}
    /\ down \in 0 .. MaxTime \cup {Never} /\ outages \in 0 .. MaxOutages
    /\ cache \in [principal : {"none", "pod", Nobody}, since : 0 .. MaxTime]
    /\ ask \in [Requests -> Asks]
    /\ at \in [Requests -> Unknown \cup Known \cup {"answered"}]
    /\ review \in [Requests -> [began : 0 .. MaxTime \cup {Never},
                                heard : {"none", "pod", Nobody}]]
    /\ caller \in [Requests -> Principals \cup {Nobody}]
    /\ consulted \in [Requests -> BOOLEAN]
    /\ answer \in [Requests -> [status : Statuses, names : SUBSET Served]]
    /\ log \in [Requests -> SUBSET [caller : Principals \cup {Nobody}, outcome : Outcomes,
                                     where : SUBSET Applications, generation : 0 .. 2]]
    /\ open \subseteq Requests /\ generation \in {1, 2}

\* A pod is taken for one no longer than a verdict is kept, and one review takes, after
\* its token stopped being valid; and is refused no longer than that after the API
\* server did not answer, though a late review may replace the verdict of a newer one.
\* (`a sixty-second cache absorbs the request rate without ever holding a verdict long
\* after the token could have been revoked'.)
VerdictsAreRecent ==
    [][\A r \in Requests : ask[r].header = "pod" /\ at'[r] # at[r] =>
          /\ at'[r] = "identified" /\ caller'[r] = "pod" /\ revoked # Never =>
                 now - revoked < Ttl + ReviewTime
          /\ at'[r] = "refused" /\ revoked = Never =>
                 down # Never /\ now - down < Ttl + ReviewTime]_vars

\* What a caller was not granted and what does not exist are answered alike, whichever
\* it is, and neither has the sections looked at; and what is answered names nothing
\* that was not granted.
\* (`"not yours" and "no such thing" cannot be told apart'; `reports only what that
\* principal is already entitled to ask for'.)
NotYoursIsNoSuchThing ==
    \A r \in Requests :
        /\ consulted[r] => MayRead(r)
        /\ answer[r].names # {} => answer[r].names \subseteq Granted[caller[r]] \cap Served
        /\ \A s \in Requests :
              /\ caller[r] # Nobody /\ caller[s] # Nobody
              /\ {at[r], at[s]} = {"answered"}
              /\ "metrics" \notin {ask[r].endpoint, ask[s].endpoint}
              /\ ~(MayRead(r) /\ ask[r].application \in Served)
              /\ ~(MayRead(s) /\ ask[s].application \in Served)
              => answer[r] = answer[s]

\* `A header that is present but unusable is not downgraded to anonymous.'
\* (The doc of Authenticator::authenticate, which is not shown one that is not text.)
PresentIsNotAnonymous ==
    \A r \in Requests : caller[r] = "anonymous" => ask[r].header = "absent"

\* What a line of the log is to say of the answer to a request.
Truthful(r, line) ==
    /\ line.caller = caller[r] /\ line.where \subseteq Applications
    /\ (line.outcome = "served") = (answer[r].status = "ok")
    /\ (line.outcome = "unauthenticated") = (answer[r].status = "unauthenticated")
    /\ (line.outcome = "unavailable") = (answer[r].status \in {"unavailable", "failed"})
    /\ (line.generation > 0) = (line.outcome = "served" /\ ask[r].endpoint # "metrics")

\* Every answer is recorded once: with the caller, with an outcome that is the status
\* that was sent, with a generation exactly when a section was served, and with no name
\* that was not checked.
\* (`Who read what, when'; `an unvalidated path segment is attacker-controlled text'.)
EveryAnswerIsRecorded ==
    \A r \in Requests :
        IF at[r] = "answered" THEN \E line \in log[r] : log[r] = {line} /\ Truthful(r, line)
                              ELSE log[r] = {}

\* What makes the three inductive.  Of time: a verdict is of a moment within its review,
\* which is no longer than its timeout, and what is kept is as old as its review at most.
ReviewInTime(r) ==
    /\ at[r] \in {"reviewing", "heard"} =>
           review[r].began <= now /\ now <= review[r].began + ReviewTime
    /\ at[r] = "heard" =>
           /\ review[r].heard \in {"pod", Nobody}
           /\ review[r].heard = "pod" /\ revoked # Never => revoked >= review[r].began
           /\ review[r].heard = Nobody /\ revoked = Never =>
                  down # Never /\ down >= review[r].began

CacheInTime ==
    /\ revoked # Never => revoked <= now
    /\ down # Never => down <= now
    /\ ~api => down = now
    /\ cache # NoVerdict => cache.principal \in {"pod", Nobody} /\ cache.since <= now
    /\ cache.principal = "pod" /\ revoked # Never => revoked + ReviewTime >= cache.since
    /\ cache.principal = Nobody /\ revoked = Never =>
           down # Never /\ down + ReviewTime >= cache.since

\* And of a request: what was looked at for it so far, and what was said.
Standing(r) ==
    /\ at[r] \in Unknown => caller[r] = Nobody
    /\ at[r] \in Known => caller[r] \in Principals
    /\ at[r] \in Unknown \cup {"identified"} => ~consulted[r]
    /\ at[r] \in Known \ {"identified"} =>
           MayRead(r) /\ ask[r].application \in Served /\ ask[r].endpoint # "metrics"
    /\ consulted[r] => caller[r] \in Principals /\ MayRead(r)
    /\ at[r] # "answered" => answer[r] = Unanswered /\ log[r] = {}

Settled(r) ==
    at[r] = "answered" =>
        /\ answer[r].names # {} => answer[r].names \subseteq Granted[caller[r]] \cap Served
        /\ caller[r] # Nobody /\ ask[r].endpoint # "metrics"
           /\ ~(MayRead(r) /\ ask[r].application \in Served)
              => answer[r] = [status |-> "not_found", names |-> {}]
        /\ \E line \in log[r] : log[r] = {line} /\ Truthful(r, line)

IndInv ==
    /\ TypeOK /\ CacheInTime
    /\ \A r \in Requests : ReviewInTime(r) /\ Standing(r) /\ Settled(r)
=============================================================================
