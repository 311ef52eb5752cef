---------------------------- MODULE Server_proofs ----------------------------
(***************************************************************************)
(* That the requests, the start, the connections of the config server and  *)
(* the connection of a client keep the promises stated in Server, for any  *)
(* requests, configurations, connections, deadlines and budgets.           *)
(*                                                                         *)
(* Requests.  What a handler has established on its way (Standing), what   *)
(* it leaves behind (Settled), and that a verdict that is kept speaks of a *)
(* moment at most one review before it was kept (CacheInTime).             *)
(*                                                                         *)
(* The start.  Nothing comes before the configuration was found to be fine *)
(* (Validated); the key is that of the file that was opened (KeyChecked);  *)
(* the sections before this one are served and no others (SectionsServed), *)
(* from which, none being refused, follows who may read what.              *)
(*                                                                         *)
(* The connections.  What a connection has used and what it has left add   *)
(* up to no more than its deadlines (InTime), as the clock moves one into  *)
(* the other; so they do for the budget of a client (Budgeted).            *)
(*                                                                         *)
(* The events of a client.  What has arrived is what was handed over, as   *)
(* it was written, and the buffer (NothingIsLost); two ends of a line in a *)
(* row are the end of an event and nothing else (WrittenIs), so the first  *)
(* complete block in the buffer is the next event; and reading it line by  *)
(* line gives back what was written (ReadAsWritten).                       *)
(*                                                                         *)
(* And all of them keep to their types; the section's part of that is      *)
(* ServedSection_proofs'.                                                  *)
(***************************************************************************)
EXTENDS Server, ServedSection_proofs, FiniteSetTheorems, WellFoundedInduction, TLAPS

LEMMA AdmissionTimes ==
    Adm!Bounds => /\ Ttl \in Nat /\ Ttl > 0 /\ ReviewTime \in Nat /\ MaxTime \in Nat
              /\ Adm!Never \in Nat /\ Adm!Never > MaxTime /\ Adm!Never \notin 0 .. MaxTime
  BY DEF Adm!Bounds, Adm!Never

LEMMA AdmissionNames ==
    Adm!Bounds => /\ Served \subseteq Applications /\ Malformed \notin Served
              /\ Granted \in [Adm!Principals -> SUBSET Applications]
              /\ \A a \in Asks : a.application \in Applications \cup {Malformed}
  BY DEF Adm!Bounds

\* Nobody is nobody's principal.
LEMMA NobodyIs == Adm!Nobody \notin Adm!Principals
  BY DEF Adm!Nobody, Adm!Principals

-----------------------------------------------------------------------------
(* What a step leaves alone.                                               *)

LEMMA RequestsStay ==
    ASSUME NEW r \in Requests, Adm!Standing(r), Adm!Settled(r),
           admissionAt'[r] = admissionAt[r], caller'[r] = caller[r], consulted'[r] = consulted[r],
           answer'[r] = answer[r], log'[r] = log[r], ask' = ask
    PROVE  Adm!Standing(r)' /\ Adm!Settled(r)'
  BY DEF Adm!Standing, Adm!Settled, Adm!Truthful, Adm!MayRead

LEMMA ReviewStays ==
    ASSUME NEW r \in Requests, Adm!ReviewInTime(r), admissionAt'[r] = admissionAt[r],
      review'[r] = review[r],
           UNCHANGED <<now, revoked, down>>
    PROVE  Adm!ReviewInTime(r)'
  BY DEF Adm!ReviewInTime

\* A step of one handler that does not answer.
LEMMA OneMoves ==
    ASSUME Adm!IndInv, NEW r \in Requests, Adm!TypeOK', Adm!CacheInTime',
           UNCHANGED <<Adm!world, ask, answer, log>>,
           \A s \in Requests \ {r} : admissionAt'[s] = admissionAt[s] /\ review'[s] = review[s]
               /\ caller'[s] = caller[s] /\ consulted'[s] = consulted[s],
           admissionAt[r] # "answered", admissionAt'[r] # "answered", Adm!ReviewInTime(r)',
             Adm!Standing(r)'
    PROVE  Adm!IndInv'
<1>1. ASSUME NEW s \in Requests \ {r}
      PROVE Adm!ReviewInTime(s)' /\ Adm!Standing(s)' /\ Adm!Settled(s)'
  BY <1>1, RequestsStay, ReviewStays DEF Adm!IndInv, Adm!world
<1>2. Adm!Settled(r)'
  BY DEF Adm!Settled
<1> QED
  BY <1>1, <1>2 DEF Adm!IndInv

\* An answer that may be given to a request, and the line that says so of it.
Fits(r, status, said, names, where, tag) ==
    /\ status \in Adm!Statuses /\ said \in Adm!Outcomes /\ tag \in 0 .. 2
    /\ names \subseteq Served /\ where \subseteq Applications
    /\ names # {} => names \subseteq Granted[caller[r]]
    /\ caller[r] # Adm!Nobody /\ ask[r].endpoint # "metrics"
           /\ ~(Adm!MayRead(r) /\ ask[r].application \in Served)
           => status = "not_found" /\ names = {}
    /\ said = "served" <=> status = "ok"
    /\ said = "unauthenticated" <=> status = "unauthenticated"
    /\ said = "unavailable" <=> status \in {"unavailable", "failed"}
    /\ tag > 0 <=> said = "served" /\ ask[r].endpoint # "metrics"

\* A step of one handler that answers: the answer and its line are all there is.
LEMMA OneAnswers ==
    ASSUME Adm!Bounds, Adm!IndInv, NEW r \in Requests,
           NEW status, NEW said, NEW names, NEW where, NEW tag,
           Fits(r, status, said, names, where, tag),
           Adm!Answer(r, status, said, names, where, tag),
           admissionAt[r] \in {"refused", "identified", "admitted", "reading"},
           UNCHANGED <<Adm!world, cache, ask, review, caller, label>>,
           open' \subseteq Requests,
           consulted' \in [Requests -> BOOLEAN],
           \A s \in Requests \ {r} : consulted'[s] = consulted[s],
           consulted'[r] => caller[r] \in Adm!Principals /\ Adm!MayRead(r)
    PROVE  Adm!IndInv'
<1> DEFINE line == [caller |-> caller[r], outcome |-> said, where |-> where,
                    generation |-> tag]
<1>a. Adm!TypeOK /\ Adm!Standing(r) /\ Adm!ReviewInTime(r)
  BY DEF Adm!IndInv
<1>b. status \in Adm!Statuses /\ said \in Adm!Outcomes /\ names \in SUBSET Served
      /\ where \in SUBSET Applications /\ tag \in 0 .. 2
  BY DEF Fits
<1>1. admissionAt'[r] = "answered" /\ \A s \in Requests \ {r} : admissionAt'[s] = admissionAt[s]
  BY <1>a DEF Adm!TypeOK, Adm!Answer
<1>2. answer'[r] = [status |-> status, names |-> names]
      /\ \A s \in Requests \ {r} : answer'[s] = answer[s]
  BY <1>a DEF Adm!TypeOK, Adm!Answer
<1>3. log[r] = {}
  BY <1>a DEF Adm!Standing
<1>4. log'[r] = {line} /\ \A s \in Requests \ {r} : log'[s] = log[s]
  BY <1>a, <1>3 DEF Adm!TypeOK, Adm!Answer
<1>5. Adm!TypeOK'
  <2>1. line \in [caller : Adm!Principals \cup {Adm!Nobody}, outcome : Adm!Outcomes,
                  where : SUBSET Applications, generation : 0 .. 2]
    BY <1>a, <1>b DEF Adm!TypeOK
  <2>2. log' \in [Requests -> SUBSET [caller : Adm!Principals \cup {Adm!Nobody},
          outcome : Adm!Outcomes,
                                      where : SUBSET Applications, generation : 0 .. 2]]
    BY <1>a, <1>3, <2>1 DEF Adm!TypeOK, Adm!Answer
  <2>3. answer' \in [Requests -> [status : Adm!Statuses, names : SUBSET Served]]
    BY <1>a, <1>b DEF Adm!TypeOK, Adm!Answer
  <2>4. admissionAt' \in [Requests -> Adm!Unknown \cup Adm!Known \cup {"answered"}]
    BY <1>a DEF Adm!TypeOK, Adm!Answer
  <2> QED
    BY <1>a, <2>2, <2>3, <2>4 DEF Adm!TypeOK, Adm!world
<1>6. Adm!CacheInTime'
  BY DEF Adm!IndInv, Adm!CacheInTime, Adm!world
<1>7. ASSUME NEW s \in Requests \ {r}
      PROVE Adm!ReviewInTime(s)' /\ Adm!Standing(s)' /\ Adm!Settled(s)'
  BY <1>1, <1>2, <1>4, <1>7, RequestsStay, ReviewStays DEF Adm!IndInv, Adm!world
<1>8. Adm!ReviewInTime(r)' /\ Adm!Standing(r)'
  BY <1>1 DEF Adm!ReviewInTime, Adm!Standing, Adm!Unknown, Adm!Known, Adm!MayRead
<1>9. Adm!Settled(r)'
  <2>1. PICK entry : entry = line
    OBVIOUS
  <2>2. /\ entry.caller = caller[r] /\ entry.where = where /\ entry.outcome = said
        /\ entry.generation = tag
    BY <2>1
  <2>3. log'[r] = {entry}
    BY <1>4, <2>1
  <2>4. answer'[r].status = status /\ answer'[r].names = names
    BY <1>2
  <2>5. Adm!Truthful(r, entry)'
    BY <2>2, <2>4 DEF Fits, Adm!Truthful
  <2>6. names # {} => names \subseteq Granted[caller'[r]] \cap Served
    BY DEF Fits
  <2>7. caller'[r] # Adm!Nobody /\ ask'[r].endpoint # "metrics"
            /\ ~(Adm!MayRead(r)' /\ ask'[r].application \in Served)
            => answer'[r] = [status |-> "not_found", names |-> {}]
    BY <1>2 DEF Fits, Adm!MayRead
  <2> HIDE DEF line
  <2> QED
    BY <2>3, <2>4, <2>5, <2>6, <2>7 DEF Adm!Settled
<1> QED
  BY <1>5, <1>6, <1>7, <1>8, <1>9 DEF Adm!IndInv

\* The same of a handler that does not look at the map any more.
LEMMA OneAnswersUnlooked ==
    ASSUME Adm!Bounds, Adm!IndInv, NEW r \in Requests,
           NEW status, NEW said, NEW names, NEW where, NEW tag,
           Fits(r, status, said, names, where, tag),
           Adm!Answer(r, status, said, names, where, tag),
           admissionAt[r] \in {"refused", "identified", "admitted", "reading"},
           UNCHANGED <<Adm!world, cache, ask, review, caller, consulted, label>>,
           open' \subseteq Requests
    PROVE  Adm!IndInv'
<1>1. consulted' \in [Requests -> BOOLEAN] /\ consulted' = consulted
  BY DEF Adm!IndInv, Adm!TypeOK
<1>2. consulted'[r] => caller[r] \in Adm!Principals /\ Adm!MayRead(r)
  BY <1>1 DEF Adm!IndInv, Adm!Standing
<1>3. UNCHANGED <<Adm!world, cache, ask, review, caller, label>>
  OBVIOUS
<1>4. \A s \in Requests \ {r} : consulted'[s] = consulted[s]
  BY <1>1
<1> QED
  BY <1>1, <1>2, <1>3, <1>4, OneAnswers

\* And of one that was admitted, whatever it is answered with.
LEMMA AdmittedAnswers ==
    ASSUME Adm!Bounds, Adm!IndInv, NEW r \in Requests, NEW status, NEW said,
           admissionAt[r] \in {"admitted", "reading"},
           \/ /\ status = "ok" /\ said = "served"
              /\ Adm!Answer(r, status, said, {ask[r].application}, {ask[r].application}, label)
           \/ /\ status = "failed" /\ said = "unavailable"
              /\ Adm!Answer(r, status, said, {ask[r].application}, {ask[r].application}, 0)
           \/ /\ \/ status = "not_found" /\ said \in {"malformed", "not-found"}
                 \/ status = "unavailable" /\ said = "unavailable"
              /\ Adm!Answer(r, status, said, {}, {ask[r].application}, 0),
           UNCHANGED <<Adm!world, cache, ask, review, caller, consulted, label>>,
           open' \subseteq Requests
    PROVE  Adm!IndInv'
<1> DEFINE application == ask[r].application
<1>1. Adm!MayRead(r) /\ application \in Served /\ ask[r].endpoint # "metrics"
  BY DEF Adm!IndInv, Adm!Standing, Adm!Known
<1>2. application \in Applications /\ application \in Granted[caller[r]]
  BY <1>1, AdmissionNames DEF Adm!MayRead
<1>3. label \in 0 .. 2 /\ label > 0
  BY DEF Adm!IndInv, Adm!TypeOK
<1>4. admissionAt[r] \in {"refused", "identified", "admitted", "reading"}
  OBVIOUS
<1>5. CASE status = "ok" /\ said = "served"
           /\ Adm!Answer(r, status, said, {application}, {application}, label)
  <2>1. Fits(r, status, said, {application}, {application}, label)
    BY <1>1, <1>2, <1>3, <1>5 DEF Fits, Adm!Statuses, Adm!Outcomes
  <2> QED
    BY <1>4, <1>5, <2>1, OneAnswersUnlooked
<1>6. CASE status = "failed" /\ said = "unavailable"
           /\ Adm!Answer(r, status, said, {application}, {application}, 0)
  <2>1. Fits(r, status, said, {application}, {application}, 0)
    BY <1>1, <1>2, <1>6 DEF Fits, Adm!Statuses, Adm!Outcomes
  <2> QED
    BY <1>4, <1>6, <2>1, OneAnswersUnlooked
<1>7. CASE /\ \/ status = "not_found" /\ said \in {"malformed", "not-found"}
              \/ status = "unavailable" /\ said = "unavailable"
           /\ Adm!Answer(r, status, said, {}, {application}, 0)
  <2>1. Fits(r, status, said, {}, {application}, 0)
    BY <1>1, <1>2, <1>7 DEF Fits, Adm!Statuses, Adm!Outcomes
  <2> QED
    BY <1>4, <1>7, <2>1, OneAnswersUnlooked
<1> QED
  BY <1>5, <1>6, <1>7

-----------------------------------------------------------------------------
(* The handlers, one by one.                                            *)

\* A server that was asked nothing.
LEMMA AdmissionStarts == Adm!Bounds /\ Adm!Init => Adm!IndInv
<1> SUFFICES ASSUME Adm!Bounds, Adm!Init PROVE Adm!IndInv
  OBVIOUS
<1>1. Adm!TypeOK
  <2>1. /\ ceiling \in Ceilings /\ now \in 0 .. MaxTime
             /\ revoked \in 0 .. MaxTime \cup {Adm!Never}
        /\ api \in BOOLEAN /\ down \in 0 .. MaxTime \cup {Adm!Never}
             /\ outages \in 0 .. MaxOutages
        /\ open \subseteq Requests /\ label \in {1, 2}
    BY AdmissionTimes DEF Adm!Bounds, Adm!Init
  <2>2. cache \in [principal : {"none", "pod", Adm!Nobody}, since : 0 .. MaxTime]
    BY AdmissionTimes DEF Adm!Init, Adm!NoVerdict
  <2>3. ask \in [Requests -> Asks]
    BY DEF Adm!Bounds, Adm!Init
  <2>4. admissionAt \in [Requests -> Adm!Unknown \cup Adm!Known \cup {"answered"}]
    BY DEF Adm!Init, Adm!Unknown
  <2>5. review \in [Requests -> [began : 0 .. MaxTime \cup {Adm!Never}, heard : {"none", "pod",
          Adm!Nobody}]]
    BY DEF Adm!Init, Adm!NoReview
  <2>6. caller \in [Requests -> Adm!Principals \cup {Adm!Nobody}]
          /\ consulted \in [Requests -> BOOLEAN]
    BY DEF Adm!Init
  <2>7. answer \in [Requests -> [status : Adm!Statuses, names : SUBSET Served]]
    BY DEF Adm!Init, Adm!Unanswered, Adm!Statuses
  <2>8. log \in [Requests -> SUBSET [caller : Adm!Principals \cup {Adm!Nobody},
          outcome : Adm!Outcomes,
                                     where : SUBSET Applications, generation : 0 .. 2]]
    BY DEF Adm!Init
  <2> QED
    BY <2>1, <2>2, <2>3, <2>4, <2>5, <2>6, <2>7, <2>8 DEF Adm!TypeOK
<1>2. Adm!CacheInTime
  BY AdmissionTimes DEF Adm!Init, Adm!CacheInTime, Adm!NoVerdict, Adm!Nobody
<1>3. ASSUME NEW r \in Requests PROVE Adm!ReviewInTime(r) /\ Adm!Standing(r) /\ Adm!Settled(r)
  BY DEF Adm!Init, Adm!ReviewInTime, Adm!Standing, Adm!Settled, Adm!Unknown, Adm!Known
<1> QED
  BY <1>1, <1>2, <1>3 DEF Adm!IndInv

\* The world's own steps: a token that is revoked was not revoked before.
LEMMA WorldKeeps ==
    ASSUME Adm!Bounds, Adm!IndInv,
      Adm!Tick \/ Adm!RevokePod \/ Adm!ApiGoes \/ Adm!ApiReturns \/ Adm!Install
    PROVE  Adm!IndInv'
<1>a. Adm!TypeOK /\ Adm!CacheInTime /\ \A r \in Requests : Adm!ReviewInTime(r)
  BY DEF Adm!IndInv
<1>b. UNCHANGED <<Adm!request, cache, open>>
  BY DEF Adm!Tick, Adm!RevokePod, Adm!ApiGoes, Adm!ApiReturns, Adm!Install
<1>c. ASSUME NEW r \in Requests PROVE Adm!Standing(r)' /\ Adm!Settled(r)'
  BY <1>b, <1>c, RequestsStay DEF Adm!IndInv, Adm!request
<1>1. CASE Adm!Tick
  <2>1. Adm!TypeOK'
    BY <1>a, <1>1, AdmissionTimes DEF Adm!TypeOK, Adm!Tick, Adm!request
  <2>2. Adm!CacheInTime'
    BY <1>a, <1>1, AdmissionTimes DEF Adm!TypeOK, Adm!CacheInTime, Adm!Tick
  <2>3. ASSUME NEW r \in Requests PROVE Adm!ReviewInTime(r)'
    BY <1>a, <1>1, <2>3, AdmissionTimes
       DEF Adm!TypeOK, Adm!CacheInTime, Adm!ReviewInTime, Adm!Tick, Adm!request
  <2> QED
    BY <1>c, <2>1, <2>2, <2>3 DEF Adm!IndInv
<1>2. CASE Adm!RevokePod
  <2>1. Adm!TypeOK'
    BY <1>a, <1>2, AdmissionTimes DEF Adm!TypeOK, Adm!RevokePod, Adm!request
  <2>2. Adm!CacheInTime'
    <3>1. revoked = Adm!Never /\ revoked' = now /\ UNCHANGED <<now, api, down, cache>>
      BY <1>2 DEF Adm!RevokePod
    <3>2. cache.since \in 0 .. MaxTime /\ now \in 0 .. MaxTime
      BY <1>a DEF Adm!TypeOK
    <3>3. cache # Adm!NoVerdict => cache.since <= now
      BY <1>a DEF Adm!CacheInTime
    <3>4. cache.principal = "pod" => cache # Adm!NoVerdict
      BY DEF Adm!NoVerdict
    <3>5. cache.principal = "pod" => revoked' + ReviewTime >= cache.since
      BY <3>1, <3>2, <3>3, <3>4, AdmissionTimes
    <3>6. revoked' # Adm!Never /\ revoked' <= now
      BY <3>1, <3>2, AdmissionTimes
    <3>7. Adm!Never' = Adm!Never /\ Adm!NoVerdict' = Adm!NoVerdict /\ Adm!Nobody' = Adm!Nobody
      BY DEF Adm!Never, Adm!NoVerdict, Adm!Nobody
    <3> QED
      BY <1>a, <3>1, <3>5, <3>6, <3>7 DEF Adm!CacheInTime
  <2>3. ASSUME NEW r \in Requests PROVE Adm!ReviewInTime(r)'
    BY <1>a, <1>2, <2>3, AdmissionTimes
       DEF Adm!TypeOK, Adm!CacheInTime, Adm!ReviewInTime, Adm!RevokePod, Adm!request
  <2> QED
    BY <1>c, <2>1, <2>2, <2>3 DEF Adm!IndInv
<1>3. CASE Adm!ApiGoes \/ Adm!ApiReturns
  <2>1. Adm!TypeOK'
    <3>1. down' \in 0 .. MaxTime \cup {Adm!Never} /\ api' \in BOOLEAN
      BY <1>a, <1>3, AdmissionTimes DEF Adm!TypeOK, Adm!ApiGoes, Adm!ApiReturns
    <3>2. outages' \in 0 .. MaxOutages
      BY <1>a, <1>3 DEF Adm!Bounds, Adm!TypeOK, Adm!ApiGoes, Adm!ApiReturns
    <3> QED
      BY <1>a, <1>3, <3>1, <3>2 DEF Adm!TypeOK, Adm!ApiGoes, Adm!ApiReturns, Adm!request
  <2>2. Adm!CacheInTime'
    BY <1>a, <1>3, AdmissionTimes DEF Adm!TypeOK, Adm!CacheInTime, Adm!ApiGoes, Adm!ApiReturns
  <2>3. ASSUME NEW r \in Requests PROVE Adm!ReviewInTime(r)'
    BY <1>a, <1>3, <2>3, AdmissionTimes
       DEF Adm!TypeOK, Adm!CacheInTime, Adm!ReviewInTime, Adm!ApiGoes, Adm!ApiReturns, Adm!request
  <2> QED
    BY <1>c, <2>1, <2>2, <2>3 DEF Adm!IndInv
<1>4. CASE Adm!Install
  BY <1>a, <1>c, <1>4
     DEF Adm!IndInv, Adm!TypeOK, Adm!CacheInTime, Adm!ReviewInTime, Adm!Install, Adm!world,
         Adm!request
<1> QED
  BY <1>1, <1>2, <1>3, <1>4

\* Every step of a handler keeps the invariant.
LEMMA HandlerKeeps ==
    ASSUME Adm!Bounds, Adm!IndInv, NEW r \in Requests, Adm!Handler(r) PROVE Adm!IndInv'
<1>a. Adm!TypeOK /\ Adm!CacheInTime /\ Adm!ReviewInTime(r) /\ Adm!Standing(r)
  BY DEF Adm!IndInv
<1>c. open \subseteq Requests
  BY <1>a DEF Adm!TypeOK
<1>b. ask[r].application \in Applications \cup {Malformed}
  BY <1>a, AdmissionNames DEF Adm!TypeOK
<1>1. CASE Adm!Authenticate(r)
  <2>1. Adm!TypeOK'
    BY <1>a, <1>1
       DEF Adm!TypeOK, Adm!Authenticate, Adm!Identify, Adm!Unknown, Adm!Known, Adm!Principals,
           Adm!world
  <2>2. Adm!CacheInTime'
    BY <1>a, <1>1 DEF Adm!CacheInTime, Adm!Authenticate, Adm!world
  <2>3. /\ \A s \in Requests \ {r} : admissionAt'[s] = admissionAt[s] /\ review'[s] = review[s]
            /\ caller'[s] = caller[s] /\ consulted'[s] = consulted[s]
        /\ admissionAt[r] # "answered" /\ admissionAt'[r] # "answered"
        /\ UNCHANGED <<Adm!world, ask, answer, log>>
    BY <1>a, <1>1 DEF Adm!TypeOK, Adm!Authenticate, Adm!Identify
  <2>4. Adm!ReviewInTime(r)'
    BY <1>a, <1>1 DEF Adm!TypeOK, Adm!ReviewInTime, Adm!Authenticate, Adm!Identify, Adm!world
  <2>5. Adm!Standing(r)'
    BY <1>a, <1>1
       DEF Adm!TypeOK, Adm!Standing, Adm!Authenticate, Adm!Identify, Adm!MayRead, Adm!Unknown,
           Adm!Known, Adm!Principals
  <2> QED
    BY <2>1, <2>2, <2>3, <2>4, <2>5, OneMoves
<1>2. CASE Adm!VerdictKept(r)
  <2>1. Adm!TypeOK'
    <3>1. cache.principal \in Adm!Principals \cup {Adm!Nobody}
      BY <1>a, <1>2 DEF Adm!VerdictKept, Adm!Fresh, Adm!CacheInTime, Adm!Principals
    <3> QED
      BY <1>a, <1>2, <3>1
         DEF Adm!TypeOK, Adm!VerdictKept, Adm!Identify, Adm!Unknown, Adm!Known, Adm!world
  <2>2. Adm!CacheInTime'
    BY <1>a, <1>2 DEF Adm!CacheInTime, Adm!VerdictKept, Adm!world
  <2>3. /\ \A s \in Requests \ {r} : admissionAt'[s] = admissionAt[s] /\ review'[s] = review[s]
            /\ caller'[s] = caller[s] /\ consulted'[s] = consulted[s]
        /\ admissionAt[r] # "answered" /\ admissionAt'[r] # "answered"
        /\ UNCHANGED <<Adm!world, ask, answer, log>>
    BY <1>a, <1>2 DEF Adm!TypeOK, Adm!VerdictKept, Adm!Identify
  <2>4. Adm!ReviewInTime(r)'
    BY <1>a, <1>2 DEF Adm!TypeOK, Adm!ReviewInTime, Adm!VerdictKept, Adm!Identify, Adm!world
  <2>5. Adm!Standing(r)'
    BY <1>a, <1>2
       DEF Adm!TypeOK, Adm!Standing, Adm!VerdictKept, Adm!Identify, Adm!MayRead, Adm!Unknown,
           Adm!Known, Adm!Principals, Adm!CacheInTime, Adm!Fresh
  <2> QED
    BY <2>1, <2>2, <2>3, <2>4, <2>5, OneMoves
<1>3. CASE Adm!BeginReview(r)
  <2>1. Adm!TypeOK'
    <3>1. admissionAt' \in [Requests -> Adm!Unknown \cup Adm!Known \cup {"answered"}]
      BY <1>a, <1>3 DEF Adm!TypeOK, Adm!BeginReview, Adm!Unknown
    <3>2. review' \in [Requests -> [began : 0 .. MaxTime \cup {Adm!Never},
                                   heard : {"none", "pod", Adm!Nobody}]]
      BY <1>a, <1>3 DEF Adm!TypeOK, Adm!BeginReview
    <3> QED
      BY <1>a, <1>3, <3>1, <3>2 DEF Adm!TypeOK, Adm!BeginReview, Adm!world
  <2>2. Adm!CacheInTime'
    BY <1>a, <1>3 DEF Adm!CacheInTime, Adm!BeginReview, Adm!world
  <2>3. /\ \A s \in Requests \ {r} : admissionAt'[s] = admissionAt[s] /\ review'[s] = review[s]
            /\ caller'[s] = caller[s] /\ consulted'[s] = consulted[s]
        /\ admissionAt[r] # "answered" /\ admissionAt'[r] # "answered"
        /\ UNCHANGED <<Adm!world, ask, answer, log>>
    BY <1>a, <1>3 DEF Adm!TypeOK, Adm!BeginReview
  <2>4. Adm!ReviewInTime(r)'
    BY <1>a, <1>3, AdmissionTimes
       DEF Adm!TypeOK, Adm!CacheInTime, Adm!ReviewInTime, Adm!BeginReview, Adm!world
  <2>5. Adm!Standing(r)'
    BY <1>a, <1>3
       DEF Adm!TypeOK, Adm!Standing, Adm!BeginReview, Adm!MayRead, Adm!Unknown, Adm!Known
  <2> QED
    BY <2>1, <2>2, <2>3, <2>4, <2>5, OneMoves
<1>4. CASE Adm!Hear(r)
  <2>1. Adm!TypeOK'
    <3>1. admissionAt' \in [Requests -> Adm!Unknown \cup Adm!Known \cup {"answered"}]
      BY <1>a, <1>4 DEF Adm!TypeOK, Adm!Hear, Adm!Unknown
    <3>2. review' \in [Requests -> [began : 0 .. MaxTime \cup {Adm!Never}, heard : {"none",
            "pod", Adm!Nobody}]]
      BY <1>a, <1>4 DEF Adm!TypeOK, Adm!Hear
    <3> QED
      BY <1>a, <1>4, <3>1, <3>2 DEF Adm!TypeOK, Adm!Hear, Adm!world
  <2>2. Adm!CacheInTime'
    BY <1>a, <1>4 DEF Adm!CacheInTime, Adm!Hear, Adm!world
  <2>3. /\ \A s \in Requests \ {r} : admissionAt'[s] = admissionAt[s] /\ review'[s] = review[s]
            /\ caller'[s] = caller[s] /\ consulted'[s] = consulted[s]
        /\ admissionAt[r] # "answered" /\ admissionAt'[r] # "answered"
        /\ UNCHANGED <<Adm!world, ask, answer, log>>
    BY <1>a, <1>4 DEF Adm!TypeOK, Adm!Hear
  <2>4. Adm!ReviewInTime(r)'
    BY <1>a, <1>4, AdmissionTimes
       DEF Adm!TypeOK, Adm!CacheInTime, Adm!ReviewInTime, Adm!Hear, Adm!Nobody, Adm!world
  <2>5. Adm!Standing(r)'
    BY <1>a, <1>4 DEF Adm!TypeOK, Adm!Standing, Adm!Hear, Adm!MayRead, Adm!Unknown, Adm!Known
  <2> QED
    BY <2>1, <2>2, <2>3, <2>4, <2>5, OneMoves
<1>5. CASE Adm!KeepVerdict(r)
  <2>1. Adm!TypeOK'
    <3>1. review[r].heard \in {"pod", Adm!Nobody} /\ "pod" \in Adm!Principals
      BY <1>a, <1>5 DEF Adm!KeepVerdict, Adm!ReviewInTime, Adm!Principals
    <3>2. cache' \in [principal : {"none", "pod", Adm!Nobody}, since : 0 .. MaxTime]
      BY <1>a, <1>5, <3>1 DEF Adm!TypeOK, Adm!KeepVerdict
    <3>3. review' \in [Requests -> [began : 0 .. MaxTime \cup {Adm!Never}, heard : {"none",
            "pod", Adm!Nobody}]]
      BY <1>a, <1>5 DEF Adm!TypeOK, Adm!KeepVerdict, Adm!NoReview
    <3>4. caller' \in [Requests -> Adm!Principals \cup {Adm!Nobody}]
          /\ admissionAt' \in [Requests -> Adm!Unknown \cup Adm!Known \cup {"answered"}]
      BY <1>a, <1>5, <3>1 DEF Adm!TypeOK, Adm!KeepVerdict, Adm!Identify, Adm!Unknown, Adm!Known
    <3> QED
      BY <1>a, <1>5, <3>2, <3>3, <3>4 DEF Adm!TypeOK, Adm!KeepVerdict, Adm!world
  <2>2. Adm!CacheInTime'
    <3>1. /\ admissionAt[r] = "heard" /\ UNCHANGED <<now, revoked, api, down>>
          /\ cache' = [principal |-> review[r].heard, since |-> now]
      BY <1>5 DEF Adm!KeepVerdict, Adm!world
    <3>2. cache'.principal = review[r].heard /\ cache'.since = now
      BY <3>1
    <3>3. /\ review[r].heard \in {"pod", Adm!Nobody} /\ now \in Nat
          /\ now <= review[r].began + ReviewTime
          /\ review[r].began \in Nat /\ revoked \in Nat /\ down \in Nat
      BY <1>a, <3>1, AdmissionTimes DEF Adm!TypeOK, Adm!ReviewInTime
    <3>4. cache'.principal = "pod" /\ revoked' # Adm!Never =>
              revoked' + ReviewTime >= cache'.since
      BY <1>a, <3>1, <3>2, <3>3, AdmissionTimes DEF Adm!ReviewInTime
    <3>5. cache'.principal = Adm!Nobody /\ revoked' = Adm!Never =>
              down' # Adm!Never /\ down' + ReviewTime >= cache'.since
      BY <1>a, <3>1, <3>2, <3>3, AdmissionTimes DEF Adm!ReviewInTime
    <3>6. Adm!Never' = Adm!Never /\ Adm!Nobody' = Adm!Nobody
      BY DEF Adm!Never, Adm!Nobody
    <3>7. cache'.principal \in {"pod", Adm!Nobody} /\ cache'.since <= now'
      BY <3>1, <3>2, <3>3
    <3> QED
      BY <1>a, <3>1, <3>4, <3>5, <3>6, <3>7 DEF Adm!CacheInTime
  <2>3. /\ \A s \in Requests \ {r} : admissionAt'[s] = admissionAt[s] /\ review'[s] = review[s]
            /\ caller'[s] = caller[s] /\ consulted'[s] = consulted[s]
        /\ admissionAt[r] # "answered" /\ admissionAt'[r] # "answered"
        /\ UNCHANGED <<Adm!world, ask, answer, log>>
    BY <1>a, <1>5 DEF Adm!TypeOK, Adm!KeepVerdict, Adm!Identify
  <2>4. Adm!ReviewInTime(r)'
    BY <1>a, <1>5 DEF Adm!TypeOK, Adm!ReviewInTime, Adm!KeepVerdict, Adm!Identify, Adm!world
  <2>5. Adm!Standing(r)'
    BY <1>a, <1>5
       DEF Adm!TypeOK, Adm!Standing, Adm!KeepVerdict, Adm!Identify, Adm!MayRead, Adm!Unknown,
           Adm!Known, Adm!Principals, Adm!ReviewInTime
  <2> QED
    BY <2>1, <2>2, <2>3, <2>4, <2>5, OneMoves
<1>6. CASE Adm!ReadSources(r)
  <2>1. Adm!TypeOK'
    BY <1>a, <1>6 DEF Adm!TypeOK, Adm!ReadSources, Adm!Unknown, Adm!Known, Adm!world
  <2>2. Adm!CacheInTime'
    BY <1>a, <1>6 DEF Adm!CacheInTime, Adm!ReadSources, Adm!world
  <2>3. /\ \A s \in Requests \ {r} : admissionAt'[s] = admissionAt[s] /\ review'[s] = review[s]
            /\ caller'[s] = caller[s] /\ consulted'[s] = consulted[s]
        /\ admissionAt[r] # "answered" /\ admissionAt'[r] # "answered"
        /\ UNCHANGED <<Adm!world, ask, answer, log>>
    BY <1>a, <1>6 DEF Adm!TypeOK, Adm!ReadSources
  <2>4. Adm!ReviewInTime(r)'
    BY <1>a, <1>6 DEF Adm!TypeOK, Adm!ReviewInTime, Adm!ReadSources, Adm!world
  <2>5. Adm!Standing(r)'
    BY <1>a, <1>6
       DEF Adm!TypeOK, Adm!Standing, Adm!ReadSources, Adm!MayRead, Adm!Unknown, Adm!Known
  <2> QED
    BY <2>1, <2>2, <2>3, <2>4, <2>5, OneMoves
<1>7. CASE Adm!Abandon(r)
  <2>1. Adm!TypeOK'
    BY <1>a, <1>7 DEF Adm!TypeOK, Adm!Abandon, Adm!Unknown, Adm!Known, Adm!world
  <2>2. Adm!CacheInTime'
    BY <1>a, <1>7 DEF Adm!CacheInTime, Adm!Abandon, Adm!world
  <2>3. /\ \A s \in Requests \ {r} : admissionAt'[s] = admissionAt[s] /\ review'[s] = review[s]
            /\ caller'[s] = caller[s] /\ consulted'[s] = consulted[s]
        /\ admissionAt[r] # "answered" /\ admissionAt'[r] # "answered"
        /\ UNCHANGED <<Adm!world, ask, answer, log>>
    BY <1>a, <1>7 DEF Adm!TypeOK, Adm!Abandon
  <2>4. Adm!ReviewInTime(r)'
    BY <1>a, <1>7 DEF Adm!TypeOK, Adm!ReviewInTime, Adm!Abandon, Adm!world
  <2>5. Adm!Standing(r)'
    BY <1>a, <1>7 DEF Adm!TypeOK, Adm!Standing, Adm!Abandon, Adm!MayRead, Adm!Unknown, Adm!Known
  <2> QED
    BY <2>1, <2>2, <2>3, <2>4, <2>5, OneMoves
<1>8. CASE Adm!RefuseNobody(r)
  <2>1. /\ Adm!Answer(r, "unauthenticated", "unauthenticated", {}, {}, 0)
        /\ admissionAt[r] = "refused"
        /\ UNCHANGED <<Adm!world, cache, ask, review, caller, consulted, label, open>>
    BY <1>8 DEF Adm!RefuseNobody
  <2>2. caller[r] = Adm!Nobody
    BY <1>a, <2>1 DEF Adm!Standing, Adm!Unknown
  <2>3. Fits(r, "unauthenticated", "unauthenticated", {}, {}, 0)
    BY <2>2 DEF Fits, Adm!Statuses, Adm!Outcomes
  <2> QED
    BY <1>c, <2>1, <2>3, OneAnswersUnlooked
<1>9. CASE Adm!Scrape(r)
  <2>1. /\ Adm!Answer(r, "ok", "served", Served \cap Granted[caller[r]], {}, 0)
        /\ admissionAt[r] = "identified" /\ ask[r].endpoint = "metrics"
        /\ UNCHANGED <<Adm!world, cache, ask, review, caller, consulted, label, open>>
    BY <1>9 DEF Adm!Scrape
  <2>2. Fits(r, "ok", "served", Served \cap Granted[caller[r]], {}, 0)
    BY <2>1 DEF Fits, Adm!Statuses, Adm!Outcomes
  <2> QED
    BY <1>c, <2>1, <2>2, OneAnswersUnlooked
<1>10. CASE Adm!RefuseMalformed(r)
  <2>1. /\ Adm!Answer(r, "not_found", "malformed", {}, {}, 0)
        /\ admissionAt[r] = "identified"
        /\ UNCHANGED <<Adm!world, cache, ask, review, caller, consulted, label, open>>
    BY <1>10 DEF Adm!RefuseMalformed
  <2>2. Fits(r, "not_found", "malformed", {}, {}, 0)
    BY DEF Fits, Adm!Statuses, Adm!Outcomes
  <2> QED
    BY <1>c, <2>1, <2>2, OneAnswersUnlooked
<1>11. CASE Adm!ServeDocument(r)
  <2>1. /\ Adm!Answer(r, "ok", "served", {ask[r].application}, {ask[r].application}, label)
        /\ admissionAt[r] = "admitted"
        /\ UNCHANGED <<Adm!world, cache, ask, review, caller, consulted, label>>
    BY <1>11 DEF Adm!ServeDocument, Adm!ServeAdmitted
  <2>2. open' \subseteq Requests
    BY <1>c, <1>11 DEF Adm!ServeDocument
  <2> QED
    BY <2>1, <2>2, AdmittedAnswers
<1>12. CASE Adm!ServeStatus(r)
  <2>1. /\ Adm!Answer(r, "ok", "served", {ask[r].application}, {ask[r].application}, label)
        /\ admissionAt[r] = "admitted"
        /\ UNCHANGED <<Adm!world, cache, ask, review, caller, consulted, label>>
    BY <1>12 DEF Adm!ServeStatus, Adm!ServeAdmitted
  <2>2. open' \subseteq Requests
    BY <1>c, <1>12 DEF Adm!ServeStatus
  <2> QED
    BY <2>1, <2>2, AdmittedAnswers
<1>13. CASE Adm!RefuseShape(r)
  <2>1. /\ Adm!Answer(r, "not_found", "malformed", {}, {ask[r].application}, 0)
        /\ admissionAt[r] = "admitted"
        /\ UNCHANGED <<Adm!world, cache, ask, review, caller, consulted, label>>
    BY <1>13 DEF Adm!RefuseShape
  <2>2. open' \subseteq Requests
    BY <1>c, <1>13 DEF Adm!RefuseShape
  <2> QED
    BY <2>1, <2>2, AdmittedAnswers
<1>14. CASE Adm!StreamTurnedOff(r)
  <2>1. /\ Adm!Answer(r, "not_found", "not-found", {}, {ask[r].application}, 0)
        /\ admissionAt[r] = "admitted"
        /\ UNCHANGED <<Adm!world, cache, ask, review, caller, consulted, label>>
    BY <1>14 DEF Adm!StreamTurnedOff
  <2>2. open' \subseteq Requests
    BY <1>c, <1>14 DEF Adm!StreamTurnedOff
  <2> QED
    BY <2>1, <2>2, AdmittedAnswers
<1>15. CASE Adm!StreamAtCapacity(r)
  <2>1. /\ Adm!Answer(r, "unavailable", "unavailable", {}, {ask[r].application}, 0)
        /\ admissionAt[r] = "admitted"
        /\ UNCHANGED <<Adm!world, cache, ask, review, caller, consulted, label>>
    BY <1>15 DEF Adm!StreamAtCapacity
  <2>2. open' \subseteq Requests
    BY <1>c, <1>15 DEF Adm!StreamAtCapacity
  <2> QED
    BY <2>1, <2>2, AdmittedAnswers
<1>16. CASE Adm!Stream(r)
  <2>1. /\ Adm!Answer(r, "ok", "served", {ask[r].application}, {ask[r].application}, label)
        /\ admissionAt[r] = "admitted"
        /\ UNCHANGED <<Adm!world, cache, ask, review, caller, consulted, label>>
    BY <1>16 DEF Adm!Stream, Adm!ServeAdmitted
  <2>2. open' \subseteq Requests
    BY <1>c, <1>16 DEF Adm!Stream
  <2> QED
    BY <2>1, <2>2, AdmittedAnswers
<1>17. CASE Adm!Diagnosed(r)
  <2> DEFINE application == ask[r].application
  <2>1. /\ \/ Adm!Answer(r, "ok", "served", {application}, {application}, label)
           \/ Adm!Answer(r, "failed", "unavailable", {application}, {application}, 0)
        /\ admissionAt[r] = "reading"
        /\ UNCHANGED <<Adm!world, cache, ask, review, caller, consulted, label, open>>
    BY <1>17 DEF Adm!Diagnosed, Adm!ServeAdmitted
  <2>2. CASE Adm!Answer(r, "ok", "served", {application}, {application}, label)
    BY <1>c, <2>1, <2>2, AdmittedAnswers
  <2>3. CASE Adm!Answer(r, "failed", "unavailable", {application}, {application}, 0)
    BY <1>c, <2>1, <2>3, AdmittedAnswers
  <2> QED
    BY <2>1, <2>2, <2>3
<1>18. CASE Adm!Admit(r)
  <2>a. ask[r].endpoint # "metrics" /\ ask[r].application \in Applications
        /\ admissionAt[r] = "identified" /\ consulted' = [consulted EXCEPT ![r] = Adm!MayRead(r)]
        /\ UNCHANGED <<Adm!world, cache, ask, review, caller, open, label>>
    BY <1>b, <1>18 DEF Adm!Admit
  <2>b. /\ consulted' \in [Requests -> BOOLEAN] /\ consulted'[r] = Adm!MayRead(r)
        /\ \A s \in Requests \ {r} : consulted'[s] = consulted[s]
    BY <1>a, <2>a DEF Adm!TypeOK, Adm!MayRead
  <2>1. CASE Adm!MayRead(r) /\ ask[r].application \in Served
    <3>1. admissionAt' = [admissionAt EXCEPT ![r] = "admitted"] /\ UNCHANGED <<answer, log>>
      BY <1>18, <2>1 DEF Adm!Admit
    <3>2. Adm!TypeOK'
      BY <1>a, <2>a, <2>b, <3>1 DEF Adm!TypeOK, Adm!Known, Adm!world
    <3>3. Adm!CacheInTime' /\ Adm!ReviewInTime(r)'
      BY <1>a, <2>a, <3>1 DEF Adm!TypeOK, Adm!CacheInTime, Adm!ReviewInTime, Adm!world
    <3>4. Adm!Standing(r)'
      BY <1>a, <2>a, <2>b, <2>1, <3>1
         DEF Adm!TypeOK, Adm!Standing, Adm!MayRead, Adm!Unknown, Adm!Known
    <3>5. admissionAt'[r] = "admitted"
            /\ \A s \in Requests \ {r} : admissionAt'[s] = admissionAt[s]
      BY <1>a, <3>1 DEF Adm!TypeOK
    <3> QED
      BY <2>a, <2>b, <3>1, <3>2, <3>3, <3>4, <3>5, OneMoves
  <2>2. CASE ~(Adm!MayRead(r) /\ ask[r].application \in Served)
    <3>1. Adm!Answer(r, "not_found", "not-found", {}, {ask[r].application}, 0)
      BY <1>18, <2>2 DEF Adm!Admit
    <3>2. caller[r] \in Adm!Principals
      BY <1>a, <2>a DEF Adm!Standing, Adm!Known
    <3>3. UNCHANGED <<Adm!world, cache, ask, review, caller, label>> /\ open' \subseteq Requests
      BY <1>c, <2>a
    <3>4. consulted'[r] => caller[r] \in Adm!Principals /\ Adm!MayRead(r)
      BY <2>b, <3>2
    <3>5. Fits(r, "not_found", "not-found", {}, {ask[r].application}, 0)
      BY <2>a, <2>2 DEF Fits, Adm!Statuses, Adm!Outcomes
    <3> QED
      BY <2>a, <2>b, <3>1, <3>3, <3>4, <3>5, OneAnswers
  <2> QED
    BY <2>1, <2>2
<1>19. CASE Adm!CloseStream(r)
  <2>1. ASSUME NEW s \in Requests
        PROVE Adm!ReviewInTime(s)' /\ Adm!Standing(s)' /\ Adm!Settled(s)'
    BY <1>19, <2>1, RequestsStay, ReviewStays
       DEF Adm!IndInv, Adm!CloseStream, Adm!world, Adm!request
  <2> QED
    BY <1>a, <1>19, <2>1
       DEF Adm!IndInv, Adm!TypeOK, Adm!CacheInTime, Adm!CloseStream, Adm!world, Adm!request
<1> QED
  BY <1>1, <1>2, <1>3, <1>4, <1>5, <1>6, <1>7, <1>8, <1>9, <1>10, <1>11, <1>12, <1>13, <1>14,
      <1>15, <1>16, <1>17, <1>18, <1>19
     DEF Adm!Handler

\* The invariant always holds.
LEMMA AdmissionInv == Adm!Bounds => (Adm!Spec => []Adm!IndInv)
<1> SUFFICES ASSUME Adm!Bounds PROVE Adm!Spec => []Adm!IndInv
  OBVIOUS
<1>1. Adm!Init => Adm!IndInv
  BY AdmissionStarts
<1>2. Adm!IndInv /\ [Adm!Next]_(Adm!vars) => Adm!IndInv'
  <2> SUFFICES ASSUME Adm!IndInv, [Adm!Next]_(Adm!vars) PROVE Adm!IndInv'
    OBVIOUS
  <2>1. CASE UNCHANGED Adm!vars
    <3>1. ASSUME NEW r \in Requests
          PROVE Adm!ReviewInTime(r)' /\ Adm!Standing(r)' /\ Adm!Settled(r)'
      BY <2>1, <3>1, RequestsStay, ReviewStays DEF Adm!IndInv, Adm!vars, Adm!world, Adm!request
    <3> QED
      BY <2>1, <3>1 DEF Adm!IndInv, Adm!TypeOK, Adm!CacheInTime, Adm!vars, Adm!world, Adm!request
  <2>2. CASE Adm!Next
    BY <2>2, WorldKeeps, HandlerKeeps DEF Adm!Next
  <2> QED
    BY <2>1, <2>2
<1> QED
  BY <1>1, <1>2, PTL DEF Adm!Spec

\* A pod's token that was revoked is taken for no longer than a verdict is kept and one
\* review takes, and a good one refused for no longer after an outage
\* (KubernetesVerifier::verify).
THEOREM VerdictsAreNeverOld == Adm!Spec => VerdictsAreRecent
<1> Adm!Bounds
  BY ServerBounds
<1> DEFINE Recent ==
        \A r \in Requests : ask[r].header = "pod" /\ admissionAt'[r] # admissionAt[r] =>
          /\ admissionAt'[r] = "identified" /\ caller'[r] = "pod" /\ revoked # Adm!Never =>
                 now - revoked < Ttl + ReviewTime
          /\ admissionAt'[r] = "refused" /\ revoked = Adm!Never =>
                 down # Adm!Never /\ now - down < Ttl + ReviewTime
<1>1. Adm!IndInv /\ [Adm!Next]_(Adm!vars) => [Recent]_(Adm!vars)
  <2> SUFFICES ASSUME Adm!IndInv, Adm!Next, NEW r \in Requests, ask[r].header = "pod",
                      admissionAt'[r] # admissionAt[r],
                      admissionAt'[r] \in {"identified", "refused"}
               PROVE  /\ admissionAt'[r] = "identified" /\ caller'[r] = "pod"
                         /\ revoked # Adm!Never => now - revoked < Ttl + ReviewTime
                      /\ admissionAt'[r] = "refused" /\ revoked = Adm!Never =>
                             down # Adm!Never /\ now - down < Ttl + ReviewTime
    OBVIOUS
  <2>a. Adm!TypeOK /\ Adm!CacheInTime /\ Adm!ReviewInTime(r)
    BY DEF Adm!IndInv
  <2>1. Adm!VerdictKept(r) \/ Adm!KeepVerdict(r)
    <3>1. PICK s \in Requests : Adm!Handler(s)
      BY DEF Adm!Next, Adm!Tick, Adm!RevokePod, Adm!ApiGoes, Adm!ApiReturns, Adm!Install,
          Adm!request
    <3>2. Adm!VerdictKept(s) \/ Adm!KeepVerdict(s) \/ Adm!Authenticate(s) \/ Adm!CloseStream(s)
          \/ \E place \in {"reviewing", "heard", "answered", "admitted", "reading", "abandoned"} :
                 admissionAt' = [admissionAt EXCEPT ![s] = place]
      BY <3>1
         DEF Adm!Handler, Adm!BeginReview, Adm!Hear, Adm!RefuseNobody, Adm!Scrape,
             Adm!RefuseMalformed, Adm!Admit, Adm!ServeDocument, Adm!ServeStatus, Adm!RefuseShape,
             Adm!ReadSources, Adm!Diagnosed, Adm!Abandon, Adm!StreamTurnedOff,
             Adm!StreamAtCapacity, Adm!Stream, Adm!ServeAdmitted, Adm!Answer
    <3>3. CASE \E place \in {"reviewing", "heard", "answered", "admitted", "reading",
            "abandoned"} :
                 admissionAt' = [admissionAt EXCEPT ![s] = place]
      BY <2>a, <3>3 DEF Adm!TypeOK
    <3>4. CASE Adm!Authenticate(s) \/ Adm!CloseStream(s)
      BY <2>a, <3>4 DEF Adm!TypeOK, Adm!Authenticate, Adm!CloseStream, Adm!Identify, Adm!request
    <3>5. CASE Adm!VerdictKept(s) \/ Adm!KeepVerdict(s)
      BY <2>a, <3>5 DEF Adm!TypeOK, Adm!VerdictKept, Adm!KeepVerdict, Adm!Identify
    <3> QED
      BY <3>2, <3>3, <3>4, <3>5
  <2>2. CASE Adm!VerdictKept(r)
    <3>1. caller'[r] = cache.principal
          /\ admissionAt'[r] = (IF cache.principal = Adm!Nobody THEN "refused" ELSE "identified")
      BY <2>a, <2>2 DEF Adm!TypeOK, Adm!VerdictKept, Adm!Identify
    <3>2. cache # Adm!NoVerdict /\ now - cache.since < Ttl
      BY <2>2 DEF Adm!VerdictKept, Adm!Fresh
    <3> QED
      BY <2>a, <3>1, <3>2, AdmissionTimes DEF Adm!TypeOK, Adm!CacheInTime, Adm!Nobody
  <2>3. CASE Adm!KeepVerdict(r)
    <3>1. caller'[r] = review[r].heard /\ admissionAt[r] = "heard"
          /\ admissionAt'[r] = (IF review[r].heard = Adm!Nobody THEN "refused" ELSE "identified")
      BY <2>a, <2>3 DEF Adm!TypeOK, Adm!KeepVerdict, Adm!Identify
    <3> QED
      BY <2>a, <3>1, AdmissionTimes DEF Adm!TypeOK, Adm!ReviewInTime, Adm!CacheInTime, Adm!Nobody
  <2> QED
    BY <2>1, <2>2, <2>3
<1> QED
  BY <1>1, AdmissionInv, PTL DEF Adm!Spec, VerdictsAreRecent, Adm!VerdictsAreRecent

\* What a caller was not granted is answered like what does not exist, and the sections
\* are not looked at for either (admit, and the handlers behind it).
THEOREM NotGrantedIsNotThere == Adm!Spec => []NotYoursIsNoSuchThing
<1> Adm!Bounds
  BY ServerBounds
<1>1. Adm!IndInv => NotYoursIsNoSuchThing
  <2> SUFFICES ASSUME Adm!IndInv PROVE NotYoursIsNoSuchThing
    OBVIOUS
  <2>1. ASSUME NEW r \in Requests
        PROVE  /\ consulted[r] => Adm!MayRead(r)
               /\ answer[r].names # {} => answer[r].names \subseteq Granted[caller[r]] \cap Served
               /\ admissionAt[r] = "answered" /\ caller[r] # Adm!Nobody
                    /\ ask[r].endpoint # "metrics"
                  /\ ~(Adm!MayRead(r) /\ ask[r].application \in Served)
                     => answer[r] = [status |-> "not_found", names |-> {}]
    BY <2>1 DEF Adm!IndInv, Adm!Standing, Adm!Settled, Adm!Unanswered
  <2>2. ASSUME NEW r \in Requests, NEW s \in Requests, {admissionAt[r],
          admissionAt[s]} = {"answered"},
               "metrics" \notin {ask[r].endpoint, ask[s].endpoint}
        PROVE  /\ admissionAt[r] = "answered" /\ admissionAt[s] = "answered"
               /\ ask[r].endpoint # "metrics" /\ ask[s].endpoint # "metrics"
    BY <2>2
  <2> QED
    BY <2>1, <2>2 DEF NotYoursIsNoSuchThing, Adm!NotYoursIsNoSuchThing
<1> QED
  BY <1>1, AdmissionInv, PTL

\* Every answer has one line, which says of it what it was (Audit::record, by every
\* handler).
THEOREM AnswersAreRecorded == Adm!Spec => []EveryAnswerIsRecorded
<1> Adm!Bounds
  BY ServerBounds
<1>1. Adm!IndInv => EveryAnswerIsRecorded
  BY DEF EveryAnswerIsRecorded, Adm!EveryAnswerIsRecorded, Adm!IndInv, Adm!Standing, Adm!Settled
<1> QED
  BY <1>1, AdmissionInv, PTL

\* A server nobody has connected to is in time.
LEMMA ServingInit == Serve!Bounds /\ Serve!Init => Serve!IndInv
  BY DEF Serve!Bounds, Serve!Init, Serve!IndInv, Serve!TypeOK, Serve!InTime, Serve!Open,
      Serve!Closed, Serve!Unlimited, Serve!Latest

\* The time a connection may be given is a time.
LEMMA ServingTimes ==
    Serve!Bounds => /\ HANDSHAKE_TIMEOUT \in 1 .. Serve!Unlimited
      /\ HANDSHAKE_TIMEOUT \in 0 .. Serve!Unlimited
              /\ HEADER_TIMEOUT \in 1 .. Serve!Unlimited
                   /\ HEADER_TIMEOUT \in 0 .. Serve!Unlimited
              /\ DRAIN_TIMEOUT \in 1 .. Serve!Unlimited /\ DRAIN_TIMEOUT \in 0 .. Serve!Unlimited
              /\ Serve!Unlimited \in 0 .. Serve!Unlimited
              /\ HANDSHAKE_TIMEOUT \in Nat /\ HEADER_TIMEOUT \in Nat /\ DRAIN_TIMEOUT \in Nat
              /\ Serve!Unlimited \in Nat /\ Serve!Latest \in Nat
                   /\ Serve!Latest < Serve!Unlimited /\ Serve!Unlimited # 0
  BY DEF Serve!Bounds, Serve!Unlimited, Serve!Latest

\* A connection that goes somewhere is there, with the time it has there.
LEMMA Going ==
    ASSUME Serve!TypeOK, NEW c \in Connections, NEW where \in Serve!Open \cup Serve!Closed,
           NEW limit \in 0 .. Serve!Unlimited, Serve!Unlimited \in 0 .. Serve!Unlimited,
             Serve!Go(c, where, limit)
    PROVE  /\ servingAt' \in [Connections -> Serve!Open \cup Serve!Closed \cup {"away"}]
           /\ left' \in [Connections -> 0 .. Serve!Unlimited]
           /\ servingAt'[c] = where
           /\ left'[c] = IF path = "tls" THEN limit ELSE Serve!Unlimited
           /\ \A d \in Connections \ {c} : servingAt'[d] = servingAt[d] /\ left'[d] = left[d]
  BY DEF Serve!TypeOK, Serve!Go

\* A step of one connection leaves the others in time.
LEMMA ConnectionsStay ==
    ASSUME NEW c \in Connections, Serve!IndInv,
           UNCHANGED <<path, server, asked>>,
           \A d \in Connections \ {c} :
               servingAt'[d] = servingAt[d] /\ left'[d] = left[d] /\ drain'[d] = drain[d]
               /\ silent'[d] = silent[d],
           Serve!TypeOK', Serve!InTime(c)'
    PROVE  Serve!IndInv'
<1>1. ASSUME NEW d \in Connections \ {c} PROVE Serve!InTime(d)'
  BY <1>1 DEF Serve!IndInv, Serve!InTime
<1> QED
  BY <1>1 DEF Serve!IndInv

\* Every step keeps every connection in time.
LEMMA ServingNext == Serve!Bounds /\ Serve!IndInv /\ [Serve!Next]_(Serve!vars) => Serve!IndInv'
<1> SUFFICES ASSUME Serve!Bounds, Serve!IndInv, [Serve!Next]_(Serve!vars) PROVE Serve!IndInv'
  OBVIOUS
<1>a. Serve!TypeOK /\ \A c \in Connections : Serve!InTime(c)
  BY DEF Serve!IndInv
<1>1. ASSUME NEW c \in Connections, Serve!Accept(c) PROVE Serve!IndInv'
  <2>1. PICK where \in {"handshaking", "headers"}, limit \in {HANDSHAKE_TIMEOUT,
          Serve!Unlimited} :
           /\ servingAt'[c] = where
                /\ left'[c] = (IF path = "tls" THEN limit ELSE Serve!Unlimited)
           /\ path = "tls" => where = "handshaking" /\ limit = HANDSHAKE_TIMEOUT
           /\ path # "tls" => where = "headers"
           /\ servingAt' \in [Connections -> Serve!Open \cup Serve!Closed \cup {"away"}]
           /\ left' \in [Connections -> 0 .. Serve!Unlimited]
           /\ \A d \in Connections \ {c} : servingAt'[d] = servingAt[d] /\ left'[d] = left[d]
    BY <1>1, <1>a, ServingTimes, Going
       DEF Serve!Open, Serve!Closed, Serve!Close, Serve!Draining, Serve!Accept
  <2>2. Serve!TypeOK'
    BY <1>1, <1>a, <2>1, ServingTimes DEF Serve!TypeOK, Serve!Accept
  <2>3. Serve!InTime(c)'
    <3>1. path' = path /\ server' = server /\ asked' = asked
      BY <1>1 DEF Serve!Accept
    <3>2. /\ asked \in Nat /\ left[c] \in Nat /\ drain[c] \in Nat /\ silent[c] \in Nat
          /\ server \in {"accepting", "draining", "stopped"}
          /\ server = "accepting" => asked = 0
      BY <1>a, ServingTimes DEF Serve!IndInv, Serve!TypeOK
    <3>3. servingAt[c] = "away" /\ server = "accepting" /\ drain'[c] = drain[c]
            /\ silent'[c] = silent[c]
      BY <1>1, <1>a, <2>1 DEF Serve!TypeOK, Serve!Open, Serve!Draining, Serve!Accept
    <3> QED
      BY <1>a, <2>1, <3>1, <3>2, <3>3, ServingTimes
         DEF Serve!InTime, Serve!Open, Serve!Unlimited, Serve!Latest
  <2> QED
    BY <1>1, <1>a, <2>1, <2>2, <2>3, ConnectionsStay DEF Serve!TypeOK, Serve!Accept
<1>2. ASSUME NEW c \in Connections, Serve!ShakeHands(c) PROVE Serve!IndInv'
  <2>1. PICK where \in {"headers", "responding", "streaming", "idle"}, limit \in {HEADER_TIMEOUT,
          Serve!Unlimited} :
           /\ servingAt'[c] = where
                /\ left'[c] = (IF path = "tls" THEN limit ELSE Serve!Unlimited)
           /\ where = "headers" => limit = HEADER_TIMEOUT
           /\ server = "accepting" => where = "headers" /\ UNCHANGED drain
           /\ server # "accepting" /\ where # "idle" =>
                  drain' = [drain EXCEPT ![c] = DRAIN_TIMEOUT]
           /\ where = "idle" => UNCHANGED drain
           /\ servingAt' \in [Connections -> Serve!Open \cup Serve!Closed \cup {"away"}]
           /\ left' \in [Connections -> 0 .. Serve!Unlimited]
           /\ \A d \in Connections \ {c} : servingAt'[d] = servingAt[d] /\ left'[d] = left[d]
    BY <1>2, <1>a, ServingTimes, Going
       DEF Serve!Open, Serve!Closed, Serve!Close, Serve!Draining, Serve!ShakeHands
  <2>2. Serve!TypeOK'
    BY <1>2, <1>a, <2>1, ServingTimes DEF Serve!TypeOK, Serve!ShakeHands
  <2>3. Serve!InTime(c)'
    <3>1. path' = path /\ server' = server /\ asked' = asked
      BY <1>2 DEF Serve!ShakeHands
    <3>2. /\ asked \in Nat /\ left[c] \in Nat /\ drain[c] \in Nat /\ silent[c] \in Nat
          /\ server \in {"accepting", "draining", "stopped"}
          /\ server = "accepting" => asked = 0
      BY <1>a, ServingTimes DEF Serve!IndInv, Serve!TypeOK
    <3>3. servingAt[c] = "handshaking" /\ silent'[c] = silent[c]
      BY <1>2 DEF Serve!ShakeHands
    <3>4. server = "accepting" \/ where = "idle" => drain'[c] = drain[c]
      BY <2>1
    <3>5. server # "accepting" /\ where # "idle" => drain'[c] = DRAIN_TIMEOUT
      BY <1>a, <2>1 DEF Serve!TypeOK
    <3> QED
      BY <1>a, <2>1, <3>1, <3>2, <3>3, <3>4, <3>5, ServingTimes
         DEF Serve!InTime, Serve!Open, Serve!Unlimited, Serve!Latest
  <2> QED
    BY <1>2, <1>a, <2>1, <2>2, <2>3, ConnectionsStay DEF Serve!TypeOK, Serve!ShakeHands
<1>3. ASSUME NEW c \in Connections, Serve!RefuseHandshake(c) PROVE Serve!IndInv'
  <2>1. PICK where \in {"refused"}, limit \in {Serve!Unlimited} :
           /\ servingAt'[c] = where
                /\ left'[c] = (IF path = "tls" THEN limit ELSE Serve!Unlimited)
           /\ servingAt' \in [Connections -> Serve!Open \cup Serve!Closed \cup {"away"}]
           /\ left' \in [Connections -> 0 .. Serve!Unlimited]
           /\ \A d \in Connections \ {c} : servingAt'[d] = servingAt[d] /\ left'[d] = left[d]
    BY <1>3, <1>a, ServingTimes, Going
       DEF Serve!Open, Serve!Closed, Serve!Close, Serve!Draining, Serve!RefuseHandshake
  <2>2. Serve!TypeOK'
    BY <1>3, <1>a, <2>1, ServingTimes DEF Serve!TypeOK, Serve!RefuseHandshake
  <2>3. Serve!InTime(c)'
    BY <1>3, <1>a, <2>1, ServingTimes
       DEF Serve!Bounds, Serve!IndInv, Serve!TypeOK, Serve!InTime, Serve!Open, Serve!Closed,
           Serve!Unlimited, Serve!Latest, Serve!Draining, Serve!RefuseHandshake
  <2> QED
    BY <1>3, <1>a, <2>1, <2>2, <2>3, ConnectionsStay DEF Serve!TypeOK, Serve!RefuseHandshake
<1>4. ASSUME NEW c \in Connections, Serve!Request(c) PROVE Serve!IndInv'
  <2>1. PICK where \in {"responding", "streaming"}, limit \in {Serve!Unlimited} :
           /\ servingAt'[c] = where
                /\ left'[c] = (IF path = "tls" THEN limit ELSE Serve!Unlimited)
           /\ servingAt' \in [Connections -> Serve!Open \cup Serve!Closed \cup {"away"}]
           /\ left' \in [Connections -> 0 .. Serve!Unlimited]
           /\ \A d \in Connections \ {c} : servingAt'[d] = servingAt[d] /\ left'[d] = left[d]
    BY <1>4, <1>a, ServingTimes, Going
       DEF Serve!Open, Serve!Closed, Serve!Close, Serve!Draining, Serve!Request
  <2>2. Serve!TypeOK'
    BY <1>4, <1>a, <2>1, ServingTimes DEF Serve!TypeOK, Serve!Request
  <2>3. Serve!InTime(c)'
    <3>1. path' = path /\ server' = server /\ asked' = asked
      BY <1>4 DEF Serve!Request
    <3>2. /\ asked \in Nat /\ left[c] \in Nat /\ drain[c] \in Nat /\ silent[c] \in Nat
          /\ server \in {"accepting", "draining", "stopped"}
          /\ server = "accepting" => asked = 0
      BY <1>a, ServingTimes DEF Serve!IndInv, Serve!TypeOK
    <3>3. servingAt[c] = "headers" /\ drain'[c] = drain[c] /\ silent'[c] = 0
      BY <1>4, <1>a, <2>1 DEF Serve!TypeOK, Serve!Open, Serve!Draining, Serve!Request
    <3> QED
      BY <1>a, <2>1, <3>1, <3>2, <3>3, ServingTimes
         DEF Serve!InTime, Serve!Open, Serve!Unlimited, Serve!Latest
  <2> QED
    BY <1>4, <1>a, <2>1, <2>2, <2>3, ConnectionsStay DEF Serve!TypeOK, Serve!Request
<1>5. ASSUME NEW c \in Connections, Serve!HeadersTimeOut(c) PROVE Serve!IndInv'
  <2>1. PICK where \in {"timed out"}, limit \in {Serve!Unlimited} :
           /\ servingAt'[c] = where
                /\ left'[c] = (IF path = "tls" THEN limit ELSE Serve!Unlimited)
           /\ servingAt' \in [Connections -> Serve!Open \cup Serve!Closed \cup {"away"}]
           /\ left' \in [Connections -> 0 .. Serve!Unlimited]
           /\ \A d \in Connections \ {c} : servingAt'[d] = servingAt[d] /\ left'[d] = left[d]
    BY <1>5, <1>a, ServingTimes, Going
       DEF Serve!Open, Serve!Closed, Serve!Close, Serve!Draining, Serve!HeadersTimeOut
  <2>2. Serve!TypeOK'
    BY <1>5, <1>a, <2>1, ServingTimes DEF Serve!TypeOK, Serve!HeadersTimeOut
  <2>3. Serve!InTime(c)'
    BY <1>5, <1>a, <2>1, ServingTimes
       DEF Serve!Bounds, Serve!IndInv, Serve!TypeOK, Serve!InTime, Serve!Open, Serve!Closed,
           Serve!Unlimited, Serve!Latest, Serve!Draining, Serve!HeadersTimeOut
  <2> QED
    BY <1>5, <1>a, <2>1, <2>2, <2>3, ConnectionsStay DEF Serve!TypeOK, Serve!HeadersTimeOut
<1>6. ASSUME NEW c \in Connections, Serve!Respond(c) PROVE Serve!IndInv'
  <2>1. PICK where \in {"answered", "headers"}, limit \in {HEADER_TIMEOUT, Serve!Unlimited} :
           /\ servingAt'[c] = where
                /\ left'[c] = (IF path = "tls" THEN limit ELSE Serve!Unlimited)
           /\ where = "headers" => limit = HEADER_TIMEOUT /\ drain[c] = Serve!Unlimited
           /\ servingAt' \in [Connections -> Serve!Open \cup Serve!Closed \cup {"away"}]
           /\ left' \in [Connections -> 0 .. Serve!Unlimited]
           /\ \A d \in Connections \ {c} : servingAt'[d] = servingAt[d] /\ left'[d] = left[d]
    BY <1>6, <1>a, ServingTimes, Going
       DEF Serve!Open, Serve!Closed, Serve!Close, Serve!Draining, Serve!Respond
  <2>2. Serve!TypeOK'
    BY <1>6, <1>a, <2>1, ServingTimes DEF Serve!TypeOK, Serve!Respond
  <2>3. Serve!InTime(c)'
    <3>1. path' = path /\ server' = server /\ asked' = asked
      BY <1>6 DEF Serve!Respond
    <3>2. /\ asked \in Nat /\ left[c] \in Nat /\ drain[c] \in Nat /\ silent[c] \in Nat
          /\ server \in {"accepting", "draining", "stopped"}
          /\ server = "accepting" => asked = 0
      BY <1>a, ServingTimes DEF Serve!IndInv, Serve!TypeOK
    <3>3. servingAt[c] = "responding" /\ drain'[c] = drain[c] /\ silent'[c] = silent[c]
      BY <1>6, <1>a, <2>1 DEF Serve!TypeOK, Serve!Open, Serve!Draining, Serve!Respond
    <3> QED
      BY <1>a, <2>1, <3>1, <3>2, <3>3, ServingTimes
         DEF Serve!InTime, Serve!Open, Serve!Unlimited, Serve!Latest
  <2> QED
    BY <1>6, <1>a, <2>1, <2>2, <2>3, ConnectionsStay DEF Serve!TypeOK, Serve!Respond
<1>7. ASSUME NEW c \in Connections, Serve!ClientLeaves(c) PROVE Serve!IndInv'
  <2>1. PICK where \in {"gone"}, limit \in {Serve!Unlimited} :
           /\ servingAt'[c] = where
                /\ left'[c] = (IF path = "tls" THEN limit ELSE Serve!Unlimited)
           /\ servingAt' \in [Connections -> Serve!Open \cup Serve!Closed \cup {"away"}]
           /\ left' \in [Connections -> 0 .. Serve!Unlimited]
           /\ \A d \in Connections \ {c} : servingAt'[d] = servingAt[d] /\ left'[d] = left[d]
    BY <1>7, <1>a, ServingTimes, Going
       DEF Serve!Open, Serve!Closed, Serve!Close, Serve!Draining, Serve!ClientLeaves
  <2>2. Serve!TypeOK'
    BY <1>7, <1>a, <2>1, ServingTimes DEF Serve!TypeOK, Serve!ClientLeaves
  <2>3. Serve!InTime(c)'
    BY <1>7, <1>a, <2>1, ServingTimes
       DEF Serve!Bounds, Serve!IndInv, Serve!TypeOK, Serve!InTime, Serve!Open, Serve!Closed,
           Serve!Unlimited, Serve!Latest, Serve!Draining, Serve!ClientLeaves
  <2> QED
    BY <1>7, <1>a, <2>1, <2>2, <2>3, ConnectionsStay DEF Serve!TypeOK, Serve!ClientLeaves
<1>8. ASSUME NEW c \in Connections, Serve!DrainEnds(c) PROVE Serve!IndInv'
  <2>1. PICK where \in {"dropped"}, limit \in {Serve!Unlimited} :
           /\ servingAt'[c] = where
                /\ left'[c] = (IF path = "tls" THEN limit ELSE Serve!Unlimited)
           /\ servingAt' \in [Connections -> Serve!Open \cup Serve!Closed \cup {"away"}]
           /\ left' \in [Connections -> 0 .. Serve!Unlimited]
           /\ \A d \in Connections \ {c} : servingAt'[d] = servingAt[d] /\ left'[d] = left[d]
    BY <1>8, <1>a, ServingTimes, Going
       DEF Serve!Open, Serve!Closed, Serve!Close, Serve!Draining, Serve!DrainEnds
  <2>2. Serve!TypeOK'
    BY <1>8, <1>a, <2>1, ServingTimes DEF Serve!TypeOK, Serve!DrainEnds
  <2>3. Serve!InTime(c)'
    BY <1>8, <1>a, <2>1, ServingTimes
       DEF Serve!Bounds, Serve!IndInv, Serve!TypeOK, Serve!InTime, Serve!Open, Serve!Closed,
           Serve!Unlimited, Serve!Latest, Serve!Draining, Serve!DrainEnds
  <2> QED
    BY <1>8, <1>a, <2>1, <2>2, <2>3, ConnectionsStay DEF Serve!TypeOK, Serve!DrainEnds
<1>9. CASE Serve!Shutdown
  <2>1. Serve!TypeOK'
    <3>1. servingAt' \in [Connections -> Serve!Open \cup Serve!Closed \cup {"away"}]
      BY <1>9, <1>a DEF Serve!TypeOK, Serve!Closed, Serve!Shutdown
    <3>2. drain' \in [Connections -> 0 .. Serve!Unlimited]
      BY <1>9, <1>a, ServingTimes DEF Serve!TypeOK, Serve!Shutdown
    <3> QED
      BY <1>9, <1>a, <3>1, <3>2 DEF Serve!TypeOK, Serve!Shutdown
  <2>2. ASSUME NEW c \in Connections PROVE Serve!InTime(c)'
    <3>1. /\ path' = path /\ server = "accepting" /\ server' = "draining"
          /\ left'[c] = left[c] /\ silent'[c] = silent[c] /\ asked' = 0
          /\ servingAt[c] = servingAt'[c] \/ servingAt'[c] = "idle"
          /\ drain[c] = Serve!Unlimited
      BY <1>9, <1>a, <2>2 DEF Serve!IndInv, Serve!TypeOK, Serve!InTime, Serve!Shutdown
    <3>2. /\ drain'[c] \in {DRAIN_TIMEOUT, Serve!Unlimited}
          /\ servingAt'[c] \in Serve!Open \ {"handshaking"} => drain'[c] = DRAIN_TIMEOUT
      BY <1>9, <1>a, <2>2, <3>1 DEF Serve!TypeOK, Serve!Open, Serve!Shutdown
    <3>3. left[c] \in Nat /\ silent[c] \in Nat
      BY <1>a, <2>2, ServingTimes DEF Serve!TypeOK
    <3>4. servingAt[c] = "handshaking" => left[c] + silent[c] <= HANDSHAKE_TIMEOUT
      BY <1>a, <2>2 DEF Serve!InTime
    <3>5. DRAIN_TIMEOUT <= Serve!Latest /\ DRAIN_TIMEOUT \in Nat /\ HANDSHAKE_TIMEOUT \in Nat
      BY ServingTimes DEF Serve!Latest
    <3> HIDE DEF Serve!Latest
    <3> QED
      BY <1>a, <2>2, <3>1, <3>2, <3>3, <3>4, <3>5 DEF Serve!InTime, Serve!Open
  <2> QED
    BY <1>9, <2>1, <2>2, ServingTimes DEF Serve!IndInv, Serve!Shutdown
<1>10. CASE Serve!Stop
  BY <1>10 DEF Serve!IndInv, Serve!TypeOK, Serve!InTime, Serve!Open, Serve!Stop
<1>11. CASE Serve!Tick
  <2>1. server = "draining" => asked < Serve!Latest
    BY <1>11, <1>a, ServingTimes
       DEF Serve!Bounds, Serve!IndInv, Serve!TypeOK, Serve!InTime, Serve!Open, Serve!Unlimited,
           Serve!Latest, Serve!Tick
  <2>2. ASSUME NEW c \in Connections, servingAt[c] \in Serve!Open
        PROVE  /\ left[c] > 0 /\ left'[c] = Serve!Later(left[c])
               /\ drain[c] > 0 /\ drain'[c] = Serve!Later(drain[c])
    BY <1>11, <2>2 DEF Serve!Tick
  <2>3. ASSUME NEW n \in 0 .. Serve!Unlimited, n > 0
        PROVE  Serve!Later(n) \in 0 .. Serve!Unlimited
    BY <2>3, ServingTimes DEF Serve!Later
  <2>4. left' \in [Connections -> 0 .. Serve!Unlimited]
          /\ drain' \in [Connections -> 0 .. Serve!Unlimited]
    BY <1>11, <1>a, <2>2, <2>3 DEF Serve!TypeOK, Serve!Tick
  <2>5. silent' \in [Connections -> 0 .. Serve!Unlimited]
    BY <1>11, <1>a, ServingTimes DEF Serve!TypeOK, Serve!Tick
  <2>6. Serve!TypeOK'
    BY <1>11, <1>a, <2>1, <2>4, <2>5, ServingTimes DEF Serve!TypeOK, Serve!Tick
  <2>7. ASSUME NEW c \in Connections PROVE Serve!InTime(c)'
    BY <1>11, <1>a, <2>1, <2>2, ServingTimes
       DEF Serve!Bounds, Serve!IndInv, Serve!TypeOK, Serve!InTime, Serve!Open, Serve!Unlimited,
           Serve!Latest, Serve!Later, Serve!Tick
  <2> QED
    <3>1. server' = "draining" => asked' <= Serve!Latest
      BY <1>11, <1>a, <2>1, ServingTimes DEF Serve!TypeOK, Serve!Tick
    <3>2. server' = "accepting" => asked' = 0
      BY <1>11 DEF Serve!IndInv, Serve!Tick
    <3> QED
      BY <2>6, <2>7, <3>1, <3>2 DEF Serve!IndInv
<1>12. CASE UNCHANGED Serve!vars
  BY <1>12 DEF Serve!IndInv, Serve!TypeOK, Serve!InTime, Serve!vars
<1> QED
  BY <1>1, <1>2, <1>3, <1>4, <1>5, <1>6, <1>7, <1>8, <1>9, <1>10, <1>11, <1>12
     DEF Serve!Next, Serve!Connection

\* The invariant always holds.
LEMMA ServingInv == Serve!Bounds => (Serve!Spec => []Serve!IndInv)
<1> SUFFICES ASSUME Serve!Bounds PROVE Serve!Spec => []Serve!IndInv
  OBVIOUS
<1>1. Serve!Init => Serve!IndInv
  BY ServingInit
<1>2. Serve!IndInv /\ [Serve!Next]_(Serve!vars) => Serve!IndInv'
  BY ServingNext
<1> QED
  BY <1>1, <1>2, PTL DEF Serve!Spec

\* A connection that sends nothing holds its place no longer than a handshake and the
\* headers of a request may take, and a server that drains is over within a handshake
\* and a drain (serve_tls, serve_plain).
THEOREM ConnectionsAreNotHeld == Serve!Spec => []NothingIsHeldForEver
<1> Serve!Bounds
  BY ServerBounds
<1>1. Serve!IndInv => NothingIsHeldForEver
  BY DEF Serve!Bounds, Serve!IndInv, Serve!TypeOK, Serve!InTime, NothingIsHeldForEver,
    Serve!NothingIsHeldForEver,
      Serve!Unlimited, Serve!Latest
<1> QED
  BY <1>1, ServingInv, PTL

\* When a connection has drained, the server has drained for as long.
LEMMA DrainTakesItsTime ==
    ASSUME Serve!Bounds, Serve!IndInv, NEW c \in Connections, drain[c] = 0,
      servingAt[c] \in Serve!Open
    PROVE  asked >= DRAIN_TIMEOUT
<1>1. Serve!TypeOK /\ Serve!InTime(c)
  BY DEF Serve!IndInv
<1>2. server = "draining"
  BY <1>1, ServingTimes DEF Serve!TypeOK, Serve!InTime
<1> QED
  BY <1>1, <1>2, ServingTimes DEF Serve!TypeOK, Serve!InTime

\* A request that is being answered when the server is told to stop is dropped no earlier
\* than the drain's timeout (serve_tls' graceful_shutdown, serve_plain's drain).
THEOREM RequestsInFlightAreAnswered == Serve!Spec => InFlightIsAnswered
<1> Serve!Bounds
  BY ServerBounds
<1> DEFINE Kept ==
        \A c \in Connections :
            servingAt[c] = "responding" /\ server' # "accepting"
              /\ servingAt'[c] \in Serve!Closed \ {"gone"}
                => servingAt'[c] = "answered" \/ asked >= DRAIN_TIMEOUT
<1>1. Serve!IndInv /\ [Serve!Next]_(Serve!vars) => [Kept]_(Serve!vars)
  <2> SUFFICES ASSUME Serve!IndInv, [Serve!Next]_(Serve!vars), NEW c \in Connections,
        servingAt[c] = "responding",
                      server' # "accepting", servingAt'[c] \in Serve!Closed \ {"gone"},
                      Serve!vars' # Serve!vars
               PROVE  servingAt'[c] = "answered" \/ asked >= DRAIN_TIMEOUT
    OBVIOUS
  <2> USE DEF Serve!Bounds, Serve!IndInv, Serve!TypeOK, Serve!InTime, Serve!Open, Serve!Closed,
        Serve!Unlimited, Serve!Latest, Serve!Go, Serve!Close
  <2>1. ASSUME NEW d \in Connections, Serve!Accept(d) PROVE FALSE
    BY <2>1 DEF Serve!Accept
  <2>2. ASSUME NEW d \in Connections,
               Serve!ShakeHands(d) \/ Serve!RefuseHandshake(d) \/ Serve!Request(d)
                 \/ Serve!HeadersTimeOut(d)
        PROVE  FALSE
    BY <2>2 DEF Serve!ShakeHands, Serve!RefuseHandshake, Serve!Request, Serve!HeadersTimeOut
  <2>3. ASSUME NEW d \in Connections, Serve!Respond(d) PROVE servingAt'[c] = "answered"
    BY <2>3 DEF Serve!Respond
  <2>4. ASSUME NEW d \in Connections, Serve!ClientLeaves(d) PROVE FALSE
    BY <2>4 DEF Serve!ClientLeaves
  <2>5. ASSUME NEW d \in Connections, Serve!DrainEnds(d) PROVE asked >= DRAIN_TIMEOUT
    BY <2>5, DrainTakesItsTime DEF Serve!DrainEnds
  <2>6. CASE Serve!Shutdown
    BY <2>6 DEF Serve!Shutdown
  <2>7. CASE Serve!Stop \/ Serve!Tick
    BY <2>7 DEF Serve!Stop, Serve!Tick
  <2> QED
    BY <2>1, <2>2, <2>3, <2>4, <2>5, <2>6, <2>7 DEF Serve!Next, Serve!Connection
<1> QED
  BY <1>1, ServingInv, PTL DEF Serve!Spec, InFlightIsAnswered, Serve!InFlightIsAnswered

-----------------------------------------------------------------------------
(* The start of the server.                                                 *)

\* A configuration nothing is wrong with has none of the things that may be.
LEMMA NothingRefused ==
    ASSUME NEW c, Starting!Refusals(c) = {}
    PROVE  /\ \A i \in DOMAIN c.sections :
                 /\ {c.sections[i].application, c.sections[i].profile} \subseteq Names
                 /\ \A j \in 1 .. i - 1 :
                        Starting!Pair(c.sections[j]) # Starting!Pair(c.sections[i])
           /\ \A i \in DOMAIN c.clients :
                 /\ \A j \in 1 .. i - 1 : c.clients[j].name # c.clients[i].name
                 /\ c.clients[i].token = Starting!None =>
                        c.allow_anonymous /\ \A j \in Starting!Tokenless(c) : ~(j < i)
                 /\ c.clients[i].token \notin WeakTokens
                 /\ \A a \in c.clients[i].applications :
                        \E j \in DOMAIN c.sections : c.sections[j].application = a
           /\ ~Starting!DuplicateToken(c)
           /\ c.tls => "tls" \in Features /\ "crl" \notin c.wrong /\ c.wrong \ {"crl"} = {}
                       /\ ~c.insecure
           /\ c.tls \/ c.bind = "loopback" \/ c.insecure
<1>0. /\ UNION {Starting!SectionRefusals(c, i) : i \in DOMAIN c.sections} = {}
      /\ UNION {Starting!ClientRefusals(c, i) : i \in DOMAIN c.clients} = {}
      /\ Starting!Named("DuplicateToken", Starting!DuplicateToken(c)) = {}
      /\ Starting!NetworkRefusals(c) = {}
  BY DEF Starting!Refusals
<1>1. ASSUME NEW i \in DOMAIN c.sections
      PROVE  /\ {c.sections[i].application, c.sections[i].profile} \subseteq Names
             /\ \A j \in 1 .. i - 1 :
                    Starting!Pair(c.sections[j]) # Starting!Pair(c.sections[i])
  <2>1. Starting!SectionRefusals(c, i) = {}
    BY <1>0
  <2> QED
    BY <2>1 DEF Starting!SectionRefusals, Starting!Named
<1>2. ASSUME NEW i \in DOMAIN c.clients
      PROVE  /\ \A j \in 1 .. i - 1 : c.clients[j].name # c.clients[i].name
             /\ c.clients[i].token = Starting!None =>
                    c.allow_anonymous /\ \A j \in Starting!Tokenless(c) : ~(j < i)
             /\ c.clients[i].token \notin WeakTokens
             /\ \A a \in c.clients[i].applications :
                    \E j \in DOMAIN c.sections : c.sections[j].application = a
  <2>1. Starting!ClientRefusals(c, i) = {}
    BY <1>0
  <2> QED
    BY <2>1 DEF Starting!ClientRefusals, Starting!Named
<1>3. ~Starting!DuplicateToken(c)
  BY <1>0 DEF Starting!Named
<1>5. /\ c.tls => "tls" \in Features /\ "crl" \notin c.wrong /\ c.wrong \ {"crl"} = {}
                  /\ ~c.insecure
      /\ c.tls \/ c.bind = "loopback" \/ c.insecure
  BY <1>0 DEF Starting!NetworkRefusals, Starting!Named
<1> QED
  BY <1>1, <1>2, <1>3, <1>5

\* What a configuration is made of.
LEMMA Configured ==
    ASSUME Starting!Bounds, config \in Configurations
    PROVE  /\ DOMAIN config.sections = 1 .. Len(config.sections)
           /\ Len(config.sections) \in Nat
           /\ DOMAIN config.clients = 1 .. Len(config.clients)
           /\ Len(config.clients) \in Nat
           /\ config.tls \in BOOLEAN /\ config.watched \in BOOLEAN
           /\ MaxRotations \in Nat
  BY DEF Starting!Bounds

\* A start that fails ends, and has opened nothing more before its configuration was found
\* to be fine.
LEMMA StartFails ==
    ASSUME Starting!IndInv, NEW kind \in {"refused", "tls", "section", "watch", "bind"},
           Starting!Fail(kind), opened' = opened \/ Starting!Refusals(config) = {}
    PROVE  Starting!IndInv'
<1>1. /\ startAt' = "over" /\ outcome' = kind
      /\ UNCHANGED <<config, files, rotations, section, read, served, roster, anonymous>>
  BY DEF Starting!Fail
<1>2. Starting!TypeOK'
  BY <1>1 DEF Starting!IndInv, Starting!TypeOK, Starting!Places
<1>3. Starting!Validated'
  BY <1>1 DEF Starting!IndInv, Starting!Validated, Starting!Listening
<1>4. Starting!KeyChecked' /\ Starting!SectionsServed'
  BY <1>1 DEF Starting!KeyChecked, Starting!SectionsServed, Starting!Loaded, Starting!Listening
<1>5. Starting!NothingServedYet' /\ Starting!Ended'
  BY <1>1 DEF Starting!NothingServedYet, Starting!Ended, Starting!Loaded, Starting!Listening
<1> QED
  BY <1>2, <1>3, <1>4, <1>5 DEF Starting!IndInv

\* A server that has not begun to start.
LEMMA StartingInit == Starting!Bounds /\ Starting!Init => Starting!IndInv
<1> SUFFICES ASSUME Starting!Bounds, Starting!Init PROVE Starting!IndInv
  OBVIOUS
<1>1. Starting!TypeOK
  <2>1. files \in [{"certificate", "key"} -> Starting!Files]
    <3>1. PICK private \in BOOLEAN :
             files = [certificate |-> [pair |-> 1, private |-> FALSE],
                      key |-> [pair |-> 1, private |-> private]]
      BY DEF Starting!Init
    <3>2. 1 \in 1 .. 1 + MaxRotations
      BY DEF Starting!Bounds
    <3>3. /\ [pair |-> 1, private |-> FALSE] \in Starting!Files
          /\ [pair |-> 1, private |-> private] \in Starting!Files
      BY <3>2 DEF Starting!Files
    <3>4. /\ files = [f \in {"certificate", "key"} |->
                         IF f = "certificate" THEN files.certificate ELSE files.key]
          /\ files.certificate \in Starting!Files /\ files.key \in Starting!Files
      BY <3>1, <3>3
    <3> QED
      BY <3>4
  <2>2. read \in [{"certificate", "key"} -> Starting!Files \cup {Starting!NoFile}]
    BY DEF Starting!Init
  <2>3. config \in Configurations
    BY DEF Starting!Init
  <2> QED
    BY <2>1, <2>2, <2>3, Configured DEF Starting!Init, Starting!TypeOK, Starting!Places
<1>2. Starting!Validated /\ Starting!KeyChecked /\ Starting!SectionsServed
      /\ Starting!NothingServedYet /\ Starting!Ended
  BY DEF Starting!Init, Starting!Validated, Starting!KeyChecked, Starting!SectionsServed,
         Starting!NothingServedYet, Starting!Ended, Starting!Loaded, Starting!Listening,
         Starting!None
<1> QED
  BY <1>1, <1>2 DEF Starting!IndInv

\* A step on to the next thing keeps what is known of the configuration.
LEMMA GoesOn ==
    ASSUME Starting!IndInv, startAt # "over", Starting!Refusals(config) = {},
           UNCHANGED <<config, outcome>>
    PROVE  Starting!Validated' /\ Starting!Ended'
  BY DEF Starting!IndInv, Starting!Validated, Starting!Ended, Starting!Listening

\* The files of the certificate are replaced.
LEMMA StartingRotate ==
    ASSUME Starting!Bounds, Starting!IndInv, NEW name \in {"certificate", "key"},
           Starting!Rotate(name)
    PROVE  Starting!IndInv'
<1> USE DEF Starting!IndInv
<1>1. Starting!TypeOK'
  <2>1. PICK private \in BOOLEAN :
           files' = [files EXCEPT ![name] = [pair |-> @.pair + 1, private |-> private]]
    BY DEF Starting!Rotate
  <2>2. MaxRotations \in Nat /\ files[name].pair \in 1 .. 1 + MaxRotations
        /\ files[name].pair < 1 + MaxRotations
    BY DEF Starting!Rotate, Starting!Bounds, Starting!TypeOK, Starting!Files
  <2>3. [pair |-> files[name].pair + 1, private |-> private] \in Starting!Files
    BY <2>2 DEF Starting!Files
  <2>4. files' \in [{"certificate", "key"} -> Starting!Files]
    BY <2>1, <2>3 DEF Starting!TypeOK
  <2>5. rotations' \in 0 .. MaxRotations
    <3>1. files'[name].pair = files[name].pair + 1
      BY <2>1 DEF Starting!TypeOK
    <3> QED
      BY <2>2, <3>1 DEF Starting!Rotate, Starting!TypeOK
  <2> QED
    BY <2>4, <2>5 DEF Starting!Rotate, Starting!TypeOK
<1>2. Starting!Validated' /\ Starting!KeyChecked' /\ Starting!SectionsServed'
  BY DEF Starting!Rotate, Starting!Validated, Starting!KeyChecked, Starting!SectionsServed,
         Starting!Listening
<1>3. Starting!NothingServedYet' /\ Starting!Ended'
  BY DEF Starting!Rotate, Starting!NothingServedYet, Starting!Ended, Starting!Listening
<1> QED
  BY <1>1, <1>2, <1>3

\* The configuration is looked at as a whole.
LEMMA StartingValidate ==
    ASSUME Starting!Bounds, Starting!IndInv, Starting!Validate
    PROVE  Starting!IndInv'
<1>1. CASE Starting!Refusals(config) = {}
  <2> USE DEF Starting!IndInv
  <2>1. /\ startAt = "validate" /\ startAt' = IF config.tls THEN "certificate" ELSE "section"
        /\ UNCHANGED <<config, files, rotations, section, read, served, roster, anonymous,
                       outcome, opened>>
    BY <1>1 DEF Starting!Validate
  <2>2. Starting!TypeOK'
    BY <2>1 DEF Starting!TypeOK, Starting!Places
  <2>3. Starting!Validated' /\ Starting!Ended'
    BY <1>1, <2>1, GoesOn
  <2>4. Starting!KeyChecked'
    BY <2>1 DEF Starting!Bounds, Starting!TypeOK, Starting!KeyChecked, Starting!Ended,
                Starting!Loaded, Starting!Listening
  <2>5. section = 1 /\ served = << >>
    BY <2>1 DEF Starting!NothingServedYet, Starting!Loaded
  <2>6. Starting!SectionsServed' /\ Starting!NothingServedYet'
    BY <2>1, <2>5 DEF Starting!SectionsServed, Starting!NothingServedYet, Starting!Ended,
                      Starting!Loaded, Starting!Listening
  <2> QED
    BY <2>2, <2>3, <2>4, <2>6
<1>2. CASE Starting!Refusals(config) # {}
  BY <1>2, StartFails DEF Starting!Validate
<1> QED
  BY <1>1, <1>2

\* A file of [tls] is opened, and read as it is by then.
LEMMA StartingOpenFile ==
    ASSUME Starting!Bounds, Starting!IndInv, NEW name \in {"certificate", "key"},
           NEW next \in {"key", "permissions"}, startAt \in {"certificate", "key"},
           Starting!OpenFile(name, next)
    PROVE  Starting!IndInv'
<1>0. Starting!Refusals(config) = {}
  BY DEF Starting!IndInv, Starting!Validated
<1>1. CASE Starting!Fail("tls")
  BY <1>0, <1>1, StartFails
<1>2. CASE /\ read' = [read EXCEPT ![name] = files[name]]
           /\ startAt' = next
           /\ UNCHANGED <<config, files, rotations, section, served, roster, anonymous, outcome>>
  <2> USE DEF Starting!IndInv
  <2>1. read' \in [{"certificate", "key"} -> Starting!Files \cup {Starting!NoFile}]
    BY <1>2 DEF Starting!TypeOK
  <2>2. Starting!TypeOK'
    BY <1>2, <2>1 DEF Starting!TypeOK, Starting!Places
  <2>3. Starting!Validated' /\ Starting!Ended'
    BY <1>0, <1>2, GoesOn
  <2>4. Starting!KeyChecked' /\ Starting!SectionsServed' /\ Starting!NothingServedYet'
    BY <1>2 DEF Starting!KeyChecked, Starting!SectionsServed, Starting!NothingServedYet,
                Starting!Ended, Starting!Loaded, Starting!Listening
  <2> QED
    BY <2>2, <2>3, <2>4
<1> QED
  BY <1>1, <1>2 DEF Starting!OpenFile

\* The key that is open is looked at, and compared with the certificate.
LEMMA StartingKey ==
    ASSUME Starting!Bounds, Starting!IndInv, Starting!CheckPermissions \/ Starting!MatchKey
    PROVE  Starting!IndInv'
<1> DEFINE Checked ==
        /\ \/ startAt = "permissions" /\ startAt' = "match" /\ read.key.private
           \/ startAt = "match" /\ startAt' = "section"
              /\ read.certificate.pair = read.key.pair
        /\ UNCHANGED <<config, files, rotations, section, read, served, roster, anonymous,
                       outcome, opened>>
<1>0. Starting!Refusals(config) = {}
  BY DEF Starting!IndInv, Starting!Validated, Starting!CheckPermissions, Starting!MatchKey
<1>1. CASE Checked
  <2> USE DEF Starting!IndInv
  <2>2. Starting!TypeOK'
    BY <1>1 DEF Starting!TypeOK, Starting!Places
  <2>3. Starting!Validated' /\ Starting!Ended'
    BY <1>0, <1>1, GoesOn
  <2>4. Starting!KeyChecked'
    BY <1>1 DEF Starting!KeyChecked, Starting!Ended, Starting!Loaded, Starting!Listening
  <2>5. section = 1 /\ served = << >>
    BY <1>1 DEF Starting!NothingServedYet, Starting!Loaded
  <2>6. Starting!SectionsServed' /\ Starting!NothingServedYet'
    BY <1>1, <2>5 DEF Starting!SectionsServed, Starting!NothingServedYet, Starting!Ended,
                      Starting!Loaded, Starting!Listening
  <2> QED
    BY <2>2, <2>3, <2>4, <2>6
<1>2. CASE Starting!Fail("tls")
  BY <1>0, <1>2, StartFails
<1> QED
  BY <1>1, <1>2 DEF Starting!CheckPermissions, Starting!MatchKey

\* A section is read.
LEMMA StartingLoadSection ==
    ASSUME Starting!Bounds, Starting!IndInv, Starting!LoadSection
    PROVE  Starting!IndInv'
<1>0. Starting!Refusals(config) = {}
  BY DEF Starting!IndInv, Starting!Validated, Starting!LoadSection
<1>1. CASE Starting!Fail("section")
  BY <1>0, <1>1, StartFails
<1>2. CASE /\ startAt' = "watch"
           /\ UNCHANGED <<config, files, rotations, section, read, served, roster, anonymous,
                          outcome>>
  <2> USE DEF Starting!IndInv
  <2>1. startAt = "section" /\ section \in DOMAIN config.sections
    BY DEF Starting!LoadSection
  <2>2. Starting!TypeOK'
    BY <1>2 DEF Starting!TypeOK, Starting!Places
  <2>3. Starting!Validated' /\ Starting!Ended'
    BY <1>0, <1>2, <2>1, GoesOn
  <2>4. Starting!KeyChecked'
    BY <1>2, <2>1 DEF Starting!KeyChecked, Starting!Loaded, Starting!Listening
  <2>5. Starting!SectionsServed' /\ Starting!NothingServedYet'
    BY <1>2, <2>1 DEF Starting!SectionsServed, Starting!NothingServedYet, Starting!Ended,
                      Starting!Loaded, Starting!Listening
  <2> QED
    BY <2>2, <2>3, <2>4, <2>5
<1> QED
  BY <1>1, <1>2 DEF Starting!LoadSection

\* A section is served from now on.
LEMMA StartingWatchSection ==
    ASSUME Starting!Bounds, Starting!IndInv, Starting!WatchSection
    PROVE  Starting!IndInv'
<1> DEFINE pairOf(i) == Starting!Pair(config.sections[i])
<1>0. Starting!Refusals(config) = {} /\ startAt = "watch"
  BY DEF Starting!IndInv, Starting!Validated, Starting!WatchSection
<1>1. CASE Starting!Fail("watch")
  BY <1>0, <1>1, StartFails
<1>2. CASE /\ served' = [pair \in DOMAIN served \cup {pairOf(section)} |->
                           IF pair = pairOf(section) THEN section ELSE served[pair]]
           /\ startAt' = "section" /\ section' = section + 1
           /\ UNCHANGED <<config, files, rotations, read, roster, anonymous, outcome>>
  <2> USE DEF Starting!IndInv
  <2>1. /\ section \in DOMAIN config.sections
        /\ \A i \in 1 .. section - 1 : pairOf(i) \in DOMAIN served /\ served[pairOf(i)] = i
        /\ DOMAIN served = {pairOf(i) : i \in 1 .. section - 1}
    BY <1>0 DEF Starting!SectionsServed, Starting!Loaded
  <2>2. /\ Len(config.sections) \in Nat /\ section \in 1 .. Len(config.sections)
        /\ DOMAIN config.sections = 1 .. Len(config.sections)
    BY <2>1, Configured DEF Starting!TypeOK
  <2>3. Starting!TypeOK'
    <3>1. section' \in 1 .. Len(config'.sections) + 1
      BY <1>2, <2>2
    <3>2. \A pair \in DOMAIN served' : served'[pair] \in DOMAIN config'.sections
      BY <1>2, <2>1 DEF Starting!TypeOK
    <3> QED
      BY <1>2, <3>1, <3>2 DEF Starting!TypeOK, Starting!Places
  <2>4. Starting!Validated' /\ Starting!Ended'
    BY <1>0, <1>2, GoesOn
  <2>5. Starting!KeyChecked'
    BY <1>0, <1>2 DEF Starting!KeyChecked, Starting!Loaded, Starting!Listening
  <2>6. \A i \in 1 .. section - 1 : pairOf(i) # pairOf(section)
    BY <1>0, <2>1, NothingRefused
  <2>7. 1 .. section' - 1 = (1 .. section - 1) \cup {section}
    BY <1>2, <2>2
  <2> HIDE DEF pairOf
  <2>8. ASSUME NEW i \in 1 .. section' - 1
        PROVE  pairOf(i) \in DOMAIN served' /\ served'[pairOf(i)] = i
    <3>1. CASE i = section
      BY <1>2, <3>1
    <3>2. CASE i # section
      <4>1. i \in 1 .. section - 1 /\ pairOf(i) # pairOf(section)
        BY <2>6, <2>7, <3>2
      <4>2. pairOf(i) \in DOMAIN served /\ served[pairOf(i)] = i
        BY <2>1, <4>1
      <4> QED
        BY <1>2, <4>1, <4>2
    <3> QED
      BY <3>1, <3>2
  <2>9. DOMAIN served' = {pairOf(i) : i \in 1 .. section' - 1}
    <3>1. DOMAIN served' = DOMAIN served \cup {pairOf(section)}
      BY <1>2
    <3>2. {pairOf(i) : i \in 1 .. section' - 1}
            = {pairOf(i) : i \in 1 .. section - 1} \cup {pairOf(section)}
      <4> DEFINE earlier == 1 .. section - 1
      <4>1. 1 .. section' - 1 = earlier \cup {section}
        BY <2>7
      <4> HIDE DEF earlier
      <4>2. {pairOf(i) : i \in earlier \cup {section}}
              = {pairOf(i) : i \in earlier} \cup {pairOf(section)}
        OBVIOUS
      <4> QED
        BY <4>1, <4>2 DEF earlier
    <3>3. DOMAIN served = {pairOf(i) : i \in 1 .. section - 1}
      BY <2>1
    <3> QED
      BY <3>1, <3>2, <3>3
  <2>10. startAt' = "section" /\ outcome' # "listening"
    BY <1>0, <1>2 DEF Starting!Ended, Starting!Listening
  <2>11. Starting!NothingServedYet'
    BY <2>10 DEF Starting!NothingServedYet, Starting!Loaded
  <2>12. Starting!SectionsServed'
    <3>1. /\ \A i \in 1 .. section' - 1 :
                Starting!Pair(config'.sections[i]) \in DOMAIN served'
                /\ served'[Starting!Pair(config'.sections[i])] = i
          /\ DOMAIN served' = {Starting!Pair(config'.sections[i]) : i \in 1 .. section' - 1}
      BY <1>2, <2>8, <2>9 DEF pairOf
    <3> QED
      BY <2>10, <3>1 DEF Starting!SectionsServed, Starting!Listening
  <2> QED
    BY <2>3, <2>4, <2>5, <2>11, <2>12
<1> QED
  BY <1>1, <1>2 DEF Starting!WatchSection

\* The callers are put together.
LEMMA StartingRoster ==
    ASSUME Starting!Bounds, Starting!IndInv, Starting!Roster
    PROVE  Starting!IndInv'
<1> USE DEF Starting!IndInv
<1>1. /\ startAt = "section" /\ section \notin DOMAIN config.sections
      /\ startAt' \in {"kubernetes", "bind"}
      /\ UNCHANGED <<config, files, rotations, section, read, opened, served, outcome>>
      /\ roster' = DOMAIN config.clients \ Starting!Tokenless(config)
  BY DEF Starting!Roster
<1>2. Starting!Refusals(config) = {}
  BY <1>1 DEF Starting!Validated
<1>3. section = Len(config.sections) + 1
  BY <1>1, Configured DEF Starting!TypeOK
<1>4. Starting!TypeOK'
  BY <1>1 DEF Starting!TypeOK, Starting!Places
<1>5. Starting!Validated' /\ Starting!Ended'
  BY <1>1, <1>2, GoesOn
<1>6. Starting!KeyChecked'
  BY <1>1 DEF Starting!KeyChecked, Starting!Loaded, Starting!Listening
<1>7. ASSUME NEW i \in Starting!Tokenless(config)
      PROVE  anonymous' = config.clients[i].name
  <2>1. DOMAIN config.clients \subseteq Nat
    BY Configured DEF Starting!TypeOK
  <2>2. ASSUME NEW j \in Starting!Tokenless(config) PROVE j = i
    BY <1>2, <2>1, NothingRefused DEF Starting!Tokenless
  <2>3. Starting!Tokenless(config) = {i} /\ i \in Nat
    BY <2>1, <2>2 DEF Starting!Tokenless
  <2> HIDE DEF Starting!IndInv
  <2> QED
    BY <2>3 DEF Starting!Roster
<1>8. Starting!SectionsServed' /\ Starting!NothingServedYet'
  BY <1>1, <1>3, <1>7 DEF Starting!SectionsServed, Starting!NothingServedYet, Starting!Loaded,
      Starting!Listening
<1> QED
  BY <1>4, <1>5, <1>6, <1>8

\* Pods are let in, or the port is bound.
LEMMA StartingBind ==
    ASSUME Starting!Bounds, Starting!IndInv,
           Starting!Kubernetes \/ Starting!InCluster \/ Starting!Bind
    PROVE  Starting!IndInv'
<1> DEFINE Kept == UNCHANGED <<config, files, rotations, section, read, served, roster,
                               anonymous, opened>>
<1>0. /\ Starting!Refusals(config) = {} /\ UNCHANGED opened
      /\ startAt \in {"kubernetes", "cluster", "bind"}
  BY DEF Starting!IndInv, Starting!Validated, Starting!Kubernetes, Starting!InCluster,
         Starting!Bind
<1>1. CASE Starting!Fail("refused") \/ Starting!Fail("bind")
  BY <1>0, <1>1, StartFails
<1>2. CASE Kept /\ UNCHANGED outcome /\ startAt' \in {"cluster", "bind"}
  <2> USE DEF Starting!IndInv
  <2>1. Starting!TypeOK'
    BY <1>2 DEF Starting!TypeOK, Starting!Places
  <2>2. Starting!Validated' /\ Starting!Ended'
    BY <1>0, <1>2, GoesOn
  <2>3. Starting!KeyChecked'
    BY <1>0, <1>2 DEF Starting!KeyChecked, Starting!Loaded, Starting!Listening
  <2>4. Starting!SectionsServed' /\ Starting!NothingServedYet'
    BY <1>0, <1>2 DEF Starting!SectionsServed, Starting!NothingServedYet, Starting!Loaded,
                      Starting!Listening
  <2> QED
    BY <2>1, <2>2, <2>3, <2>4
<1>3. CASE Kept /\ startAt' = "over" /\ outcome' = "listening"
  <2> USE DEF Starting!IndInv
  <2>1. Starting!TypeOK'
    BY <1>3 DEF Starting!TypeOK, Starting!Places
  <2>2. Starting!Validated' /\ Starting!Ended'
    BY <1>0, <1>3 DEF Starting!Validated, Starting!Ended
  <2>3. Starting!KeyChecked'
    BY <1>0, <1>3 DEF Starting!KeyChecked, Starting!Loaded, Starting!Listening
  <2>4. Starting!SectionsServed' /\ Starting!NothingServedYet'
    BY <1>0, <1>3 DEF Starting!SectionsServed, Starting!NothingServedYet, Starting!Loaded,
                      Starting!Listening
  <2> QED
    BY <2>1, <2>2, <2>3, <2>4
<1> QED
  BY <1>0, <1>1, <1>2, <1>3 DEF Starting!Kubernetes, Starting!InCluster, Starting!Bind

\* No step of a start disturbs the invariant.
LEMMA StartingNext ==
    Starting!Bounds /\ Starting!IndInv /\ [Starting!Next]_(Starting!vars) => Starting!IndInv'
<1> SUFFICES ASSUME Starting!Bounds, Starting!IndInv, [Starting!Next]_(Starting!vars)
             PROVE  Starting!IndInv'
  OBVIOUS
<1>1. ASSUME NEW name \in {"certificate", "key"}, Starting!Rotate(name)
      PROVE  Starting!IndInv'
  BY <1>1, StartingRotate
<1>2. CASE Starting!Validate
  BY <1>2, StartingValidate
<1>3. CASE Starting!ReadCertificate \/ Starting!OpenKey
  BY <1>3, StartingOpenFile DEF Starting!ReadCertificate, Starting!OpenKey
<1>4. CASE Starting!CheckPermissions \/ Starting!MatchKey
  BY <1>4, StartingKey
<1>5. CASE Starting!LoadSection
  BY <1>5, StartingLoadSection
<1>6. CASE Starting!WatchSection
  BY <1>6, StartingWatchSection
<1>7. CASE Starting!Roster
  BY <1>7, StartingRoster
<1>8. CASE Starting!Kubernetes \/ Starting!InCluster \/ Starting!Bind
  BY <1>8, StartingBind
<1>9. CASE UNCHANGED Starting!vars
  <2> USE <1>9 DEF Starting!IndInv, Starting!vars
  <2>1. Starting!TypeOK'
    BY DEF Starting!TypeOK
  <2>2. Starting!Validated' /\ Starting!KeyChecked'
    BY DEF Starting!Validated, Starting!KeyChecked, Starting!Listening
  <2>3. Starting!SectionsServed' /\ Starting!NothingServedYet' /\ Starting!Ended'
    BY DEF Starting!SectionsServed, Starting!NothingServedYet, Starting!Ended,
           Starting!Listening
  <2> QED
    BY <2>1, <2>2, <2>3
<1> QED
  BY <1>1, <1>2, <1>3, <1>4, <1>5, <1>6, <1>7, <1>8, <1>9 DEF Starting!Next

\* The invariant always holds.
LEMMA StartingInv == Starting!Bounds => (Starting!Spec => []Starting!IndInv)
<1> SUFFICES ASSUME Starting!Bounds PROVE Starting!Spec => []Starting!IndInv
  OBVIOUS
<1>1. Starting!Init => Starting!IndInv
  BY StartingInit
<1>2. Starting!IndInv /\ [Starting!Next]_(Starting!vars) => Starting!IndInv'
  BY StartingNext
<1> QED
  BY <1>1, <1>2, PTL DEF Starting!Spec

\* Not a file, a section or a watcher is opened for a configuration that would have let
\* somebody in who was not meant to be (ServerConfig::validate, before Server::start).
THEOREM OpenedOnlyWhenSafe == Starting!Spec => []NothingIsOpenedForTheWorld
<1> Starting!Bounds
  BY ServerBounds
<1>1. Starting!IndInv => NothingIsOpenedForTheWorld
  <2> SUFFICES ASSUME Starting!IndInv, opened # {} PROVE Starting!MayBeOpened
    BY DEF NothingIsOpenedForTheWorld, Starting!NothingIsOpenedForTheWorld
  <2>1. Starting!Refusals(config) = {}
    BY DEF Starting!IndInv, Starting!Validated
  <2>2. config.wrong \subseteq Starting!Wrongs
    BY DEF Starting!IndInv, Starting!TypeOK, Starting!Bounds
  <2>3. Starting!Tokenless(config) # {} => config.allow_anonymous
    BY <2>1, NothingRefused DEF Starting!Tokenless
  <2>4. \A i \in DOMAIN config.clients : config.clients[i].token \notin WeakTokens
    BY <2>1, NothingRefused
  <2>5. /\ config.tls \/ config.bind = "loopback" \/ config.insecure
        /\ ~(config.tls /\ (config.insecure \/ config.wrong # {} \/ "tls" \notin Features))
    BY <2>1, <2>2, NothingRefused
  <2> QED
    BY <2>3, <2>4, <2>5 DEF Starting!MayBeOpened
<1> QED
  BY <1>1, StartingInv, PTL

\* A server that loaded its sections, or listens, does so with a key that is its
\* certificate's and that nobody else could read when it was opened (Tls::load).
THEOREM KeyIsChecked == Starting!Spec => []KeyIsPrivateAndMatches
<1> Starting!Bounds
  BY ServerBounds
<1>1. Starting!IndInv => KeyIsPrivateAndMatches
  BY DEF Starting!IndInv, Starting!KeyChecked, Starting!Loaded, Starting!Listening,
         KeyIsPrivateAndMatches, Starting!KeyIsPrivateAndMatches
<1> QED
  BY <1>1, StartingInv, PTL

\* Every client of a server that listens is told from every other one by its token, and
\* every section stands behind its own route (Roster, load_section).
THEOREM ListensAsConfigured == Starting!Spec => []ServesAsConfigured
<1> Starting!Bounds
  BY ServerBounds
<1>1. Starting!IndInv => ServesAsConfigured
  <2> SUFFICES ASSUME Starting!IndInv, outcome = "listening" PROVE ServesAsConfigured
    BY DEF ServesAsConfigured, Starting!ServesAsConfigured
  <2> DEFINE client(i) == config.clients[i]
             sectionOf(i) == config.sections[i]
  <2>1. Starting!Refusals(config) = {}
    BY DEF Starting!IndInv, Starting!Validated, Starting!Listening
  <2>2. /\ DOMAIN config.sections = 1 .. Len(config.sections)
        /\ Len(config.sections) \in Nat
        /\ DOMAIN config.clients \subseteq Nat
    BY Configured DEF Starting!IndInv, Starting!TypeOK
  <2>3. /\ section = Len(config.sections) + 1
        /\ roster = DOMAIN config.clients \ Starting!Tokenless(config)
        /\ \A i \in Starting!Tokenless(config) : anonymous = client(i).name
        /\ \A i \in 1 .. section - 1 : Starting!Pair(sectionOf(i)) \in DOMAIN served
                                      /\ served[Starting!Pair(sectionOf(i))] = i
    BY DEF Starting!IndInv, Starting!SectionsServed, Starting!Listening
  <2>4. \A i \in DOMAIN config.sections :
           /\ Starting!Pair(sectionOf(i)) \in DOMAIN served
           /\ served[Starting!Pair(sectionOf(i))] = i
    BY <2>2, <2>3
  <2>5. ASSUME NEW i \in DOMAIN config.clients
        PROVE  client(i).name = IF client(i).token = Starting!None THEN anonymous
                                ELSE Starting!TakenFor(client(i).token)
    <3>1. CASE client(i).token = Starting!None
      BY <2>3, <3>1 DEF Starting!Tokenless
    <3>2. CASE client(i).token # Starting!None
      <4>1. i \in roster
        BY <2>3, <3>2 DEF Starting!Tokenless
      <4>2. ASSUME NEW j \in roster, client(j).token = client(i).token PROVE j = i
        <5>1. j \in DOMAIN config.clients /\ i \in Nat /\ j \in Nat
          BY <2>2, <2>3, <4>2
        <5>2. ~(i < j) /\ ~(j < i)
          BY <2>1, <3>2, <4>2, <5>1, NothingRefused DEF Starting!DuplicateToken
        <5> QED
          BY <5>1, <5>2
      <4>3. {j \in roster : client(j).token = client(i).token} = {i} /\ i \in Nat
        BY <2>2, <4>1, <4>2
      <4> QED
        BY <3>2, <4>3 DEF Starting!TakenFor
    <3> QED
      BY <3>1, <3>2
  <2>6. ASSUME NEW i \in DOMAIN config.clients, NEW a \in client(i).applications
        PROVE  \E pair \in DOMAIN served : pair[1] = a
    <3>1. PICK j \in DOMAIN config.sections : sectionOf(j).application = a
      BY <2>1, NothingRefused
    <3>2. Starting!Pair(sectionOf(j))[1] = a
      BY <3>1 DEF Starting!Pair
    <3> QED
      BY <2>4, <3>2
  <2>7. ASSUME NEW i \in DOMAIN config.clients, NEW j \in DOMAIN config.clients,
               client(i).name = client(j).name
        PROVE  i = j
    <3>1. i \in Nat /\ j \in Nat /\ 1 <= i /\ 1 <= j
      BY Configured DEF Starting!IndInv, Starting!TypeOK
    <3>2. ~(i < j) /\ ~(j < i)
      BY <2>1, <2>7, <3>1, NothingRefused
    <3> QED
      BY <3>1, <3>2
  <2>8. \A i \in DOMAIN config.sections :
           {sectionOf(i).application, sectionOf(i).profile} \subseteq Names
    BY <2>1, NothingRefused
  <2> QED
    BY <2>4, <2>5, <2>6, <2>7, <2>8 DEF ServesAsConfigured, Starting!ServesAsConfigured
<1> QED
  BY <1>1, StartingInv, PTL

-----------------------------------------------------------------------------
(* The connection of a client.                                              *)

\* Whatever a client does next, it has no more time than was left.
LEMMA ClientNext ==
    Client!Bounds /\ Client!Budgeted /\ [Client!Next]_(Client!vars) => Client!Budgeted'
<1> SUFFICES ASSUME Client!Bounds, Client!Budgeted, [Client!Next]_(Client!vars)
             PROVE  Client!Budgeted'
  OBVIOUS
<1>0. TIMEOUT \in Nat /\ SLICE \in Nat /\ elapsed \in 0 .. TIMEOUT /\ deadline = TIMEOUT
      /\ stopping \in 0 .. SLICE + 1
  BY DEF Client!Bounds, Client!Budgeted
<1> DEFINE Paused == UNCHANGED <<elapsed, deadline, stopping>>
<1>1. CASE Paused
  BY <1>1 DEF Client!Budgeted
<1>2. CASE Client!RotateToken \/ Client!LoseToken \/ Client!Take \/ Client!Chunk
  BY <1>1, <1>2 DEF Client!RotateToken, Client!LoseToken, Client!Take, Client!Chunk
<1>3. CASE Client!StopWatch
  BY <1>0, <1>3 DEF Client!StopWatch, Client!Budgeted
<1>4. CASE Client!Tick
  <2>1. /\ elapsed' = elapsed \/ (elapsed' = elapsed + 1 /\ elapsed < deadline)
        /\ UNCHANGED deadline
    BY <1>4 DEF Client!Tick, Client!Waiting, Client!attempt, Client!pieces
  <2>2. stopping' = stopping \/ (stopping' = stopping + 1 /\ ~(stopping > SLICE))
    BY <1>4 DEF Client!Tick, Client!StopDue, Client!Waiting, Client!attempt, Client!pieces
  <2> QED
    BY <1>0, <2>1, <2>2 DEF Client!Budgeted
<1>5. ASSUME NEW next, Client!Go(next) PROVE Client!Budgeted'
  BY <1>0, <1>5 DEF Client!Go, Client!Left, Client!Budgeted
<1>6. CASE Client!Connected \/ Client!HandshakeDone \/ Client!ConnectionFails
             \/ Client!OutOfTime \/ Client!Silence \/ Client!StopSeen
  BY <1>5, <1>6 DEF Client!Connected, Client!HandshakeDone, Client!ConnectionFails,
      Client!OutOfTime, Client!Silence, Client!StopSeen
<1>7. CASE Client!Bearer \/ Client!Answered
  BY <1>5, <1>7 DEF Client!Bearer, Client!Answered
<1>8. CASE Client!TurnedAway \/ Client!BodyRead \/ Client!StreamCloses
  BY <1>5, <1>8 DEF Client!TurnedAway, Client!BodyRead, Client!StreamCloses
<1>9. CASE UNCHANGED Client!vars
  BY <1>1, <1>9 DEF Client!vars
<1> QED
  BY <1>2, <1>3, <1>4, <1>6, <1>7, <1>8, <1>9 DEF Client!Next

\* A client waits for nothing past its deadline, and does not wait for a stream that was
\* stopped (Budget, Connection::open, Events::next).
THEOREM ClientGivesUp == Client!Spec => []DeadlinesAreKept
<1> Client!Bounds
  BY ServerBounds
<1>1. Client!Init => Client!Budgeted
  BY DEF Client!Bounds, Client!Init, Client!Budgeted, Client!Nothing
<1>2. Client!Budgeted => DeadlinesAreKept
  BY DEF Client!Bounds, Client!Budgeted, DeadlinesAreKept, Client!DeadlinesAreKept
<1> QED
  BY <1>1, <1>2, ClientNext, PTL DEF Client!Spec

-----------------------------------------------------------------------------
(* Induction: what holds of 0 and of the next of each holds of every       *)
(* number, there being a least of those it does not hold of; so a function *)
(* that is defined by recursion is what its equation says.                 *)

LEMMA Least ==
    ASSUME NEW T, T \subseteq Nat, T # {}
    PROVE  \E m \in T : \A n \in T : m <= n
<1>1. IsWellFoundedOn({ss \in Nat \X Nat : ss[1] < ss[2]}, Nat)
  BY NatLessThanWellFounded DEF OpToRel
<1>2. PICK m \in T : \A n \in T : <<n, m>> \notin {ss \in Nat \X Nat : ss[1] < ss[2]}
  BY <1>1, WFMin
<1>3. ASSUME NEW n \in T PROVE m <= n
  <2>1. <<n, m>> \in Nat \X Nat /\ <<n, m>>[1] = n /\ <<n, m>>[2] = m
    OBVIOUS
  <2>2. ~(n < m)
    BY <1>2, <2>1
  <2> QED
    BY <2>2
<1> QED
  BY <1>3

LEMMA Upwards ==
    ASSUME NEW S, 0 \in S, \A n \in Nat : n \in S => n + 1 \in S
    PROVE  Nat \subseteq S
<1> SUFFICES ASSUME Nat \ S # {} PROVE FALSE
  OBVIOUS
<1>1. PICK m \in Nat \ S : \A n \in Nat \ S : m <= n
  BY Least
<1>2. m # 0 /\ m - 1 \in Nat
  BY <1>1
<1>3. m - 1 \in S
  BY <1>1, <1>2
<1> QED
  BY <1>1, <1>2, <1>3

\* f is what `base' becomes, one step of `next' after the other.
Iteration(f, V, base, n, next) ==
    /\ f \in [0 .. n -> V]
    /\ f[0] = base /\ \A i \in 1 .. n : f[i] = next[i][f[i - 1]]

LEMMA Iterates ==
    ASSUME NEW V, NEW base \in V, NEW n \in Nat, NEW next \in [1 .. n -> [V -> V]]
    PROVE  \E f : Iteration(f, V, base, n, next)
<1> DEFINE Is(f, m) ==
        /\ f \in [0 .. m -> V]
        /\ f[0] = base /\ \A i \in 1 .. m : f[i] = next[i][f[i - 1]]
           S == {m \in Nat : m <= n => \E f \in [0 .. m -> V] : Is(f, m)}
<1>1. 0 \in S
  <2>1. Is([i \in 0 .. 0 |-> base], 0)
    OBVIOUS
  <2> QED
    BY <2>1
<1>2. ASSUME NEW m \in Nat, m \in S PROVE m + 1 \in S
  <2> SUFFICES ASSUME m + 1 <= n PROVE \E f \in [0 .. m + 1 -> V] : Is(f, m + 1)
    OBVIOUS
  <2>1. PICK f \in [0 .. m -> V] : Is(f, m)
    BY <1>2
  <2> DEFINE g == [i \in 0 .. m + 1 |-> IF i = m + 1 THEN next[m + 1][f[m]] ELSE f[i]]
  <2>2. next[m + 1][f[m]] \in V
    BY <2>1
  <2>3. g \in [0 .. m + 1 -> V]
    BY <2>1, <2>2
  <2>4. g[0] = base
    BY <2>1
  <2>5. ASSUME NEW i \in 1 .. m + 1 PROVE g[i] = next[i][g[i - 1]]
    <3>1. i - 1 \in 0 .. m /\ g[i - 1] = f[i - 1]
      OBVIOUS
    <3>2. CASE i = m + 1
      <4>1. i - 1 = m /\ g[m + 1] = next[m + 1][f[m]]
        BY <3>2
      <4> HIDE DEF g
      <4> QED
        BY <3>1, <3>2, <4>1
    <3>3. CASE i \in 1 .. m
      BY <2>1, <3>1, <3>3
    <3>4. i = m + 1 \/ i \in 1 .. m
      OBVIOUS
    <3> HIDE DEF g
    <3> QED
      BY <3>2, <3>3, <3>4
  <2> QED
    BY <2>3, <2>4, <2>5
<1> HIDE DEF S
<1>3. n \in S
  BY <1>1, <1>2, Upwards
<1>4. \E f \in [0 .. n -> V] : Is(f, n)
  <2> HIDE DEF Is
  <2> QED
    BY <1>3 DEF S
<1> QED
  BY <1>4 DEF Iteration

-----------------------------------------------------------------------------
(* What an event is on the wire, and what is read of it.                   *)

LEMMA OneAtMost == \A n \in Nat : n <= 1 => n = 0 \/ n = 1
  OBVIOUS

LEMMA Joined ==
    ASSUME NEW V, NEW s \in Seq(V), NEW t \in Seq(V)
    PROVE  /\ s \o t \in Seq(V) /\ Len(s) \in Nat /\ Len(t) \in Nat
           /\ Len(s \o t) = Len(s) + Len(t)
           /\ \A i \in 1 .. Len(s) : (s \o t)[i] = s[i]
           /\ \A i \in 1 .. Len(t) : (s \o t)[Len(s) + i] = t[i]
<1>1. s \o t \in Seq(V) /\ Len(s) \in Nat /\ Len(t) \in Nat /\ Len(s \o t) = Len(s) + Len(t)
  OBVIOUS
<1>2. \A i \in 1 .. Len(s) : (s \o t)[i] = s[i]
  OBVIOUS
<1>3. ASSUME NEW i \in 1 .. Len(t) PROVE (s \o t)[Len(s) + i] = t[i]
  <2>1. Len(s) + i \in 1 .. Len(s) + Len(t) /\ Len(s) + i > Len(s) /\ Len(s) + i - Len(s) = i
    BY <1>1
  <2> QED
    BY <2>1
<1> QED
  BY <1>1, <1>2, <1>3

\* What is said of an event a server may write.
AnEvent(e, V) ==
    /\ e \in [id : Seq(V), data : Seq(V), carried : BOOLEAN]
    /\ Len(e.id) <= 1
    /\ e.carried <=> (e.id # << >> \/ e.data # << >>)

\* The lines it may be made of.
LinesOf(V) == ({"id", "data"} \X V) \cup {<<"event">>, <<"comment">>}
Symbols(V) == LinesOf(V) \cup {Client!Newline}

LEMMA LinesAre ==
    ASSUME NEW V, NEW e, AnEvent(e, V)
    PROVE  LET lines == Client!Lines(e)
               n == Len(e.id) IN
           /\ lines \in Seq(LinesOf(V)) /\ Len(lines) \in Nat \ {0}
           /\ ~e.carried => lines = << <<"comment">> >>
           /\ e.carried =>
                  /\ Len(lines) = n + 1 + Len(e.data)
                  /\ n = 1 => lines[1] = <<"id", e.id[1]>>
                  /\ lines[n + 1] = <<"event">>
                  /\ \A i \in 1 .. Len(e.data) : lines[n + 1 + i] = <<"data", e.data[i]>>
<1> DEFINE lines == Client!Lines(e)
           n == Len(e.id)
           ids == [i \in DOMAIN e.id |-> <<"id", e.id[i]>>]
           name == << <<"event">> >>
           datas == [i \in DOMAIN e.data |-> <<"data", e.data[i]>>]
<1>1. e.id \in Seq(V) /\ e.data \in Seq(V) /\ n \in 0 .. 1
  <2>1. e.id \in Seq(V) /\ e.data \in Seq(V) /\ Len(e.id) <= 1
    BY DEF AnEvent
  <2>2. n \in Nat
    BY <2>1
  <2>3. n = 0 \/ n = 1
    BY <2>1, <2>2, OneAtMost
  <2> QED
    BY <2>1, <2>3
<1>2. ids \in Seq(LinesOf(V)) /\ Len(ids) = n
  BY <1>1 DEF LinesOf
<1>3. datas \in Seq(LinesOf(V)) /\ Len(datas) = Len(e.data)
  BY <1>1 DEF LinesOf
<1>4. CASE ~e.carried
  <2>1. lines = << <<"comment">> >>
    BY <1>4 DEF Client!Lines
  <2>2. lines \in Seq(LinesOf(V)) /\ Len(lines) = 1
    BY <2>1 DEF LinesOf
  <2>3. Len(lines) \in Nat \ {0}
    BY <2>2
  <2> HIDE DEF lines
  <2> QED
    BY <1>4, <2>1, <2>2, <2>3 DEF lines
<1>5. CASE e.carried
  <2>1. name \in Seq(LinesOf(V)) /\ Len(name) = 1
    BY DEF LinesOf
  <2> DEFINE first == ids \o name
  <2>2. lines = first \o datas
    BY <1>5 DEF Client!Lines
  <2>3. \A i \in 1 .. n : ids[i] = <<"id", e.id[i]>>
    BY <1>1
  <2>4. \A i \in 1 .. Len(e.data) : datas[i] = <<"data", e.data[i]>>
    BY <1>1
  <2>5. name[1] = <<"event">>
    OBVIOUS
  <2> HIDE DEF ids, datas, name, lines
  <2>6. first \in Seq(LinesOf(V)) /\ Len(first) = n + 1 /\ Len(datas) \in Nat
    <3>1. first \in Seq(LinesOf(V)) /\ Len(first) = Len(ids) + Len(name)
      BY <1>2, <2>1, Joined
    <3>2. Len(datas) \in Nat
      BY <1>3
    <3> HIDE DEF first, n
    <3> QED
      BY <1>2, <2>1, <3>1, <3>2
  <2>7. first[n + 1] = name[1] /\ \A i \in 1 .. n : first[i] = ids[i]
    <3>1. 1 \in 1 .. Len(name)
      BY <2>1
    <3> QED
      BY <1>2, <2>1, <3>1, Joined
  <2> HIDE DEF first
  <2>9. lines \in Seq(LinesOf(V)) /\ Len(lines) = n + 1 + Len(e.data)
    <3>1. lines \in Seq(LinesOf(V)) /\ Len(lines) = Len(first) + Len(datas)
      BY <1>3, <2>2, <2>6, Joined
    <3> HIDE DEF n
    <3> QED
      BY <1>3, <2>6, <3>1
  <2>10. \A i \in 1 .. n + 1 : lines[i] = first[i]
    BY <1>3, <2>2, <2>6, Joined
  <2>11. \A i \in 1 .. Len(e.data) : lines[n + 1 + i] = datas[i]
    BY <1>3, <2>2, <2>6, Joined
  <2>12. n = 1 => lines[1] = <<"id", e.id[1]>>
    BY <2>3, <2>7, <2>10
  <2>13. lines[n + 1] = <<"event">>
    BY <1>1, <2>5, <2>7, <2>10
  <2>14. \A i \in 1 .. Len(e.data) : lines[n + 1 + i] = <<"data", e.data[i]>>
    BY <2>4, <2>11
  <2>15. Len(lines) \in Nat \ {0}
    <3> DEFINE m == Len(e.data)
    <3>1. m \in Nat
      BY <1>3, <2>6
    <3> HIDE DEF n, m
    <3>2. n + 1 + m \in Nat \ {0}
      BY <1>1, <3>1
    <3> USE DEF m
    <3> QED
      BY <2>9, <3>2
  <2> QED
    BY <1>5, <2>9, <2>12, <2>13, <2>14, <2>15 DEF lines
<1> QED
  BY <1>4, <1>5

\* The bytes of an event: its lines, each ended, and an end; and nothing is a line between
\* two ends but at its own.
LEMMA WrittenIs ==
    ASSUME NEW V, NEW e, AnEvent(e, V)
    PROVE  LET lines == Client!Lines(e)
               n == Len(lines)
               bytes == Client!Written(e) IN
           /\ bytes \in Seq(Symbols(V)) /\ Len(bytes) = 2 * n + 1
           /\ \A j \in 1 .. n : bytes[2 * j - 1] = lines[j] /\ bytes[2 * j] = Client!Newline
           /\ bytes[2 * n + 1] = Client!Newline
           /\ Client!Complete(bytes) = {2 * n + 1}
<1> DEFINE lines == Client!Lines(e)
           n == Len(lines)
           bytes == Client!Written(e)
<1>1. /\ n \in Nat \ {0} /\ DOMAIN lines = 1 .. n
      /\ \A i \in 1 .. n : lines[i] \in LinesOf(V)
  <2>1. lines \in Seq(LinesOf(V)) /\ n \in Nat \ {0}
    BY LinesAre
  <2> HIDE DEF lines
  <2> QED
    BY <2>1
<1>2. bytes = [i \in 1 .. 2 * n + 1 |->
                  IF \E j \in 1 .. n : i = 2 * j - 1
                  THEN lines[CHOOSE j \in 1 .. n : i = 2 * j - 1]
                  ELSE Client!Newline]
  BY <1>1 DEF Client!Written
<1>3. bytes \in Seq(Symbols(V)) /\ Len(bytes) = 2 * n + 1 /\ DOMAIN bytes = 1 .. 2 * n + 1
  BY <1>1, <1>2 DEF Symbols
<1> HIDE DEF bytes, n, lines
<1>4. ASSUME NEW j \in 1 .. n PROVE bytes[2 * j - 1] = lines[j] /\ bytes[2 * j] = Client!Newline
  <2>1. 2 * j - 1 \in 1 .. 2 * n + 1 /\ 2 * j \in 1 .. 2 * n + 1
    BY <1>1
  <2>2. (CHOOSE k \in 1 .. n : 2 * j - 1 = 2 * k - 1) = j
    BY <1>1
  <2>3. bytes[2 * j - 1] = lines[j]
    BY <1>2, <2>1, <2>2
  <2>4. ~\E k \in 1 .. n : 2 * j = 2 * k - 1
    BY <1>1
  <2>5. bytes[2 * j] = Client!Newline
    BY <1>2, <2>1, <2>4
  <2> QED
    BY <2>3, <2>5
<1>5. bytes[2 * n + 1] = Client!Newline
  <2>1. ~\E k \in 1 .. n : 2 * n + 1 = 2 * k - 1
    BY <1>1
  <2> QED
    BY <1>1, <1>2, <2>1
<1>6. 2 * n + 1 \in Client!Complete(bytes)
  <2>1. n \in 1 .. n /\ 2 * n + 1 - 1 = 2 * n /\ 2 * n + 1 \in 2 .. 2 * n + 1
    BY <1>1
  <2> QED
    BY <1>3, <1>4, <1>5, <2>1 DEF Client!Complete
<1>7. ASSUME NEW i \in Client!Complete(bytes) PROVE i = 2 * n + 1
  <2>1. i \in 2 .. 2 * n + 1 /\ bytes[i - 1] = Client!Newline /\ bytes[i] = Client!Newline
    BY <1>3 DEF Client!Complete
  <2>2. ASSUME NEW j \in 1 .. n PROVE bytes[2 * j - 1] # Client!Newline
    <3>1. lines[j] # Client!Newline
      BY <1>1 DEF LinesOf, Client!Newline
    <3> QED
      BY <1>4, <3>1
  <2>3. CASE \E j \in 1 .. n : i = 2 * j - 1
    BY <2>1, <2>2, <2>3
  <2>4. CASE \E j \in 1 .. n : i - 1 = 2 * j - 1
    BY <2>1, <2>2, <2>4
  <2>5. CASE i # 2 * n + 1
    <3>1. i \div 2 \in Nat /\ (i = 2 * (i \div 2) \/ i = 2 * (i \div 2) + 1)
      BY <1>1, <2>1
    <3>2. PICK j \in Nat : i = 2 * j \/ i = 2 * j - 1
      <4>1. i = 2 * (i \div 2) + 1 => i \div 2 + 1 \in Nat /\ i = 2 * (i \div 2 + 1) - 1
        BY <3>1
      <4> QED
        BY <3>1, <4>1
    <3>3. j \in 1 .. n
      BY <1>1, <2>1, <2>5, <3>2
    <3> QED
      BY <2>3, <2>4, <3>2, <3>3
  <2> QED
    BY <2>5
<1> QED
  BY <1>3, <1>4, <1>5, <1>6, <1>7 DEF bytes, n, lines

\* What a stream is, event by event.
LEMMA BytesAre ==
    ASSUME NEW V, NEW written, Len(written) \in Nat,
           \A i \in 1 .. Len(written) : AnEvent(written[i], V)
    PROVE  LET bytes == Client!Bytes(written) IN
           /\ bytes \in [0 .. Len(written) -> Seq(Symbols(V))]
           /\ bytes[0] = << >>
           /\ \A i \in 1 .. Len(written) :
                  bytes[i] = bytes[i - 1] \o Client!Written(written[i])
<1> DEFINE n == Len(written)
           S == Seq(Symbols(V))
           next == [i \in 1 .. n |-> [s \in S |-> s \o Client!Written(written[i])]]
           Up(f) == [m \in 0 .. n |->
               IF m = 0 THEN << >> ELSE f[m - 1] \o Client!Written(written[m])]
           bytes == CHOOSE f : f = Up(f)
           empty == << >>
<1>1. next \in [1 .. n -> [S -> S]]
  <2>1. ASSUME NEW s \in S, NEW i \in 1 .. n PROVE s \o Client!Written(written[i]) \in S
    <3>1. Client!Written(written[i]) \in S
      BY WrittenIs
    <3> QED
      BY <3>1, Joined
  <2> HIDE DEF S
  <2> QED
    BY <2>1
<1>2. PICK f \in [0 .. n -> S] :
         f[0] = empty /\ \A i \in 1 .. n : f[i] = next[i][f[i - 1]]
  <2>1. empty \in S
    OBVIOUS
  <2> HIDE DEF n, S, next, empty
  <2>2. \E f : Iteration(f, S, empty, n, next)
    BY <1>1, <2>1, Iterates DEF n
  <2> QED
    BY <2>2 DEF Iteration
<1>3. ASSUME NEW i \in 1 .. n PROVE f[i] = f[i - 1] \o Client!Written(written[i])
  <2>1. i - 1 \in 0 .. n
    OBVIOUS
  <2>2. f[i - 1] \in S
    BY <1>2, <2>1
  <2> HIDE DEF S
  <2> QED
    BY <1>2, <2>2
<1>4. f = Up(f)
  <2> HIDE DEF S
  <2>1. ASSUME NEW m \in 0 .. n PROVE f[m] = Up(f)[m]
    <3>1. Up(f)[m] = IF m = 0 THEN << >> ELSE f[m - 1] \o Client!Written(written[m])
      OBVIOUS
    <3>2. CASE m = 0
      BY <1>2, <3>1, <3>2
    <3>3. CASE m # 0
      <4>1. m \in 1 .. n
        BY <3>3
      <4> HIDE DEF Up, n
      <4> QED
        BY <1>3, <3>1, <3>3, <4>1
    <3> QED
      BY <3>2, <3>3
  <2> QED
    BY <1>2, <2>1
<1>5. bytes = Up(bytes)
  BY <1>4
<1>6. Client!Bytes(written) = bytes
  BY DEF Client!Bytes
<1> HIDE DEF bytes
<1>7. /\ bytes[0] = << >>
      /\ \A i \in 1 .. n : bytes[i] = bytes[i - 1] \o Client!Written(written[i])
      /\ bytes = [m \in 0 .. n |-> bytes[m]]
  BY <1>5
<1>8. \A i \in 0 .. n : bytes[i] \in S
  <2> DEFINE T == {i \in Nat : i <= n => bytes[i] \in S}
  <2>1. 0 \in T
    <3>1. << >> \in S
      OBVIOUS
    <3> HIDE DEF S
    <3> QED
      BY <1>7, <3>1
  <2>2. ASSUME NEW i \in Nat, i \in T PROVE i + 1 \in T
    <3> SUFFICES ASSUME i + 1 <= n PROVE bytes[i + 1] \in S
      OBVIOUS
    <3>1. i + 1 \in 1 .. n /\ i + 1 - 1 = i /\ bytes[i] \in S
      BY <2>2
    <3>2. bytes[i + 1] = bytes[i] \o Client!Written(written[i + 1])
      <4> DEFINE k == i + 1
      <4>1. k \in 1 .. n /\ k - 1 = i
        BY <3>1
      <4> HIDE DEF k, n
      <4>2. bytes[k] = bytes[k - 1] \o Client!Written(written[k])
        BY <1>7, <4>1
      <4> QED
        BY <4>1, <4>2 DEF k
    <3>3. Client!Written(written[i + 1]) \in S
      BY <3>1, WrittenIs
    <3> QED
      BY <3>1, <3>2, <3>3, Joined
  <2> HIDE DEF T
  <2>3. Nat \subseteq T
    BY <2>1, <2>2, Upwards
  <2> QED
    BY <2>3 DEF T
<1> QED
  BY <1>6, <1>7, <1>8

IsStream(written, V) ==
    Len(written) \in Nat /\ \A i \in 1 .. Len(written) : AnEvent(written[i], V)

Begins(s, t) ==
    /\ Len(s) \in Nat /\ Len(t) \in Nat /\ Len(s) <= Len(t)
    /\ \A p \in 1 .. Len(s) : t[p] = s[p]

\* The first events are the beginning of the stream.
LEMMA BytesGrow ==
    ASSUME NEW V, NEW written, IsStream(written, V),
           NEW i \in 0 .. Len(written), NEW j \in 0 .. Len(written), i <= j
    PROVE  Begins(Client!Bytes(written)[i], Client!Bytes(written)[j])
<1> DEFINE n == Len(written)
           S == Seq(Symbols(V))
           bytes == Client!Bytes(written)
           T == {d \in Nat : i + d <= n => Begins(bytes[i], bytes[i + d])}
<1>1. /\ bytes \in [0 .. n -> S]
      /\ \A k \in 1 .. n : bytes[k] = bytes[k - 1] \o Client!Written(written[k])
  BY BytesAre DEF IsStream
<1>2. \A k \in 0 .. n : Len(bytes[k]) \in Nat
  BY <1>1
<1> HIDE DEF bytes
<1>3. 0 \in T
  <2>1. i + 0 = i /\ Len(bytes[i]) \in Nat
    BY <1>2
  <2> QED
    BY <2>1 DEF Begins
<1>4. ASSUME NEW d \in Nat, d \in T PROVE d + 1 \in T
  <2> SUFFICES ASSUME i + (d + 1) <= n PROVE Begins(bytes[i], bytes[i + (d + 1)])
    OBVIOUS
  <2> DEFINE k == i + d
  <2>1. k \in 0 .. n /\ k + 1 \in 1 .. n /\ k + 1 - 1 = k /\ i + (d + 1) = k + 1
    OBVIOUS
  <2>2. Begins(bytes[i], bytes[k])
    BY <1>4, <2>1
  <2> HIDE DEF k
  <2>3. bytes[k + 1] = bytes[k] \o Client!Written(written[k + 1])
    <3> DEFINE m == k + 1
    <3>1. m \in 1 .. n /\ m - 1 = k
      BY <2>1
    <3> HIDE DEF m, n
    <3>2. bytes[m] = bytes[m - 1] \o Client!Written(written[m])
      BY <1>1, <3>1
    <3> QED
      BY <3>1, <3>2 DEF m
  <2>4. Client!Written(written[k + 1]) \in S /\ bytes[k] \in S
    <3>1. Client!Written(written[k + 1]) \in S
      BY <2>1, WrittenIs DEF IsStream
    <3> HIDE DEF S
    <3> QED
      BY <1>1, <2>1, <3>1
  <2> DEFINE s == bytes[k]
             t == Client!Written(written[k + 1])
  <2> HIDE DEF s, t
  <2>5. /\ Len(s) \in Nat /\ Len(t) \in Nat /\ Len(s \o t) = Len(s) + Len(t)
        /\ \A p \in 1 .. Len(s) : (s \o t)[p] = s[p]
    <3>1. s \in Seq(Symbols(V)) /\ t \in Seq(Symbols(V))
      BY <2>4 DEF s, t
    <3> QED
      BY <3>1, Joined
  <2>6. bytes[k + 1] = s \o t
    BY <2>3 DEF s, t
  <2>7. Begins(s, bytes[k + 1])
    BY <2>5, <2>6 DEF Begins
  <2>8. Begins(bytes[i], s)
    BY <2>2 DEF s
  <2>9. Len(bytes[i]) \in Nat /\ Len(bytes[k + 1]) \in Nat
    BY <1>2, <2>1
  <2>10. Begins(bytes[i], bytes[k + 1])
    BY <2>5, <2>7, <2>8, <2>9 DEF Begins
  <2> QED
    BY <2>1, <2>10
<1> HIDE DEF T
<1>5. Nat \subseteq T
  BY <1>3, <1>4, Upwards
<1>6. j - i \in Nat /\ i + (j - i) = j /\ j <= n
  OBVIOUS
<1>7. Begins(bytes[i], bytes[j])
  BY <1>5, <1>6 DEF T
<1> QED
  BY <1>7 DEF bytes

\* What a block says, line by line.
LEMMA ParseIs ==
    ASSUME NEW V, NEW block \in Seq(Symbols(V))
    PROVE  \E after :
               /\ after[0] = Client!Blank
               /\ \A i \in 1 .. Len(block) :
                      after[i] = Client!Understood(after[i - 1], block[i])
               /\ Client!Parse(block) = after[Len(block)]
<1> DEFINE n == Len(block)
           E == [id : Seq(V), data : Seq(V), carried : BOOLEAN]
           next == [i \in 1 .. n |-> [e \in E |-> Client!Understood(e, block[i])]]
           Up(f) == [m \in 0 .. n |->
               IF m = 0 THEN Client!Blank ELSE Client!Understood(f[m - 1], block[m])]
           after == CHOOSE f : f = Up(f)
<1>1. n \in Nat
  OBVIOUS
<1>2. Client!Blank \in E
  BY DEF Client!Blank
<1>3. next \in [1 .. n -> [E -> E]]
  <2>1. ASSUME NEW e \in E, NEW i \in 1 .. n PROVE Client!Understood(e, block[i]) \in E
    <3> DEFINE line == block[i]
    <3>1. line \in Symbols(V)
      OBVIOUS
    <3> HIDE DEF line
    <3>2. CASE line[1] = "id"
      <4>1. line[2] \in V
        BY <3>1, <3>2 DEF Symbols, LinesOf, Client!Newline
      <4>2. <<line[2]>> \in Seq(V)
        BY <4>1
      <4> QED
        BY <3>2, <4>2 DEF Client!Understood, line
    <3>3. CASE line[1] = "data"
      <4>1. line[2] \in V
        BY <3>1, <3>3 DEF Symbols, LinesOf, Client!Newline
      <4>2. Append(e.data, line[2]) \in Seq(V)
        BY <4>1
      <4> QED
        BY <3>3, <4>2 DEF Client!Understood, line
    <3>4. CASE line[1] # "id" /\ line[1] # "data"
      BY <3>4 DEF Client!Understood, line
    <3> QED
      BY <3>2, <3>3, <3>4
  <2> HIDE DEF E
  <2> QED
    BY <2>1
<1>4. PICK f \in [0 .. n -> E] :
         f[0] = Client!Blank /\ \A i \in 1 .. n : f[i] = next[i][f[i - 1]]
  <2> DEFINE blank == Client!Blank
  <2>1. blank \in E
    BY <1>2
  <2> HIDE DEF n, E, next, blank
  <2>2. \E f : Iteration(f, E, blank, n, next)
    BY <1>1, <1>3, <2>1, Iterates
  <2> QED
    BY <2>2 DEF Iteration, blank
<1>5. ASSUME NEW i \in 1 .. n PROVE f[i] = Client!Understood(f[i - 1], block[i])
  <2>1. i - 1 \in 0 .. n
    BY <1>1
  <2>2. f[i - 1] \in E
    BY <1>4, <2>1
  <2> HIDE DEF E
  <2> QED
    BY <1>4, <2>2
<1>6. f = Up(f)
  <2> HIDE DEF E
  <2>1. \A m \in 0 .. n : f[m] = Up(f)[m]
    BY <1>1, <1>4, <1>5
  <2> QED
    BY <1>4, <2>1
<1>7. after = Up(after)
  BY <1>6
<1>8. Client!Parse(block) = after[n]
  BY DEF Client!Parse
<1> HIDE DEF after
<1>9. /\ after[0] = Client!Blank
      /\ \A i \in 1 .. n : after[i] = Client!Understood(after[i - 1], block[i])
  BY <1>1, <1>7
<1> QED
  BY <1>8, <1>9

\* What is read of an event is the event.
LEMMA ReadAsWritten ==
    ASSUME NEW V, NEW e, AnEvent(e, V)
    PROVE  Client!Parse(Client!Written(e)) = e
<1> DEFINE lines == Client!Lines(e)
           m == Len(lines)
           n == Len(e.id)
           k == Len(e.data)
           block == Client!Written(e)
<1>1. /\ block \in Seq(Symbols(V)) /\ Len(block) = 2 * m + 1
      /\ \A j \in 1 .. m : block[2 * j - 1] = lines[j] /\ block[2 * j] = Client!Newline
      /\ block[2 * m + 1] = Client!Newline
  BY WrittenIs
<1>2. /\ m \in Nat \ {0}
      /\ ~e.carried => lines = << <<"comment">> >>
      /\ e.carried =>
             /\ m = n + 1 + k
             /\ n = 1 => lines[1] = <<"id", e.id[1]>>
             /\ lines[n + 1] = <<"event">>
             /\ \A i \in 1 .. k : lines[n + 1 + i] = <<"data", e.data[i]>>
  BY LinesAre
<1>3. /\ e = [id |-> e.id, data |-> e.data, carried |-> e.carried]
      /\ e.id \in Seq(V) /\ e.data \in Seq(V) /\ e.carried \in BOOLEAN
      /\ e.carried <=> (e.id # << >> \/ e.data # << >>)
  BY DEF AnEvent
<1>4. n \in Nat /\ k \in Nat /\ (n = 0 \/ n = 1)
  <2>1. n \in Nat /\ k \in Nat
    BY <1>3
  <2>2. n <= 1
    BY DEF AnEvent
  <2> QED
    BY <2>1, <2>2, OneAtMost
<1> HIDE DEF block, m, lines, n, k
<1>5. PICK after :
        /\ after[0] = Client!Blank
        /\ \A i \in 1 .. 2 * m + 1 : after[i] = Client!Understood(after[i - 1], block[i])
        /\ Client!Parse(block) = after[2 * m + 1]
  BY <1>1, ParseIs
<1>6. \A was : Client!Understood(was, Client!Newline) = was
  BY DEF Client!Understood, Client!Newline
<1>7. ASSUME NEW j \in 0 .. m - 1
      PROVE  after[2 * (j + 1)] = Client!Understood(after[2 * j], lines[j + 1])
  <2> DEFINE i == 2 * j + 1
  <2>1. /\ i \in 1 .. 2 * m + 1 /\ i + 1 \in 1 .. 2 * m + 1 /\ i - 1 = 2 * j
        /\ i + 1 - 1 = i /\ i + 1 = 2 * (j + 1) /\ i = 2 * (j + 1) - 1 /\ j + 1 \in 1 .. m
    BY <1>2
  <2>2. block[i] = lines[j + 1] /\ block[i + 1] = Client!Newline
    BY <1>1, <2>1
  <2> HIDE DEF i
  <2>3. after[i] = Client!Understood(after[i - 1], block[i])
    BY <1>5, <2>1
  <2>4. after[i + 1] = Client!Understood(after[i + 1 - 1], block[i + 1])
    BY <1>5, <2>1
  <2> QED
    BY <1>6, <2>1, <2>2, <2>3, <2>4
<1>8. after[2 * m + 1] = after[2 * m]
  <2> DEFINE i == 2 * m + 1
  <2>1. i \in 1 .. 2 * m + 1 /\ i - 1 = 2 * m
    BY <1>2
  <2> HIDE DEF i
  <2>2. after[i] = Client!Understood(after[i - 1], block[i])
    BY <1>5, <2>1
  <2> QED
    BY <1>1, <1>6, <2>1, <2>2 DEF i
<1>9. CASE ~e.carried
  <2>1. m = 1 /\ lines[1] = <<"comment">>
    BY <1>2, <1>9 DEF m
  <2>2. after[2 * (0 + 1)] = Client!Understood(after[2 * 0], lines[0 + 1])
    BY <1>7, <2>1
  <2>3. after[2 * 0] = Client!Blank /\ 0 + 1 = 1
    BY <1>5
  <2>4. Client!Understood(Client!Blank, <<"comment">>) = Client!Blank
    BY DEF Client!Understood
  <2>5. e = Client!Blank
    BY <1>3, <1>9 DEF Client!Blank
  <2> QED
    BY <1>5, <1>8, <2>1, <2>2, <2>3, <2>4, <2>5 DEF block
<1>10. CASE e.carried
  <2> DEFINE Read(j) ==
          [id |-> IF j = 0 THEN << >> ELSE e.id,
           data |-> IF j <= n + 1 THEN << >> ELSE SubSeq(e.data, 1, j - (n + 1)),
           carried |-> IF j > n + 1 \/ (j > 0 /\ n = 1) THEN TRUE ELSE FALSE]
         T == {j \in Nat : j <= m => after[2 * j] = Read(j)}
  <2>1. 0 \in T
    <3>1. Read(0) = Client!Blank
      <4>1. 0 <= n + 1 /\ ~(0 > n + 1 \/ (0 > 0 /\ n = 1))
        BY <1>4
      <4> QED
        BY <4>1 DEF Client!Blank
    <3>2. 2 * 0 = 0
      OBVIOUS
    <3> QED
      BY <1>5, <3>1, <3>2
  <2>2. ASSUME NEW j \in Nat, j \in T PROVE j + 1 \in T
    <3> SUFFICES ASSUME j + 1 <= m PROVE after[2 * (j + 1)] = Read(j + 1)
      OBVIOUS
    <3>1. j \in 0 .. m - 1 /\ after[2 * j] = Read(j)
      BY <1>2, <2>2
    <3> HIDE DEF Read
    <3>2. after[2 * (j + 1)] = Client!Understood(Read(j), lines[j + 1])
      BY <1>7, <3>1
    <3>3. CASE n = 1 /\ j = 0
      <4>1. lines[j + 1] = <<"id", e.id[1]>>
        BY <1>2, <1>10, <3>3
      <4>2. <<e.id[1]>> = e.id
        BY <1>3, <3>3 DEF n
      <4>3. Client!Understood(Read(j), <<"id", e.id[1]>>)
               = [id |-> <<e.id[1]>>, data |-> Read(j).data, carried |-> TRUE]
        BY DEF Client!Understood
      <4>4. Read(j).data = << >>
        BY <3>3 DEF Read
      <4>5. Read(j + 1) = [id |-> e.id, data |-> << >>, carried |-> TRUE]
        <5>1. j + 1 # 0 /\ j + 1 <= n + 1 /\ j + 1 > 0
          BY <3>3
        <5> QED
          BY <3>3, <5>1 DEF Read
      <4> QED
        BY <3>2, <4>1, <4>2, <4>3, <4>4, <4>5
    <3>4. CASE j = n
      <4>1. lines[j + 1] = <<"event">>
        BY <1>2, <1>10, <3>4
      <4>2. Client!Understood(Read(j), <<"event">>) = Read(j)
        BY DEF Client!Understood
      <4>3. n = 0 => e.id = << >>
        BY <1>3 DEF n
      <4>4. n = 0 => Read(j) = Read(j + 1)
        <5> SUFFICES ASSUME n = 0 PROVE Read(j) = Read(j + 1)
          OBVIOUS
        <5>1. /\ j = 0 /\ j <= n + 1 /\ ~(j > n + 1 \/ (j > 0 /\ n = 1))
              /\ j + 1 # 0 /\ j + 1 <= n + 1 /\ ~(j + 1 > n + 1 \/ (j + 1 > 0 /\ n = 1))
          BY <3>4
        <5>2. Read(j) = Client!Blank
          BY <5>1 DEF Read, Client!Blank
        <5>3. Read(j + 1) = [id |-> e.id, data |-> << >>, carried |-> FALSE]
          BY <5>1 DEF Read
        <5> QED
          BY <4>3, <5>2, <5>3 DEF Client!Blank
      <4>5. n = 1 => Read(j) = Read(j + 1)
        <5>1. n = 1 => /\ j = 1 /\ 1 <= n + 1 /\ 1 + 1 <= n + 1 /\ 1 + 1 # 0 /\ 1 + 1 > 0
          BY <3>4
        <5> QED
          BY <3>4, <5>1 DEF Read
      <4> QED
        BY <1>4, <3>2, <4>1, <4>2, <4>4, <4>5
    <3>5. CASE j > n
      <4> DEFINE i == j - n
      <4>1. i \in 1 .. k /\ j + 1 = n + 1 + i /\ i = (j + 1) - (n + 1)
        BY <1>2, <1>4, <1>10, <3>1, <3>5
      <4>2. lines[j + 1] = <<"data", e.data[i]>>
        BY <1>2, <1>10, <4>1
      <4>3. Client!Understood(Read(j), <<"data", e.data[i]>>)
               = [id |-> Read(j).id, data |-> Append(Read(j).data, e.data[i]), carried |-> TRUE]
        BY DEF Client!Understood
      <4>4. Read(j).id = e.id
        BY <1>4, <3>5 DEF Read
      <4>5. Append(Read(j).data, e.data[i]) = SubSeq(e.data, 1, i)
        <5>1. CASE i = 1
          <6>1. Read(j).data = << >>
            BY <1>4, <4>1, <5>1 DEF Read
          <6>2. Append(<< >>, e.data[1]) = SubSeq(e.data, 1, 1)
            BY <1>3, <4>1, <5>1 DEF k
          <6> QED
            BY <5>1, <6>1, <6>2
        <5>2. CASE i # 1
          <6>1. j - (n + 1) = i - 1 /\ ~(j <= n + 1)
            BY <1>4, <4>1, <5>2
          <6>2. Read(j).data = SubSeq(e.data, 1, i - 1)
            BY <6>1 DEF Read
          <6>3. Append(SubSeq(e.data, 1, i - 1), e.data[i]) = SubSeq(e.data, 1, i)
            BY <1>3, <4>1, <5>2 DEF k
          <6> QED
            BY <6>2, <6>3
        <5> QED
          BY <5>1, <5>2
      <4>6. Read(j + 1) = [id |-> e.id, data |-> SubSeq(e.data, 1, i), carried |-> TRUE]
        <5>1. j + 1 # 0 /\ ~(j + 1 <= n + 1) /\ j + 1 > n + 1
          BY <1>4, <3>5
        <5>2. Read(j + 1) = [id |-> e.id, data |-> SubSeq(e.data, 1, (j + 1) - (n + 1)),
                             carried |-> TRUE]
          <6>1. (IF j + 1 = 0 THEN << >> ELSE e.id) = e.id
            BY <5>1
          <6>2. (IF j + 1 <= n + 1 THEN << >> ELSE SubSeq(e.data, 1, (j + 1) - (n + 1)))
                   = SubSeq(e.data, 1, (j + 1) - (n + 1))
            BY <5>1
          <6>3. (IF j + 1 > n + 1 \/ (j + 1 > 0 /\ n = 1) THEN TRUE ELSE FALSE) = TRUE
            BY <5>1
          <6> QED
            BY <6>1, <6>2, <6>3, Zenon DEF Read
        <5> QED
          BY <4>1, <5>2
      <4> QED
        BY <3>2, <4>2, <4>3, <4>4, <4>5, <4>6
    <3> QED
      BY <1>4, <3>1, <3>3, <3>4, <3>5
  <2> HIDE DEF T
  <2>3. Nat \subseteq T
    BY <2>1, <2>2, Upwards
  <2>4. after[2 * m] = Read(m)
    BY <1>2, <2>3 DEF T
  <2>5. Read(m) = e
    <3>1. m = n + 1 + k /\ m # 0 /\ m - (n + 1) = k
      BY <1>2, <1>4, <1>10
    <3>2. SubSeq(e.data, 1, k) = e.data
      BY <1>3 DEF k
    <3>3. k = 0 => e.data = << >>
      BY <1>3 DEF k
    <3>4. n = 0 => e.id = << >>
      BY <1>3 DEF n
    <3>5. Read(m).data = e.data
      <4>1. Read(m).data = IF m <= n + 1 THEN << >> ELSE SubSeq(e.data, 1, m - (n + 1))
        OBVIOUS
      <4>2. m <= n + 1 => k = 0
        BY <1>4, <3>1
      <4> HIDE DEF Read
      <4> QED
        BY <3>1, <3>2, <3>3, <4>1, <4>2
    <3>6. m > n + 1 \/ (m > 0 /\ n = 1)
      BY <1>3, <1>4, <1>10, <3>1, <3>3, <3>4
    <3>7. Read(m).carried = TRUE /\ Read(m).id = e.id
      BY <3>1, <3>6
    <3> QED
      BY <1>3, <1>10, <3>5, <3>7
  <2> QED
    BY <1>5, <1>8, <2>4, <2>5 DEF block
<1> QED
  BY <1>3, <1>9, <1>10

-----------------------------------------------------------------------------
(* What is handed over, and what is not yet.                               *)

\* A stream is a sequence of events.
LEMMA StreamsAre ==
    ASSUME Client!Bounds, NEW written \in Streams \cup {<< >>}
    PROVE  /\ written \in Seq(Client!Range(written))
           /\ \E V : \A i \in 1 .. Len(written) : AnEvent(written[i], V)
<1>1. CASE written = << >>
  <2>1. written \in Seq(Client!Range(written)) /\ Len(written) = 0
    BY <1>1
  <2> QED
    BY <2>1
<1>2. CASE written \in Streams
  <2> DEFINE all == Client!Range(written)
             V == UNION {Client!Range(e.id) \cup Client!Range(e.data) : e \in all}
  <2>1. written \in Seq(all)
    BY <1>2 DEF Client!Bounds
  <2>2. ASSUME NEW e \in all PROVE AnEvent(e, V)
    <3>1. /\ e \in [id : Seq(Client!Range(e.id)), data : Seq(Client!Range(e.data)),
                    carried : BOOLEAN]
          /\ Len(e.id) <= 1
          /\ e.carried = (e.id # << >> \/ e.data # << >>)
      BY <1>2 DEF Client!Bounds
    <3>2. Client!Range(e.id) \subseteq V /\ Client!Range(e.data) \subseteq V
      OBVIOUS
    <3> HIDE DEF V, all
    <3> DEFINE I == Client!Range(e.id)
               D == Client!Range(e.data)
    <3>3. e \in [id : Seq(I), data : Seq(D), carried : BOOLEAN] /\ I \subseteq V /\ D \subseteq V
      BY <3>1, <3>2
    <3> HIDE DEF I, D
    <3>4. e \in [id : Seq(V), data : Seq(V), carried : BOOLEAN]
      <4>1. Seq(I) \subseteq Seq(V) /\ Seq(D) \subseteq Seq(V)
        BY <3>3
      <4> QED
        BY <3>3, <4>1
    <3> QED
      BY <3>1, <3>4 DEF AnEvent
  <2>3. \A i \in 1 .. Len(written) : written[i] \in all
    BY <2>1
  <2> HIDE DEF V, all
  <2>4. \A i \in 1 .. Len(written) : AnEvent(written[i], V)
    BY <2>2, <2>3
  <2> QED
    BY <2>1, <2>4 DEF all
<1> QED
  BY <1>1, <1>2

\* What the buffer begins with is the next event, as far as it has arrived; and an event
\* that is there is the least that is complete.
LEMMA NextInBuffer ==
    ASSUME Client!Bounds, Client!NothingIsLost, Len(events) < Len(stream)
    PROVE  LET k == Len(events)
               bytes == Client!Bytes(stream)
               next == Client!Written(stream[k + 1]) IN
           /\ Len(next) \in Nat /\ Len(bytes[k + 1]) = Len(bytes[k]) + Len(next)
           /\ Len(buffer) = arrived - Len(bytes[k])
           /\ \A i \in 1 .. Len(buffer) : i <= Len(next) => buffer[i] = next[i]
           /\ Client!Complete(buffer) # {} <=> Len(next) <= Len(buffer)
           /\ Len(next) <= Len(buffer) =>
                  Client!Least(Client!Complete(buffer)) = Len(next)
<1> DEFINE k == Len(events)
           n == Len(stream)
           bytes == Client!Bytes(stream)
           next == Client!Written(stream[k + 1])
<1>1. /\ stream \in Streams \cup {<< >>} /\ k \in 0 .. n /\ k < n
      /\ arrived \in Len(bytes[k]) .. Len(bytes[n])
      /\ buffer = SubSeq(bytes[n], Len(bytes[k]) + 1, arrived)
  BY DEF Client!NothingIsLost, Client!AllBytes
<1>2. PICK V : \A i \in 1 .. n : AnEvent(stream[i], V)
  BY <1>1, StreamsAre
<1>3. n \in Nat
  <2>1. stream \in Seq(Client!Range(stream))
    BY <1>1, StreamsAre
  <2> QED
    BY <2>1
<1> HIDE DEF k, n
<1> DEFINE m == Len(next)
           a == Len(bytes[k])
           all == bytes[n]
           first == bytes[k + 1]
<1>4. k \in 0 .. n /\ k + 1 \in 1 .. n /\ (k + 1) - 1 = k /\ n \in k + 1 .. n
      /\ k + 1 \in 0 .. n
  BY <1>1, <1>3
<1>5. /\ next \in Seq(Symbols(V)) /\ m \in Nat /\ m > 1
      /\ Client!Complete(next) = {m}
  <2>1. AnEvent(stream[k + 1], V)
    BY <1>2, <1>4
  <2> HIDE DEF next
  <2>2. /\ next \in Seq(Symbols(V)) /\ m = 2 * Len(Client!Lines(stream[k + 1])) + 1
        /\ Client!Complete(next) = {m}
    BY <2>1, WrittenIs DEF next
  <2>3. Len(Client!Lines(stream[k + 1])) \in Nat \ {0}
    BY <2>1, LinesAre
  <2> QED
    BY <2>2, <2>3
<1>6. bytes[k] \in Seq(Symbols(V)) /\ first = bytes[k] \o next
      /\ all \in Seq(Symbols(V))
  <2> HIDE DEF bytes, next
  <2>1. /\ bytes \in [0 .. n -> Seq(Symbols(V))]
        /\ \A i \in 1 .. n : bytes[i] = bytes[i - 1] \o Client!Written(stream[i])
    BY <1>2, <1>3, BytesAre DEF bytes, n
  <2>2. bytes[k] \in Seq(Symbols(V)) /\ bytes[n] \in Seq(Symbols(V))
    BY <1>3, <1>4, <2>1
  <2>3. bytes[k + 1] = bytes[(k + 1) - 1] \o Client!Written(stream[k + 1])
    BY <1>4, <2>1
  <2>4. bytes[k + 1] = bytes[k] \o Client!Written(stream[k + 1])
    BY <1>4, <2>3
  <2> QED
    BY <2>2, <2>4 DEF next
<1>7. a \in Nat /\ Len(all) \in Nat /\ Len(first) = a + m /\ Len(first) <= Len(all)
      /\ \A p \in 1 .. Len(first) : all[p] = first[p]
  <2> HIDE DEF next
  <2>1. Len(bytes[k]) \in Nat /\ Len(first) = Len(bytes[k]) + Len(next)
    BY <1>5, <1>6, Joined
  <2>2. /\ Len(all) \in Nat /\ Len(first) <= Len(all)
        /\ \A p \in 1 .. Len(first) : all[p] = first[p]
    <3> HIDE DEF bytes
    <3> DEFINE j == k + 1
    <3>1. j \in 0 .. n /\ n \in j .. n
      BY <1>4
    <3> HIDE DEF j
    <3>2. /\ Len(bytes[j]) \in Nat /\ Len(bytes[n]) \in Nat /\ Len(bytes[j]) <= Len(bytes[n])
          /\ \A p \in 1 .. Len(bytes[j]) : bytes[n][p] = bytes[j][p]
      <4>1. /\ IsStream(stream, V) /\ j \in 0 .. Len(stream)
            /\ Len(stream) \in 0 .. Len(stream) /\ j <= Len(stream)
        BY <1>2, <1>3, <3>1 DEF n, IsStream
      <4>2. Begins(Client!Bytes(stream)[j], Client!Bytes(stream)[Len(stream)])
        BY <4>1, BytesGrow
      <4> QED
        BY <4>2 DEF n, bytes, Begins
    <3> QED
      BY <3>2 DEF j
  <2> QED
    BY <2>1, <2>2
<1>8. \A i \in 1 .. m : all[a + i] = next[i]
  <2>1. ASSUME NEW i \in 1 .. m PROVE all[a + i] = next[i]
    <3> HIDE DEF bytes, next
    <3>1. first[a + i] = next[i]
      <4> DEFINE s == bytes[k]
      <4> HIDE DEF s
      <4>1. s \in Seq(Symbols(V)) /\ first = s \o next /\ a = Len(s)
        BY <1>6 DEF s
      <4> HIDE DEF first, a
      <4> QED
        BY <1>5, <4>1, Joined
    <3>2. a + i \in 1 .. Len(first)
      <4> HIDE DEF a, m, first
      <4> QED
        BY <1>5, <1>7
    <3> QED
      BY <1>7, <3>1, <3>2
  <2> QED
    BY <2>1
<1>9. arrived \in Nat /\ a <= arrived /\ arrived <= Len(all)
      /\ buffer = SubSeq(all, a + 1, arrived)
  <2> HIDE DEF bytes
  <2> QED
    BY <1>1, <1>7
<1> HIDE DEF a, all, first, next, bytes
<1>10. Len(buffer) = arrived - a /\ \A i \in 1 .. arrived - a : buffer[i] = all[a + i]
  <2>1. a + 1 \in 1 .. Len(all) + 1 /\ arrived \in a .. Len(all)
    BY <1>7, <1>9
  <2> QED
    BY <1>6, <1>7, <1>9, <2>1
<1> DEFINE b == Len(buffer)
<1>11. b \in Nat /\ b = arrived - a /\ \A i \in 1 .. b : i <= m => buffer[i] = next[i]
  <2>1. b \in Nat /\ b = arrived - a
    BY <1>7, <1>9, <1>10
  <2>2. ASSUME NEW i \in 1 .. b, i <= m PROVE buffer[i] = next[i]
    <3>1. i \in 1 .. m /\ i \in 1 .. arrived - a
      BY <1>5, <2>1, <2>2
    <3> QED
      BY <1>8, <1>10, <3>1
  <2> QED
    BY <2>1, <2>2
<1>12. ASSUME NEW i \in Client!Complete(buffer), i <= m PROVE i = m
  <2>1. i \in 2 .. b /\ buffer[i - 1] = Client!Newline /\ buffer[i] = Client!Newline
    BY DEF Client!Complete
  <2>2. i \in 1 .. b /\ i - 1 \in 1 .. b /\ i - 1 <= m /\ i \in 2 .. m
    BY <1>5, <1>11, <1>12, <2>1
  <2>3. next[i - 1] = Client!Newline /\ next[i] = Client!Newline
    BY <1>11, <1>12, <2>1, <2>2
  <2>4. i \in Client!Complete(next)
    BY <2>2, <2>3 DEF Client!Complete
  <2> QED
    BY <1>5, <2>4
<1>13. \A i \in Client!Complete(buffer) : i \in Nat /\ i <= b
  BY <1>11 DEF Client!Complete
<1>14. ASSUME m <= b
       PROVE  m \in Client!Complete(buffer) /\ Client!Least(Client!Complete(buffer)) = m
  <2>1. m \in Client!Complete(next)
    BY <1>5
  <2>2. next[m - 1] = Client!Newline /\ next[m] = Client!Newline
    BY <2>1 DEF Client!Complete
  <2>3. m \in 2 .. b /\ m \in 1 .. b /\ m - 1 \in 1 .. b /\ m - 1 <= m
    BY <1>5, <1>11, <1>14
  <2>4. buffer[m - 1] = Client!Newline /\ buffer[m] = Client!Newline
    BY <1>11, <2>2, <2>3
  <2>5. m \in Client!Complete(buffer)
    BY <2>3, <2>4 DEF Client!Complete
  <2>6. \A i \in Client!Complete(buffer) : m <= i
    BY <1>5, <1>12, <1>13
  <2>7. ASSUME NEW i \in Client!Complete(buffer), \A j \in Client!Complete(buffer) : i <= j
        PROVE  i = m
    BY <1>5, <1>13, <2>5, <2>6, <2>7
  <2> QED
    BY <2>5, <2>6, <2>7 DEF Client!Least
<1>15. Client!Complete(buffer) # {} => m <= b
  <2> SUFFICES ASSUME NEW i \in Client!Complete(buffer), ~(m <= b) PROVE FALSE
    OBVIOUS
  <2> QED
    BY <1>5, <1>11, <1>12, <1>13
<1> QED
  BY <1>5, <1>7, <1>11, <1>14, <1>15 DEF a, next, bytes, first, k

LEMMA NothingLostAtFirst == Client!Bounds /\ Client!Init => Client!NothingIsLost
<1> SUFFICES ASSUME Client!Bounds, Client!Init PROVE Client!NothingIsLost
  OBVIOUS
<1>1. stream \in Streams \cup {<< >>} /\ arrived = 0 /\ buffer = << >> /\ events = << >>
  BY DEF Client!Init
<1>2. /\ stream \in Seq(Client!Range(stream))
      /\ \E V : \A i \in 1 .. Len(stream) : AnEvent(stream[i], V)
  BY <1>1, StreamsAre
<1>3. PICK V : IsStream(stream, V)
  <2>1. Len(stream) \in Nat
    BY <1>2
  <2> QED
    BY <1>2, <2>1 DEF IsStream
<1> DEFINE bytes == Client!Bytes(stream)
           n == Len(stream)
<1>4. n \in Nat /\ bytes[0] = << >> /\ bytes[n] \in Seq(Symbols(V))
  <2>1. /\ bytes \in [0 .. n -> Seq(Symbols(V))]
        /\ bytes[0] = << >> /\ n \in Nat
    BY <1>3, BytesAre DEF IsStream
  <2> HIDE DEF bytes, n
  <2> QED
    BY <2>1
<1> HIDE DEF bytes, n
<1>5. Len(bytes[n]) \in Nat /\ Len(events) = 0 /\ Len(bytes[0]) = 0
  BY <1>1, <1>4
<1>6. SubSeq(bytes[n], 1, 0) = << >> /\ SubSeq(stream, 1, 0) = << >>
  BY <1>2, <1>4
<1>7. /\ Len(events) \in 0 .. n /\ events = SubSeq(stream, 1, Len(events))
      /\ arrived \in Len(bytes[Len(events)]) .. Len(bytes[n])
      /\ buffer = SubSeq(bytes[n], Len(bytes[Len(events)]) + 1, arrived)
  <2>1. Len(events) \in 0 .. n /\ arrived \in 0 .. Len(bytes[n])
    BY <1>1, <1>4, <1>5
  <2>2. events = SubSeq(stream, 1, 0) /\ buffer = SubSeq(bytes[n], 0 + 1, arrived)
    BY <1>1, <1>6
  <2> QED
    BY <1>5, <2>1, <2>2
<1> QED
  BY <1>1, <1>7 DEF Client!NothingIsLost, Client!AllBytes, bytes, n

\* The event that is complete is taken, and what is behind it is left.
LEMMA TakeLosesNothing ==
    ASSUME Client!Bounds, Client!NothingIsLost, Client!Take PROVE Client!NothingIsLost'
<1> DEFINE k == Len(events)
           n == Len(stream)
           bytes == Client!Bytes(stream)
           next == Client!Written(stream[k + 1])
           all == bytes[n]
<1>1. /\ stream \in Streams \cup {<< >>} /\ k \in 0 .. n
      /\ events = SubSeq(stream, 1, k)
      /\ arrived \in Len(bytes[k]) .. Len(bytes[n])
      /\ buffer = SubSeq(bytes[n], Len(bytes[k]) + 1, arrived)
  BY DEF Client!NothingIsLost, Client!AllBytes
<1>2. /\ stream' = stream /\ arrived' = arrived
      /\ Client!Complete(buffer) # {}
      /\ LET end == Client!Least(Client!Complete(buffer)) IN
            /\ events' = Append(events, Client!Parse(SubSeq(buffer, 1, end)))
            /\ buffer' = SubSeq(buffer, end + 1, Len(buffer))
  BY DEF Client!Take
<1>3. PICK V : IsStream(stream, V)
  <2>1. Len(stream) \in Nat
    <3>1. stream \in Seq(Client!Range(stream))
      BY <1>1, StreamsAre
    <3> QED
      BY <3>1
  <2> QED
    BY <1>1, <2>1, StreamsAre DEF IsStream
<1>4. n \in Nat /\ bytes \in [0 .. n -> Seq(Symbols(V))]
  BY <1>3, BytesAre DEF IsStream
<1>5. k < n
  <2> SUFFICES ASSUME k = n PROVE FALSE
    BY <1>1, <1>4
  <2> HIDE DEF bytes, n, k
  <2>1. Len(bytes[n]) \in Nat /\ bytes[n] \in Seq(Symbols(V))
    BY <1>4
  <2>2. arrived = Len(bytes[n]) /\ k = n
    BY <1>1, <2>1
  <2>3. buffer = << >>
    BY <1>1, <2>1, <2>2
  <2>4. Client!Complete(<< >>) = {}
    BY DEF Client!Complete
  <2> QED
    BY <1>2, <2>3, <2>4
<1>6. /\ Len(next) \in Nat /\ Len(bytes[k + 1]) = Len(bytes[k]) + Len(next)
      /\ Len(buffer) = arrived - Len(bytes[k])
      /\ \A i \in 1 .. Len(buffer) : i <= Len(next) => buffer[i] = next[i]
      /\ Len(next) <= Len(buffer)
      /\ Client!Least(Client!Complete(buffer)) = Len(next)
  BY <1>2, <1>5, NextInBuffer
<1>7. AnEvent(stream[k + 1], V) /\ next \in Seq(Symbols(V))
  <2>1. k + 1 \in 1 .. n
    BY <1>1, <1>4, <1>5
  <2>2. AnEvent(stream[k + 1], V)
    BY <1>3, <2>1 DEF IsStream
  <2> QED
    BY <2>2, WrittenIs
<1>8. Client!Parse(next) = stream[k + 1]
  BY <1>7, ReadAsWritten
<1> HIDE DEF next, bytes, k, n
<1> DEFINE m == Len(next)
           a == Len(bytes[k])
<1>9. a \in Nat /\ all \in Seq(Symbols(V)) /\ Len(all) \in Nat /\ arrived \in a .. Len(all)
      /\ buffer = SubSeq(all, a + 1, arrived) /\ buffer \in Seq(Symbols(V))
  <2>1. bytes[k] \in Seq(Symbols(V)) /\ all \in Seq(Symbols(V))
    BY <1>1, <1>4
  <2>2. a \in Nat /\ Len(all) \in Nat
    BY <2>1
  <2> HIDE DEF a, all
  <2>3. arrived \in a .. Len(all) /\ buffer = SubSeq(all, a + 1, arrived)
    BY <1>1 DEF a, all
  <2>4. buffer \in Seq(Symbols(V))
    BY <2>1, <2>2, <2>3
  <2> QED
    BY <2>1, <2>2, <2>3, <2>4 DEF all
<1> HIDE DEF m, a, all
<1>10. /\ m \in Nat /\ Len(bytes[k + 1]) = a + m /\ Len(buffer) = arrived - a
       /\ m <= Len(buffer)
       /\ \A i \in 1 .. Len(buffer) : i <= m => buffer[i] = next[i]
  BY <1>6 DEF m, a
<1>11. Client!Parse(SubSeq(buffer, 1, m)) = stream[k + 1]
  <2>1. SubSeq(buffer, 1, m) = next
    <3>1. Len(buffer) \in Nat
      BY <1>9
    <3>2. Len(SubSeq(buffer, 1, m)) = m /\ SubSeq(buffer, 1, m) \in Seq(Symbols(V))
      BY <1>9, <1>10, <3>1
    <3>3. ASSUME NEW i \in 1 .. m PROVE SubSeq(buffer, 1, m)[i] = next[i]
      <4>1. SubSeq(buffer, 1, m)[i] = buffer[i]
        BY <1>9, <1>10, <3>1
      <4> QED
        BY <1>10, <3>1, <4>1
    <3> QED
      BY <1>7, <3>2, <3>3 DEF m
  <2> QED
    BY <1>8, <2>1
<1>12. events' = Append(events, stream[k + 1])
  BY <1>2, <1>6, <1>11 DEF m
<1>13. stream \in Seq(Client!Range(stream))
  BY <1>1, StreamsAre
<1>14. Len(events') = k + 1 /\ events' = SubSeq(stream, 1, k + 1)
  <2>1. k \in 0 .. Len(stream) /\ k < Len(stream) /\ Len(stream) \in Nat
    BY <1>1, <1>4, <1>5 DEF n
  <2>2. events = SubSeq(stream, 1, k) /\ events \in Seq(Client!Range(stream))
    BY <1>1, <1>13, <2>1
  <2>3. k = Len(events) /\ k + 1 \in 1 .. Len(stream)
    BY <2>1 DEF k
  <2>4. Append(SubSeq(stream, 1, k), stream[k + 1]) = SubSeq(stream, 1, k + 1)
    BY <1>13, <2>1, <2>3
  <2>5. Len(SubSeq(stream, 1, k + 1)) = k + 1
    BY <1>13, <2>1, <2>3
  <2> QED
    BY <1>12, <2>2, <2>4, <2>5
<1>15. buffer' = SubSeq(all, (a + m) + 1, arrived)
  <2>1. buffer' = SubSeq(buffer, m + 1, Len(buffer))
    BY <1>2, <1>6 DEF m
  <2>2. Len(buffer) \in Nat /\ arrived \in Nat /\ a + m <= arrived
    BY <1>9, <1>10
  <2> DEFINE s == SubSeq(buffer, m + 1, Len(buffer))
             t == SubSeq(all, (a + m) + 1, arrived)
  <2>3. Len(s) = Len(buffer) - m /\ s \in Seq(Symbols(V))
    BY <1>9, <1>10, <2>2
  <2>4. Len(t) = arrived - (a + m) /\ t \in Seq(Symbols(V))
    BY <1>9, <1>10, <2>2
  <2>5. ASSUME NEW i \in 1 .. Len(buffer) - m PROVE s[i] = t[i]
    <3>1. s[i] = buffer[m + i]
      BY <1>9, <1>10, <2>2
    <3>2. m + i \in 1 .. arrived - a
      BY <1>9, <1>10, <2>2
    <3>3. buffer[m + i] = all[a + (m + i)]
      BY <1>9, <1>10, <2>2, <3>2
    <3>4. t[i] = all[(a + m) + i]
      BY <1>9, <1>10, <2>2
    <3>5. a + (m + i) = (a + m) + i
      BY <1>9, <1>10
    <3> QED
      BY <3>1, <3>3, <3>4, <3>5
  <2>6. Len(s) = Len(t)
    BY <1>9, <1>10, <2>2, <2>3, <2>4
  <2> HIDE DEF s, t
  <2>7. s = t
    BY <2>3, <2>4, <2>5, <2>6
  <2> QED
    BY <2>1, <2>7 DEF s, t
<1>16. arrived \in a + m .. Len(all) /\ k + 1 \in 0 .. n
  BY <1>1, <1>4, <1>5, <1>9, <1>10
<1> QED
  BY <1>1, <1>2, <1>10, <1>14, <1>15, <1>16
     DEF Client!NothingIsLost, Client!AllBytes, all, bytes, n

\* A piece is kept behind what is there.
LEMMA ChunkLosesNothing ==
    ASSUME Client!Bounds, Client!NothingIsLost, Client!Chunk PROVE Client!NothingIsLost'
<1> DEFINE bytes == Client!Bytes(stream)
           all == Client!AllBytes
           taken == bytes[Len(events)]
<1>1. /\ stream \in Streams \cup {<< >>} /\ Len(events) \in 0 .. Len(stream)
      /\ events = SubSeq(stream, 1, Len(events))
      /\ arrived \in Len(taken) .. Len(all)
      /\ buffer = SubSeq(all, Len(taken) + 1, arrived)
  BY DEF Client!NothingIsLost
<1>2. PICK n \in 1 .. MaxChunk :
        /\ arrived + n <= Len(all)
        /\ \/ UNCHANGED <<arrived, buffer>>
           \/ /\ arrived' = arrived + n
              /\ buffer' = buffer \o SubSeq(all, arrived + 1, arrived + n)
  BY DEF Client!Chunk
<1>3. UNCHANGED <<stream, events>>
  BY DEF Client!Chunk
<1>4. Client!AllBytes' = all /\ Client!Bytes(stream)' = bytes
  BY <1>3 DEF Client!AllBytes
<1>5. CASE UNCHANGED <<arrived, buffer>>
  BY <1>1, <1>3, <1>4, <1>5 DEF Client!NothingIsLost
<1>6. CASE /\ arrived' = arrived + n
           /\ buffer' = buffer \o SubSeq(all, arrived + 1, arrived + n)
  <2>1. PICK V : IsStream(stream, V)
    <3>1. Len(stream) \in Nat
      <4>1. stream \in Seq(Client!Range(stream))
        BY <1>1, StreamsAre
      <4> QED
        BY <4>1
    <3> QED
      BY <1>1, <3>1, StreamsAre DEF IsStream
  <2>2. taken \in Seq(Symbols(V)) /\ all \in Seq(Symbols(V))
    <3>1. Len(stream) \in Nat /\ bytes \in [0 .. Len(stream) -> Seq(Symbols(V))]
      BY <2>1, BytesAre DEF IsStream
    <3>2. Len(stream) \in 0 .. Len(stream) /\ all = bytes[Len(stream)]
      BY <3>1 DEF Client!AllBytes
    <3> HIDE DEF bytes, all
    <3> QED
      BY <1>1, <3>1, <3>2
  <2> DEFINE a == Len(taken)
             size == Len(all)
  <2>3. a \in Nat /\ size \in Nat /\ n \in Nat /\ n >= 1
    <3>1. MaxChunk \in Nat
      BY DEF Client!Bounds
    <3> QED
      BY <2>2, <3>1
  <2> HIDE DEF taken, all, bytes
  <2>4. a <= arrived /\ arrived \in Nat /\ arrived + n <= size
    BY <1>1, <1>2, <2>3
  <2>5. buffer = SubSeq(all, a + 1, arrived)
    BY <1>1
  <2> HIDE DEF a
  <2>6. buffer \in Seq(Symbols(V)) /\ Len(buffer) = arrived - a
        /\ \A i \in 1 .. arrived - a : buffer[i] = all[a + i]
    <3> DEFINE s == a + 1
    <3>1. s \in 1 .. size + 1 /\ arrived \in s - 1 .. size /\ (arrived - s) + 1 = arrived - a
      BY <2>3, <2>4
    <3>2. \A i \in 1 .. arrived - a : (s + i) - 1 = a + i
      BY <2>3, <2>4
    <3>3. buffer = SubSeq(all, s, arrived)
      BY <2>5
    <3> HIDE DEF s
    <3>4. buffer \in Seq(Symbols(V)) /\ Len(buffer) = (arrived - s) + 1
      BY <2>2, <2>3, <2>4, <3>1, <3>3
    <3>5. \A i \in 1 .. (arrived - s) + 1 : buffer[i] = all[(s + i) - 1]
      BY <2>2, <2>3, <2>4, <3>1, <3>3
    <3> QED
      BY <3>1, <3>2, <3>4, <3>5
  <2> DEFINE piece == SubSeq(all, arrived + 1, arrived + n)
             whole == SubSeq(all, a + 1, arrived + n)
             both == buffer \o piece
  <2>7. piece \in Seq(Symbols(V)) /\ Len(piece) = n
        /\ \A i \in 1 .. n : piece[i] = all[arrived + i]
    <3> DEFINE s == arrived + 1
               t == arrived + n
    <3>1. s \in 1 .. size /\ t \in s .. size /\ (t - s) + 1 = n
      BY <2>3, <2>4
    <3>2. \A i \in 1 .. n : (s + i) - 1 = arrived + i
      BY <2>3, <2>4
    <3> HIDE DEF s, t
    <3>3. piece = SubSeq(all, s, t)
      BY DEF piece, s, t
    <3> HIDE DEF piece
    <3>4. piece \in Seq(Symbols(V)) /\ Len(piece) = (t - s) + 1
      BY <2>2, <2>3, <3>1, <3>3
    <3>5. \A i \in 1 .. (t - s) + 1 : piece[i] = all[(s + i) - 1]
      BY <2>2, <2>3, <3>1, <3>3
    <3> QED
      BY <3>1, <3>2, <3>4, <3>5
  <2>8. whole \in Seq(Symbols(V)) /\ Len(whole) = (arrived + n) - a
        /\ \A i \in 1 .. (arrived + n) - a : whole[i] = all[a + i]
    BY <2>2, <2>3, <2>4
  <2> HIDE DEF piece, whole
  <2>9. both \in Seq(Symbols(V)) /\ Len(both) = Len(buffer) + Len(piece)
        /\ (\A i \in 1 .. Len(buffer) : both[i] = buffer[i])
        /\ (\A i \in 1 .. Len(piece) : both[Len(buffer) + i] = piece[i])
    <3>1. buffer \in Seq(Symbols(V)) /\ piece \in Seq(Symbols(V))
      BY <2>6, <2>7
    <3> QED
      BY <3>1, Joined
  <2> HIDE DEF both
  <2>10. Len(both) = (arrived + n) - a
    BY <2>3, <2>4, <2>6, <2>7, <2>9
  <2>11. ASSUME NEW i \in 1 .. (arrived + n) - a PROVE both[i] = whole[i]
    <3>1. CASE i <= arrived - a
      BY <2>3, <2>4, <2>6, <2>8, <2>9, <3>1
    <3>2. CASE i > arrived - a
      <4> DEFINE j == i - (arrived - a)
      <4>1. j \in 1 .. n /\ (arrived - a) + j = i /\ arrived + j = a + i
        BY <2>3, <2>4, <3>2
      <4> HIDE DEF j
      <4>2. both[(arrived - a) + j] = piece[j]
        BY <2>6, <2>7, <2>9, <4>1
      <4> QED
        BY <2>7, <2>8, <4>1, <4>2
    <3> QED
      BY <2>3, <2>4, <3>1, <3>2
  <2>12. both = whole
    BY <2>8, <2>9, <2>10, <2>11
  <2>13. buffer' = SubSeq(all, a + 1, arrived + n)
    BY <1>6, <2>12 DEF both, piece, whole
  <2>14. arrived' \in a .. size
    BY <1>6, <2>3, <2>4
  <2>15. taken' = taken
    BY <1>3, <1>4 DEF taken, bytes
  <2> QED
    BY <1>1, <1>3, <1>4, <1>6, <2>13, <2>14, <2>15 DEF Client!NothingIsLost, a, taken, bytes
<1> QED
  BY <1>2, <1>5, <1>6

LEMMA NothingGetsLost ==
    Client!Bounds /\ Client!NothingIsLost /\ [Client!Next]_(Client!vars)
        => Client!NothingIsLost'
<1> SUFFICES ASSUME Client!Bounds, Client!NothingIsLost, [Client!Next]_(Client!vars)
             PROVE  Client!NothingIsLost'
  OBVIOUS
<1> USE DEF Client!pieces
<1>1. ASSUME UNCHANGED Client!pieces PROVE Client!NothingIsLost'
  <2>1. UNCHANGED <<stream, arrived, buffer, events>>
    BY <1>1
  <2>2. Client!AllBytes' = Client!AllBytes
    BY <2>1 DEF Client!AllBytes
  <2> QED
    BY <2>1, <2>2 DEF Client!NothingIsLost
<1>2. CASE Client!RotateToken \/ Client!LoseToken \/ Client!StopWatch \/ Client!Tick
  BY <1>1, <1>2 DEF Client!RotateToken, Client!LoseToken, Client!StopWatch, Client!Tick
<1>3. ASSUME NEW next, Client!Go(next) PROVE Client!NothingIsLost'
  BY <1>1, <1>3 DEF Client!Go
<1>4. CASE Client!Connected \/ Client!HandshakeDone \/ Client!ConnectionFails
             \/ Client!OutOfTime \/ Client!Silence \/ Client!StopSeen
  BY <1>3, <1>4 DEF Client!Connected, Client!HandshakeDone, Client!ConnectionFails,
      Client!OutOfTime, Client!Silence, Client!StopSeen
<1>5. CASE Client!Bearer \/ Client!Answered
  BY <1>3, <1>5 DEF Client!Bearer, Client!Answered
<1>6. CASE Client!TurnedAway \/ Client!BodyRead \/ Client!StreamCloses
  BY <1>3, <1>6 DEF Client!TurnedAway, Client!BodyRead, Client!StreamCloses
<1>7. CASE Client!Take
  BY <1>7, TakeLosesNothing
<1>8. CASE Client!Chunk
  BY <1>8, ChunkLosesNothing
<1>9. CASE UNCHANGED Client!vars
  BY <1>1, <1>9 DEF Client!vars
<1> QED
  BY <1>2, <1>4, <1>5, <1>6, <1>7, <1>8, <1>9 DEF Client!Next

\* Events::next, take, parse: however the stream is cut into pieces, the events that are
\* handed over are the server's, in their order, and none that is all there is kept back.
THEOREM EventsAreReadAsWritten == Client!Spec => []EventsAreAsWritten
<1> Client!Bounds
  BY ServerBounds
<1>1. Client!NothingIsLost => EventsAreAsWritten
  <2> SUFFICES ASSUME Client!NothingIsLost PROVE EventsAreAsWritten
    OBVIOUS
  <2> DEFINE k == Len(events)
             n == Len(stream)
             bytes == Client!Bytes(stream)
  <2>1. /\ stream \in Streams \cup {<< >>} /\ k \in 0 .. n /\ events = SubSeq(stream, 1, k)
        /\ arrived \in Len(bytes[k]) .. Len(bytes[n])
    BY DEF Client!NothingIsLost, Client!AllBytes
  <2>2. PICK V : IsStream(stream, V)
    <3>1. Len(stream) \in Nat
      <4>1. stream \in Seq(Client!Range(stream))
        BY <2>1, StreamsAre
      <4> QED
        BY <4>1
    <3> QED
      BY <2>1, <3>1, StreamsAre DEF IsStream
  <2>3. Client!IsPrefix(events, stream)
    <3>1. stream \in Seq(Client!Range(stream)) /\ n \in Nat
      BY <2>1, <2>2, StreamsAre DEF IsStream
    <3>2. events \in Seq(Client!Range(stream)) /\ k <= n
      BY <2>1, <3>1
    <3>3. SubSeq(events, 1, k) = events
      BY <3>2
    <3> QED
      BY <2>1, <3>2, <3>3 DEF Client!IsPrefix
  <2>4. ASSUME Client!Complete(buffer) = {}, NEW i \in 1 .. n, Len(bytes[i]) <= arrived
        PROVE  k >= i
    <3> SUFFICES ASSUME k < i PROVE FALSE
      BY <2>1, <2>2 DEF IsStream
    <3>1. k < n /\ k + 1 \in 0 .. n /\ i \in 0 .. n /\ k + 1 <= i /\ k \in 0 .. n
      BY <2>1, <2>2 DEF IsStream
    <3> DEFINE next == Client!Written(stream[k + 1])
               m == Len(next)
    <3>2. /\ m \in Nat /\ Len(bytes[k + 1]) = Len(bytes[k]) + m
          /\ Len(buffer) = arrived - Len(bytes[k])
          /\ ~(m <= Len(buffer))
      BY <2>4, <3>1, NextInBuffer
    <3>3. Begins(bytes[k + 1], bytes[i])
      <4> DEFINE j == k + 1
      <4>1. j \in 0 .. Len(stream) /\ i \in 0 .. Len(stream) /\ j <= i
        BY <3>1
      <4> HIDE DEF j
      <4>2. Begins(Client!Bytes(stream)[j], Client!Bytes(stream)[i])
        BY <2>2, <4>1, BytesGrow
      <4> QED
        BY <4>2 DEF j
    <3>4. Len(bytes[k]) \in Nat
      <4>1. Begins(Client!Bytes(stream)[k], Client!Bytes(stream)[k])
        <5>1. k <= k
          BY <2>1
        <5> HIDE DEF k
        <5> QED
          BY <2>2, <3>1, <5>1, BytesGrow
      <4> QED
        BY <4>1 DEF Begins
    <3>5. Len(bytes[k + 1]) <= Len(bytes[i]) /\ Len(bytes[i]) \in Nat
      BY <3>3 DEF Begins
    <3>6. arrived \in Nat
      <4>1. Len(bytes[n]) \in Nat
        <5>1. n \in 0 .. n /\ n <= n
          BY <3>1
        <5>2. Begins(Client!Bytes(stream)[n], Client!Bytes(stream)[n])
          <6> HIDE DEF k
          <6> QED
            BY <2>2, <5>1, BytesGrow
        <5> QED
          BY <5>2 DEF Begins
      <4> HIDE DEF bytes, k, n
      <4> QED
        BY <2>1, <3>4, <4>1
    <3> HIDE DEF bytes, k, n, m
    <3> QED
      BY <2>4, <3>2, <3>4, <3>5, <3>6
  <2> QED
    BY <2>3, <2>4 DEF EventsAreAsWritten, Client!EventsAreAsWritten
<1> QED
  BY <1>1, NothingLostAtFirst, NothingGetsLost, PTL DEF Client!Spec

-----------------------------------------------------------------------------
(* The types of all parts.                                                 *)

IsBuffered(V) ==
    /\ buffer \in Seq(Symbols(V)) /\ Client!AllBytes \in Seq(Symbols(V))
    /\ arrived \in 0 .. Len(Client!AllBytes)

LEMMA BufferIs == Client!Bounds /\ Client!NothingIsLost => \E V : IsBuffered(V)
<1> SUFFICES ASSUME Client!Bounds, Client!NothingIsLost PROVE \E V : IsBuffered(V)
  OBVIOUS
<1> DEFINE bytes == Client!Bytes(stream)
           all == Client!AllBytes
           k == Len(events)
           n == Len(stream)
<1>1. /\ stream \in Streams \cup {<< >>} /\ k \in 0 .. n
      /\ arrived \in Len(bytes[k]) .. Len(all)
      /\ buffer = SubSeq(all, Len(bytes[k]) + 1, arrived)
  BY DEF Client!NothingIsLost
<1>2. PICK V : IsStream(stream, V)
  <2>1. n \in Nat
    <3>1. stream \in Seq(Client!Range(stream))
      BY <1>1, StreamsAre
    <3> QED
      BY <3>1
  <2> QED
    BY <1>1, <2>1, StreamsAre DEF IsStream
<1>3. n \in Nat /\ bytes \in [0 .. n -> Seq(Symbols(V))]
  BY <1>2, BytesAre DEF IsStream
<1>4. bytes[k] \in Seq(Symbols(V)) /\ all \in Seq(Symbols(V))
  <2>1. n \in 0 .. n /\ all = bytes[n]
    BY <1>3 DEF Client!AllBytes
  <2> HIDE DEF bytes, all, k, n
  <2> QED
    BY <1>1, <1>3, <2>1
<1> DEFINE a == Len(bytes[k])
           size == Len(all)
<1>5. a \in Nat /\ size \in Nat
  BY <1>4
<1> HIDE DEF bytes, all, k, n
<1>6. arrived \in a .. size /\ buffer = SubSeq(all, a + 1, arrived)
  BY <1>1
<1> HIDE DEF a
<1>7. buffer \in Seq(Symbols(V)) /\ arrived \in 0 .. size
  BY <1>4, <1>5, <1>6
<1> QED
  BY <1>4, <1>7 DEF all, IsBuffered

LEMMA ClientTypes ==
    Client!Bounds /\ Client!TypeOK /\ Client!Budgeted /\ Client!NothingIsLost
        /\ Client!Budgeted' /\ Client!NothingIsLost' /\ [Client!Next]_(Client!vars)
        => Client!TypeOK'
<1> SUFFICES ASSUME Client!Bounds, Client!TypeOK, Client!Budgeted, Client!NothingIsLost,
                    Client!Budgeted', Client!NothingIsLost', [Client!Next]_(Client!vars)
             PROVE  Client!TypeOK'
  OBVIOUS
<1> DEFINE Places == Client!Waiting \cup Client!Over \cup {"bearer", "stream"}
           Rest == /\ clientAt \in Places /\ quiet \in 0 .. IDLE
                   /\ {file, presented} \subseteq 0 .. MaxTokens
                   /\ Len(buffer) <= MOST_EVENT_BYTES
<1>1. /\ TIMEOUT \in Nat /\ IDLE \in Nat /\ SLICE \in Nat /\ MOST_EVENT_BYTES \in Nat
      /\ MaxTokens \in Nat /\ MaxChunk \in Nat
  BY DEF Client!Bounds
<1>2. Rest /\ file \in 0 .. MaxTokens /\ presented \in 0 .. MaxTokens
  BY DEF Client!TypeOK
<1>3. Rest' => Client!TypeOK'
  <2> SUFFICES ASSUME Rest' PROVE Client!TypeOK'
    OBVIOUS
  <2>1. arrived' \in 0 .. Len(Client!AllBytes')
    <3>1. (\E V : IsBuffered(V))'
      BY BufferIs, PTL
    <3> QED
      BY <3>1 DEF IsBuffered
  <2>2. elapsed' \in Nat /\ deadline' \in Nat /\ stopping' \in 0 .. IDLE + SLICE + 1
    BY <1>1 DEF Client!Budgeted
  <2> QED
    BY <2>1, <2>2 DEF Client!TypeOK
<1> HIDE DEF Rest
<1> USE DEF Client!attempt, Client!pieces
<1>4. ASSUME UNCHANGED <<clientAt, presented, buffer, quiet>>, file' \in 0 .. MaxTokens
      PROVE  Rest'
  BY <1>2, <1>4 DEF Rest
<1>5. CASE Client!RotateToken \/ Client!LoseToken \/ Client!StopWatch
  <2>1. UNCHANGED <<clientAt, presented, buffer, quiet>>
    BY <1>5 DEF Client!RotateToken, Client!LoseToken, Client!StopWatch
  <2>2. file' \in 0 .. MaxTokens
    BY <1>1, <1>2, <1>5 DEF Client!RotateToken, Client!LoseToken, Client!StopWatch,
       Client!Nothing
  <2> QED
    BY <1>3, <1>4, <2>1, <2>2
<1>6. CASE Client!Tick
  <2>1. UNCHANGED <<clientAt, presented, buffer, file>>
    BY <1>6 DEF Client!Tick
  <2>2. quiet \in 0 .. IDLE
    BY <1>2 DEF Rest
  <2>3. quiet' = quiet \/ (quiet < IDLE /\ quiet' = quiet + 1)
    BY <1>6 DEF Client!Tick, Client!Waiting
  <2>4. quiet' \in 0 .. IDLE
    BY <1>1, <2>2, <2>3
  <2> QED
    BY <1>2, <1>3, <2>1, <2>4 DEF Rest
<1>7. ASSUME NEW next \in Places, Client!Go(next), presented' \in {presented, file} PROVE Rest'
  BY <1>2, <1>7 DEF Client!Go, Rest
<1>8. CASE Client!Connected \/ Client!HandshakeDone \/ Client!ConnectionFails
             \/ Client!OutOfTime \/ Client!Silence \/ Client!StopSeen
  BY <1>3, <1>7, <1>8 DEF Client!Connected, Client!HandshakeDone, Client!ConnectionFails,
      Client!OutOfTime, Client!Silence, Client!StopSeen, Client!Waiting, Client!Over
<1>9. CASE Client!Bearer \/ Client!Answered
  BY <1>3, <1>7, <1>9 DEF Client!Bearer, Client!Answered, Client!Waiting, Client!Over
<1>10. CASE Client!TurnedAway \/ Client!BodyRead \/ Client!StreamCloses
  BY <1>3, <1>7, <1>10 DEF Client!TurnedAway, Client!BodyRead, Client!StreamCloses,
     Client!Waiting, Client!Over
<1>11. PICK V : buffer \in Seq(Symbols(V)) /\ Client!AllBytes \in Seq(Symbols(V))
                /\ arrived \in 0 .. Len(Client!AllBytes)
  BY BufferIs DEF IsBuffered
<1>12. CASE Client!Take
  <2> DEFINE b == Len(buffer)
  <2>1. /\ UNCHANGED <<clientAt, presented, file, quiet>> /\ Client!Complete(buffer) # {}
        /\ buffer' = SubSeq(buffer, Client!Least(Client!Complete(buffer)) + 1, b)
    BY <1>12 DEF Client!Take
  <2>2. b \in Nat /\ b <= MOST_EVENT_BYTES
    BY <1>2, <1>11 DEF Rest
  <2>3. Client!Complete(buffer) \subseteq 2 .. b
    BY DEF Client!Complete
  <2> DEFINE T == Client!Complete(buffer)
             end == Client!Least(T)
  <2>4. T \subseteq Nat /\ T # {}
    BY <2>1, <2>2, <2>3
  <2> HIDE DEF T
  <2>5. end \in T
    <3>1. \E m \in T : \A i \in T : m <= i
      BY <2>4, Least
    <3> QED
      BY <3>1 DEF Client!Least
  <2>6. end \in 2 .. b /\ buffer' = SubSeq(buffer, end + 1, b)
    BY <2>1, <2>3, <2>5 DEF T
  <2> HIDE DEF end
  <2>7. Len(buffer') <= MOST_EVENT_BYTES
    <3>1. Len(SubSeq(buffer, end + 1, b)) = b - end
      BY <1>11, <2>2, <2>6
    <3> HIDE DEF b
    <3> QED
      BY <1>1, <2>2, <2>6, <3>1
  <2> QED
    BY <1>2, <1>3, <2>1, <2>7 DEF Rest
<1>13. CASE Client!Chunk
  <2>1. UNCHANGED <<presented, file>> /\ quiet' = 0
        /\ (clientAt' = "remote" \/ clientAt' = clientAt)
    BY <1>13 DEF Client!Chunk
  <2>2. PICK n \in 1 .. MaxChunk :
          /\ arrived + n <= Len(Client!AllBytes)
          /\ \/ buffer' = buffer
             \/ /\ Len(buffer) + n <= MOST_EVENT_BYTES
                /\ buffer' = buffer \o SubSeq(Client!AllBytes, arrived + 1, arrived + n)
    <3>1. Len(buffer) \in Nat
      BY <1>11
    <3>2. PICK n \in 1 .. MaxChunk :
            /\ arrived + n <= Len(Client!AllBytes)
            /\ IF Len(buffer) + n > MOST_EVENT_BYTES
               THEN buffer' = buffer
               ELSE buffer' = buffer \o SubSeq(Client!AllBytes, arrived + 1, arrived + n)
      BY <1>13 DEF Client!Chunk
    <3>3. n \in Nat
      BY <1>1
    <3>4. Len(buffer) + n > MOST_EVENT_BYTES \/ Len(buffer) + n <= MOST_EVENT_BYTES
      BY <1>1, <3>1, <3>3
    <3> QED
      BY <3>2, <3>4
  <2> DEFINE all == Client!AllBytes
             piece == SubSeq(all, arrived + 1, arrived + n)
  <2>3. piece \in Seq(Symbols(V)) /\ Len(piece) = n
    <3> DEFINE s == arrived + 1
               t == arrived + n
               size == Len(all)
    <3>1. all \in Seq(Symbols(V)) /\ size \in Nat /\ arrived \in 0 .. size
          /\ arrived + n <= size /\ n \in Nat /\ n >= 1
      BY <1>1, <1>11, <2>2
    <3> HIDE DEF all, size
    <3>2. s \in 1 .. size /\ t \in s .. size /\ (t - s) + 1 = n
      BY <3>1
    <3> HIDE DEF s, t
    <3>3. SubSeq(all, s, t) \in Seq(Symbols(V)) /\ Len(SubSeq(all, s, t)) = (t - s) + 1
      BY <3>1, <3>2 DEF size
    <3> QED
      BY <3>2, <3>3 DEF s, t
  <2> HIDE DEF piece
  <2>4. Len(buffer \o piece) = Len(buffer) + n
    BY <1>11, <2>3, Joined
  <2>5. Len(buffer') <= MOST_EVENT_BYTES
    BY <1>2, <2>2, <2>4 DEF piece, Rest
  <2>6. clientAt' \in Places
    BY <1>2, <2>1 DEF Rest, Client!Over
  <2>7. quiet' \in 0 .. IDLE
    BY <1>1, <2>1
  <2> QED
    BY <1>2, <1>3, <2>1, <2>5, <2>6, <2>7 DEF Rest
<1>14. CASE UNCHANGED Client!vars
  BY <1>2, <1>3, <1>14 DEF Client!vars, Rest
<1> QED
  BY <1>5, <1>6, <1>8, <1>9, <1>10, <1>12, <1>13, <1>14 DEF Client!Next

\* Every part of the server, and the connection of a client, keep to their types, together
\* as each on its own: they share nothing.
THEOREM TypesAreKept ==
    Spec /\ Adm!Spec /\ Starting!Spec /\ Serve!Spec /\ Client!Spec => []TypesOK
<1> Adm!Bounds /\ Starting!Bounds /\ Serve!Bounds /\ Client!Bounds
  BY ServerBounds
<1>1. Adm!IndInv => Adm!TypeOK
  BY DEF Adm!IndInv
<1>2. Starting!IndInv => Starting!TypeOK
  BY DEF Starting!IndInv
<1>3. Serve!IndInv => Serve!TypeOK
  BY DEF Serve!IndInv
<1>4. Client!Init => Client!TypeOK /\ Client!Budgeted /\ Client!NothingIsLost
  <2> SUFFICES ASSUME Client!Init PROVE Client!TypeOK /\ Client!Budgeted /\ Client!NothingIsLost
    OBVIOUS
  <2>1. Client!Budgeted
    BY DEF Client!Bounds, Client!Init, Client!Budgeted, Client!Nothing
  <2>2. Client!NothingIsLost
    BY NothingLostAtFirst
  <2>3. PICK V : IsBuffered(V)
    BY <2>2, BufferIs
  <2>4. arrived \in 0 .. Len(Client!AllBytes)
    BY <2>3 DEF IsBuffered
  <2>5. /\ TIMEOUT \in Nat /\ IDLE \in Nat /\ SLICE \in Nat /\ MOST_EVENT_BYTES \in Nat
        /\ MaxTokens \in Nat
    BY DEF Client!Bounds
  <2>6. Len(buffer) = 0
    BY DEF Client!Init
  <2>7. /\ clientAt = "connect" /\ elapsed = 0 /\ deadline = TIMEOUT /\ quiet = 0
        /\ file \in 1 .. MaxTokens /\ presented = 0 /\ stopping = 0
    BY DEF Client!Init, Client!Nothing
  <2>8. /\ elapsed \in Nat /\ deadline \in Nat /\ quiet \in 0 .. IDLE
        /\ file \in 0 .. MaxTokens /\ presented \in 0 .. MaxTokens
        /\ stopping \in 0 .. IDLE + SLICE + 1 /\ Len(buffer) <= MOST_EVENT_BYTES
    BY <2>5, <2>6, <2>7
  <2>9. clientAt \in Client!Waiting
    BY <2>7 DEF Client!Waiting
  <2>10. Client!TypeOK
    BY <2>4, <2>8, <2>9 DEF Client!TypeOK
  <2> QED
    BY <2>1, <2>2, <2>10
<1>5. Client!Spec => []Client!TypeOK
  BY <1>4, ClientNext, NothingGetsLost, ClientTypes, PTL DEF Client!Spec
<1> QED
  BY <1>1, <1>2, <1>3, <1>5, SectionTypeOK, AdmissionInv, StartingInv, ServingInv, PTL
     DEF TypesOK
=============================================================================
