---------------------------- MODULE SourceOptions ----------------------------
(***************************************************************************)
(* What a source was told about its client, and what its requests are made *)
(* with.  One vocabulary (TlsConfig, with_timeout, with_format) reaches    *)
(* nine clients, and the sources differ in when they build theirs:         *)
(*                                                                         *)
(*   etcd, Redis, NATS, S3   in the constructor, which reads the files     *)
(*   Vault, Firestore        at the first request, and it is kept          *)
(*   the config server       at the first request that can be, and kept    *)
(*   Consul                  at every request                              *)
(*   git                     at every fetch, if TLS was asked for          *)
(*                                                                         *)
(* Every call returns the source, so a source that has been used may be    *)
(* told something else; what it kept must not outlive that.  A client that *)
(* cannot express a setting must refuse it: `refused rather than ignored'. *)
(***************************************************************************)
EXTENDS Naturals, FiniteSets

CONSTANTS
    Configs,     \* the TlsConfigs a caller may give: records [ca, client, name, skip]
    Deadlines,   \* the timeouts a caller may set
    Default,     \* DEFAULT_TIMEOUT
    Formats,     \* the formats a key's extension may name
    MaxRotations \* bound: how many materials follow the first

None == "none"
TlsConfigs == [ca : {None, "file", "pem"}, client : {None, "file", "pem"},
               name : BOOLEAN, skip : BOOLEAN]
Empty == [ca |-> None, client |-> None, name |-> FALSE, skip |-> FALSE]
NoTls == [ca |-> "unset", client |-> None, name |-> FALSE, skip |-> FALSE]

Missing == 0
Malformed == 1
FirstMaterial == 2

Eager == {"etcd", "redis", "nats", "s3"}
Keeping == {"vault", "firestore"}

Stores == Eager \cup Keeping \cup {"consul", "git", "server"}

Bounds ==
    /\ Configs \subseteq TlsConfigs /\ IsFiniteSet(Formats)
    /\ Default \notin Deadlines /\ None \notin Deadlines \cup Formats \cup {Default}
    /\ MaxRotations \in Nat

VARIABLES
    store,    \* which store the source is of
    secure,   \* whether the address is an https one; of NATS, whether the server has TLS
    named,    \* the formats the extensions of its keys name
    at,       \* "constructing", "configuring", "built" or "refused"
    tls,      \* the TlsConfig given last; NoTls when none was
    agent,    \* whether the caller handed over a client: with_agent, from_client
    timeout,  \* the timeout set last; None when nobody set one
    chosen,   \* the format with_format settled on
    complaint,\* whether the extensions' disagreement stands
    file,     \* the material's file: Missing, Malformed, or one after another
    kept,     \* the client, or Redis' connection, the source keeps
    sent      \* what the last fetch was made with, if nothing was called since

address == <<store, secure, named>>
options == <<tls, agent, timeout, chosen, complaint>>
vars == <<address, at, options, file, kept, sent>>

FromFiles(config) == "file" \in {config.ca, config.client}

Nothing == [is |-> "nothing", tls |-> NoTls, read |-> Missing, deadline |-> None]
Refused == [Nothing EXCEPT !.is = "refused"]
Foreign == [Nothing EXCEPT !.is = "foreign"]
Own(config, deadline) ==
    [is |-> "own", tls |-> config, deadline |-> deadline,
     read |-> IF FromFiles(config) THEN file ELSE Missing]

Unsent == [outcome |-> "unsent", client |-> Nothing, format |-> None]

Init ==
    /\ store \in Stores /\ secure \in BOOLEAN
    /\ named \in SUBSET Formats
    /\ at = IF store \in Eager THEN "constructing" ELSE "configuring"
    /\ tls = NoTls /\ agent = FALSE /\ chosen = None
    /\ timeout = Default
    /\ complaint = (Cardinality(named) > 1)
    /\ file \in {Missing, Malformed, FirstMaterial}
    /\ kept = Nothing /\ sent = Unsent

-----------------------------------------------------------------------------
(* The translation of the vocabulary: what each client can be told, as its *)
(* translation refuses the rest.                                           *)

UreqExpresses(config) == ~config.name
ReqwestExpresses(config) == ~config.name
EtcdExpresses(config) == ~config.skip
RedisExpresses(config) == ~config.name /\ ~config.skip
S3Expresses(config) == ~config.name /\ ~config.skip /\ config.client = None
NatsExpresses(config) ==
    /\ ~config.name /\ ~config.skip
    /\ config.ca # "pem" /\ config.client # "pem"

CanExpress(config) ==
    CASE store \in Keeping \cup {"consul"} -> UreqExpresses(config)
      [] store = "git" -> ReqwestExpresses(config)
      [] store = "etcd" -> EtcdExpresses(config)
      [] store = "redis" -> RedisExpresses(config)
      [] store = "nats" -> NatsExpresses(config)
      [] store = "s3" -> S3Expresses(config)
      [] store = "server" -> TRUE

\* ca_certificate_pem and client_certificate_pem, and the parsing of what they read.
Readable(config) == FromFiles(config) => file >= FirstMaterial

\* The client built of `config', which is NoTls when there was no with_tls.
Client(config, deadline) ==
    IF config = NoTls \/ (CanExpress(config) /\ Readable(config))
    THEN Own(config, deadline) ELSE Refused

\* Vault and Firestore hold documents, and a config server answers in JSON.
HasAFormat == store \notin Keeping \cup {"server"}

\* The formats the extensions agree on; nothing where there is none to agree on.
AgreedFormat == IF Cardinality(named) = 1 THEN CHOOSE f \in named : TRUE ELSE None

\* One source reads one format: the caller's, if with_format was called.
Format ==
    IF chosen # None THEN chosen ELSE IF complaint THEN None ELSE AgreedFormat

-----------------------------------------------------------------------------
(* The constructors.                                                       *)

Constructed(client) ==
    /\ at = "constructing"
    /\ kept' = client
    /\ at' = IF client = Refused THEN "refused" ELSE "built"
    /\ sent' = Unsent
    /\ UNCHANGED <<address, chosen, complaint, file>>

EtcdNew ==
    /\ store = "etcd"
    /\ Constructed(Own(NoTls, timeout))
    /\ UNCHANGED <<tls, agent, timeout>>

NatsNew ==
    /\ store = "nats"
    /\ Constructed(Own(NoTls, timeout))
    /\ UNCHANGED <<tls, agent, timeout>>

\* The connection is opened by the first read.
RedisNew ==
    /\ store = "redis"
    /\ Constructed(Nothing)
    /\ UNCHANGED <<tls, agent, timeout>>

\* The SDK has no deadline of its own; it is given one unless the caller's
\* configuration has.
S3WithConfig ==
    /\ store = "s3"
    /\ timeout' \in Deadlines \cup {Default}
    /\ Constructed(Own(NoTls, timeout'))
    /\ UNCHANGED <<tls, agent>>

EtcdWithTls(config) ==
    /\ store = "etcd"
    /\ tls' = config
    /\ Constructed(Client(config, timeout))
    /\ UNCHANGED <<agent, timeout>>

\* A plaintext address is refused before anything else.
RedisWithTls(config) ==
    /\ store = "redis"
    /\ tls' = config
    /\ Constructed(IF secure THEN Client(config, None) ELSE Refused)
    /\ UNCHANGED <<agent, timeout>>

\* A configuration that names anything requires TLS of the connection.
NatsWithTls(config) ==
    /\ store = "nats"
    /\ tls' = config
    /\ Constructed(IF config = Empty \/ secure THEN Client(config, timeout) ELSE Refused)
    /\ UNCHANGED <<agent, timeout>>

\* No deadline is set here: there is what the caller's configuration has, or nothing.
S3WithTls(config) ==
    /\ store = "s3"
    /\ tls' = config
    /\ timeout' \in Deadlines \cup {None}
    /\ Constructed(Client(config, timeout'))
    /\ UNCHANGED agent

\* from_client, and from_store of NATS.
FromClient ==
    /\ agent' = TRUE
    /\ Constructed(Foreign)
    /\ UNCHANGED <<tls, timeout>>

\* Builder::build of git.
GitBuild ==
    /\ store = "git" /\ at = "configuring"
    /\ at' = IF (tls \notin {NoTls, Empty} => secure) /\ Format # None
             THEN "built" ELSE "refused"
    /\ sent' = Unsent
    /\ UNCHANGED <<address, options, file, kept>>

-----------------------------------------------------------------------------
(* What a source that exists may be told, until it is one that git built.  *)

Configurable == at = "configuring" \/ (at = "built" /\ store # "git")

\* It is read later, and the client that was kept may have to go.
WithTls(config, client) ==
    /\ at = "configuring"
    /\ tls' = config
    /\ kept' = client
    /\ sent' = Unsent
    /\ UNCHANGED <<address, at, agent, timeout, chosen, complaint, file>>

\* Nothing is kept by Consul, nor by the builder of git.
ConsulWithTls(config) == store = "consul" /\ WithTls(config, kept)
GitWithTls(config) == store = "git" /\ WithTls(config, kept)

\* Vault and Firestore forget the client they kept.
VaultWithTls(config) == store = "vault" /\ WithTls(config, Nothing)
FirestoreWithTls(config) == store = "firestore" /\ WithTls(config, Nothing)

\* The config server's keeps it.
ServerWithTls(config) == store = "server" /\ WithTls(config, kept)

WithAgent ==
    /\ at = "configuring"
    /\ agent' = TRUE
    /\ sent' = Unsent
    /\ UNCHANGED <<address, at, tls, timeout, chosen, complaint, file, kept>>

ConsulWithAgent == store = "consul" /\ WithAgent
VaultWithAgent == store = "vault" /\ WithAgent
FirestoreWithAgent == store = "firestore" /\ WithAgent

WithTimeout(t, client) ==
    /\ Configurable
    /\ timeout' = t
    /\ kept' = client
    /\ sent' = Unsent
    /\ UNCHANGED <<address, at, tls, agent, chosen, complaint, file>>

\* etcd and NATS wrap each request in it; Consul, git and the config server's client
\* use it for each.
EtcdWithTimeout(t) == store = "etcd" /\ WithTimeout(t, kept)
NatsWithTimeout(t) == store = "nats" /\ WithTimeout(t, kept)
ConsulWithTimeout(t) == store = "consul" /\ WithTimeout(t, kept)
GitWithTimeout(t) == store = "git" /\ WithTimeout(t, kept)
ServerWithTimeout(t) == store = "server" /\ WithTimeout(t, kept)

\* Mutant: the client that was made under the old timeout is kept.
VaultWithTimeoutKeeping(t) == store = "vault" /\ WithTimeout(t, kept)

\* An agent was built with the old one in it.
VaultWithTimeout(t) == store = "vault" /\ WithTimeout(t, Nothing)
FirestoreWithTimeout(t) == store = "firestore" /\ WithTimeout(t, Nothing)

\* The client is built again out of its own configuration.
S3WithTimeout(t) == store = "s3" /\ WithTimeout(t, [kept EXCEPT !.deadline = t])

\* A connection carries it in its socket options.
RedisWithTimeout(t) == store = "redis" /\ WithTimeout(t, [kept EXCEPT !.deadline = None])

WithFormat(f) ==
    /\ Configurable /\ HasAFormat
    /\ chosen' = f
    /\ complaint' = FALSE
    /\ sent' = Unsent
    /\ UNCHANGED <<address, at, tls, agent, timeout, file, kept>>

\* The operator renews, breaks or mounts the material.
Rotate ==
    /\ file' \in Missing .. FirstMaterial + MaxRotations
    /\ file' # file
    /\ sent' = Unsent
    /\ UNCHANGED <<address, at, options, kept>>

-----------------------------------------------------------------------------
(* A fetch.                                                                *)

Send(client) ==
    sent' = [outcome |-> IF client.is = "refused" THEN "refused" ELSE "sent",
             client |-> client,
             format |-> IF HasAFormat THEN Format ELSE None]

Unformatted == HasAFormat /\ Format = None

\* format(): refused before any request.
RefuseFormat ==
    /\ at \in {"configuring", "built"} /\ store # "git" /\ Unformatted
    /\ sent' = [Unsent EXCEPT !.outcome = "unformatted"]
    /\ UNCHANGED <<address, at, options, file, kept>>

\* agent(): the caller's, unless with_tls was called too.
AgentOf == IF tls # NoTls THEN Refused ELSE Foreign

ConsulFetch ==
    /\ store = "consul" /\ at = "configuring" /\ ~Unformatted
    /\ Send(IF agent THEN AgentOf ELSE Client(tls, timeout))
    /\ UNCHANGED <<address, at, options, file, kept>>

\* get_or_init keeps a client that could not be built, too.
Keep == IF kept = Nothing THEN Client(tls, timeout) ELSE kept

VaultFetch ==
    /\ store = "vault" /\ at = "configuring"
    /\ kept' = IF agent THEN kept ELSE Keep
    /\ Send(IF agent THEN AgentOf ELSE Keep)
    /\ UNCHANGED <<address, at, options, file>>

FirestoreFetch ==
    /\ store = "firestore" /\ at = "configuring"
    /\ kept' = IF agent THEN kept ELSE Keep
    /\ Send(IF agent THEN AgentOf ELSE Keep)
    /\ UNCHANGED <<address, at, options, file>>

\* tls_client keeps what it could build; the name to check is read for each connection,
\* and so is the timeout.
ServerFetch ==
    /\ store = "server" /\ at = "configuring"
    /\ kept' = IF secure /\ Keep # Refused THEN Keep ELSE kept
    /\ Send(IF Keep = Refused THEN Refused
            ELSE [Keep EXCEPT !.deadline = timeout, !.tls.name = tls.name])
    /\ UNCHANGED <<address, at, options, file>>

\* The deadline around a request is the source's.
EtcdFetch ==
    /\ store = "etcd" /\ at = "built" /\ ~Unformatted
    /\ Send([kept EXCEPT !.deadline = timeout])
    /\ UNCHANGED <<address, at, options, file, kept>>

NatsFetch ==
    /\ store = "nats" /\ at = "built" /\ ~Unformatted
    /\ Send([kept EXCEPT !.deadline = timeout])
    /\ UNCHANGED <<address, at, options, file, kept>>

S3Fetch ==
    /\ store = "s3" /\ at = "built" /\ ~Unformatted
    /\ Send(kept)
    /\ UNCHANGED <<address, at, options, file, kept>>

\* open() puts the deadline into the connection that is kept; a fetch that fails
\* drops the connection.
RedisFetch ==
    /\ store = "redis" /\ at = "built" /\ ~Unformatted
    /\ LET client == IF kept = Nothing THEN Own(NoTls, None) ELSE kept
           connection == IF client.deadline # None THEN client
                         ELSE [client EXCEPT !.deadline = timeout] IN
       /\ Send(connection)
       /\ kept' \in {connection, [connection EXCEPT !.deadline = None]}
    /\ UNCHANGED <<address, at, options, file>>

\* Without TLS it is gix's own transport, which takes no deadline from here.
GitFetch ==
    /\ store = "git" /\ at = "built"
    /\ Send(IF tls \in {NoTls, Empty} THEN Own(tls, None) ELSE Client(tls, timeout))
    /\ UNCHANGED <<address, at, options, file, kept>>

TellAboutTls(config) ==
    \/ EtcdWithTls(config) \/ RedisWithTls(config) \/ NatsWithTls(config)
    \/ S3WithTls(config) \/ ConsulWithTls(config) \/ GitWithTls(config)
    \/ VaultWithTls(config) \/ FirestoreWithTls(config) \/ ServerWithTls(config)

TellAboutTimeout(t) ==
    \/ EtcdWithTimeout(t) \/ NatsWithTimeout(t) \/ ConsulWithTimeout(t)
    \/ GitWithTimeout(t) \/ ServerWithTimeout(t) \/ VaultWithTimeout(t)
    \/ FirestoreWithTimeout(t) \/ S3WithTimeout(t) \/ RedisWithTimeout(t)

Next ==
    \/ EtcdNew \/ NatsNew \/ RedisNew \/ S3WithConfig \/ FromClient \/ GitBuild
    \/ ConsulWithAgent \/ VaultWithAgent \/ FirestoreWithAgent \/ Rotate \/ RefuseFormat
    \/ \E config \in Configs : TellAboutTls(config)
    \/ \E t \in Deadlines : TellAboutTimeout(t)
    \/ \E f \in Formats : WithFormat(f)
    \/ ConsulFetch \/ VaultFetch \/ FirestoreFetch \/ ServerFetch
    \/ EtcdFetch \/ NatsFetch \/ S3Fetch \/ RedisFetch \/ GitFetch

Spec == Init /\ [][Next]_vars

-----------------------------------------------------------------------------
(* Properties.                                                             *)

\* Every variable holds a value of its type.
TypeOK ==
    /\ store \in Stores /\ secure \in BOOLEAN /\ named \subseteq Formats
    /\ at \in {"constructing", "configuring", "built", "refused"}
    /\ tls \in TlsConfigs \cup {NoTls} /\ agent \in BOOLEAN
    /\ timeout \in Deadlines \cup {Default, None}
    /\ chosen \in Formats \cup {None} /\ complaint \in BOOLEAN
    /\ file \in Missing .. FirstMaterial + MaxRotations
    /\ kept.is \in {"nothing", "refused", "foreign", "own"}
    /\ sent.outcome \in {"unsent", "refused", "unformatted", "sent"}

Sent == sent.outcome = "sent"
ChecksTheAddress == store \in {"redis", "nats", "git"}
UngovernedGit == store = "git" /\ tls \in {NoTls, Empty}

Applied ==
    Sent =>
        /\ sent.client.tls = tls
        /\ tls # NoTls =>
            /\ ~agent
            /\ ChecksTheAddress => secure \/ tls = Empty
            /\ store \in {"consul", "git"} /\ FromFiles(tls) => sent.client.read = file

\* A fetch that goes out was made with the TLS settings given last, every one of
\* them, whatever was called before and after; and never over a plaintext address
\* where the store looks at it.  Consul and git read the material again each time.
\* (`refused rather than ignored'; `The cached fallback client baked in the old
\* configuration'; `a rotated CA file is picked up by the next fetch'.)
SettingsAreAppliedOrRefused == store # "server" => Applied

\* The same of the config server's client, which takes `the same TlsConfig the store
\* crates take, so a deployment spells its trust once and uses it everywhere'.
ServerSettingsAreApplied == store = "server" => Applied

\* A fetch of a client the crate built ends at the timeout set last, though the
\* client, the connection or the SDK's configuration was made under another.
\* (`The cached fallback client baked in the old timeout'; `A connection opened under
\* the old deadline carries it in its socket options, so the cached one has to go'.)
DeadlineIsTheLastOneSet ==
    Sent /\ sent.client.is = "own" /\ ~UngovernedGit => sent.client.deadline = timeout

\* What is parsed is parsed in the format the caller chose, or in the one that every
\* extension agrees on; and a fetch is refused for its format exactly when there is
\* neither.
\* (`settles a list whose keys name two different formats'.)
FormatIsNobodysGuess ==
    sent.outcome # "unsent" /\ HasAFormat =>
        IF sent.outcome = "unformatted"
        THEN chosen = None /\ Cardinality(named) # 1
        ELSE sent.format = chosen \/ (chosen = None /\ named = {sent.format})

\* A client the crate built has a deadline, so that a store that does not answer ends
\* a fetch.
\* (CHANGELOG: `S3 has a default timeout where this crate built the client'.)
EveryOwnClientHasADeadline ==
    Sent /\ sent.client.is = "own" /\ store # "git" => sent.client.deadline # None

-----------------------------------------------------------------------------
(* What makes the first of them inductive.                                 *)

Clients ==
    [is : {"nothing", "refused", "foreign", "own"}, tls : TlsConfigs \cup {NoTls}, read : Nat,
     deadline : Deadlines \cup {Default, None}]

OptionsAreTyped == TypeOK /\ kept \in Clients

\* A client that is kept was made with what was set last.
KeptIsCurrent ==
    /\ at = "constructing" => store \in Eager /\ tls = NoTls /\ ~agent
    /\ store \in Eager /\ at = "built" =>
        /\ kept.tls = tls
        /\ tls # NoTls => ~agent /\ (ChecksTheAddress => secure \/ tls = Empty)
    /\ store = "s3" /\ kept.is = "own" => kept.deadline = timeout
    /\ store = "redis" => kept.deadline \in {None, timeout}
    /\ store \in Keeping =>
        /\ kept.is # "foreign"
        /\ kept.is = "nothing" => kept = Nothing
        /\ kept.is = "own" => kept.tls = tls /\ kept.deadline = timeout
    /\ store = "git" =>
        /\ ~agent
        /\ at = "built" => Format # None /\ (tls \notin {NoTls, Empty} => secure)

ComplaintIsOfTheNames == chosen = None => complaint = (Cardinality(named) > 1)

IndInv ==
    /\ OptionsAreTyped /\ KeptIsCurrent /\ ComplaintIsOfTheNames
    /\ SettingsAreAppliedOrRefused /\ DeadlineIsTheLastOneSet /\ FormatIsNobodysGuess
=============================================================================
