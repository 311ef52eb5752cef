# dynamic-config-remote in TLA+

This directory is a formal model of dynamic-config-remote: the config server
from its configuration to its last connection, its client, and what the store
crates do for a fetch, a watch, a lease and a credential. It holds TLA+ modules
translated from the Rust source, TLC configurations that check them on small
instances, and theorems whose proofs TLAPS checks for every value of the constants:
every safety property that a passing run checks is one of them.

Paths below are those of the repository. `PROJECT.json` lists, for every
definition that models code, the lines it models; for every property, a
plausible bug of the code that breaks it (`mutants`); and, under `hazards`, what
in this code is hard to test and which property watches it.

## The system

One program (the *engine*, `dynamic-config`, which is a dependency and not in
this repository) holds typed configuration in memory and installs a new document
when one arrives. The crates here bring documents to it.

| Part | Source | State it keeps | Operations | What makes it correct |
|---|---|---|---|---|
| Served sections | `dynamic-config-server/src/server.rs`, `routes/documents.rs` | per section: snapshot, generation, the last reload's outcome, a watcher | load at start, reload on a debounced file event or on request, `current`, `installed`, `is_ready` | an answer is never labelled ahead of its contents; readiness tells the truth about the files, and no edit is swallowed, once they are watched |
| Change stream | `routes/stream.rs`, `server.rs` (`open_stream`) | per connection: `Generations` (resumed from, last sent); per server: the count of streams | subscribe with `Last-Event-ID`, emit, end | ids increase; a place is neither leaked nor given twice |
| Config-server client | `client/mod.rs`, `client/http.rs` | the id to resume from, the document last delivered | subscribe, read events, fetch, deliver, reconnect | the id never runs ahead of what was read; no change is lost to a reconnection |
| In-flight ceiling | `dynamic-config-store-core/src/concurrency.rs` | an atomic counter | `admit`, drop of a permit | exact count, never over the ceiling |
| Cached credential | `store-core/src/credential.rs`, users in Vault, Consul, Firestore | a mutex over token and expiry | `get`, `invalidate` | one login at a time, none redundant; a retry presents another token |
| Calls of Vault | `dynamic-config-vault/src/lib.rs`, `auth.rs` | the two above | `get`, `post_authenticated`, `renew`, `login` | permits balance on every path; no deadlock; every call ends |
| Leases, dynamic secrets | `dynamic-config-vault/src/lib.rs` | the session's token; the lease handed over | read, renew, revoke | a lease ends with its credential, is not over at once, and is not dropped |
| Transit | `dynamic-config-vault/src/transit.rs` | none | search, decrypt, substitute | every ciphertext is replaced as if all were at once, for one request |
| Polling watches | `Vault::watch`, `S3::watch`, `Firestore::watch`, `Git::watch` | the version seen, the pace | check, read, deliver, report | nothing skipped, nothing delivered twice, failures reported |
| Consul watch | `dynamic-config-consul/src/lib.rs` | the blocking query's index, the last document | query, reset, deliver | neither a failure nor an index that goes back makes it skip or repeat a document |
| etcd watch | `dynamic-config-etcd/src/lib.rs` | the stream, `resume_from`, `token_recoveries` | message, range read, recovery | deliveries never go back, nothing skipped over a recovery |
| Redis watch | `dynamic-config-redis/src/lib.rs` | a subscription, the last document | notification, re-read, deliver | a delivery is a state of the whole list, never older than the last; at rest it is the current one |
| NATS watch | `dynamic-config-nats/src/lib.rs` | a stream of entries | entry, deliver | in order |
| Git working directory | `dynamic-config-git/src/working.rs`, `lib.rs`, `fetch.rs` | a bare repository on disk, its marker, the claim, the fetch mutex | claim, compact, open or create, advertise, receive, read | nothing a call needs is removed; a repository of the caller's is left alone |
| Documents of several keys | `store-core/src/documents.rs`, the fetches of the eight stores | what was found of each key so far | list or scan, read, fold | no key is left out; an atomic read is one state; precedence is the caller's |
| Options of a source | the constructors and builders of the nine sources, the `tls.rs` files, `store-core/src/format.rs` | the TLS, agent, timeout and format set; the client that was built | set, build, fetch | what was set last is what a fetch uses, or it is refused |
| Failed attempts | `store-core/src/attempts.rs` | a sink | `failed` | a failing loop does not pass for healthy |
| Admission, authentication, audit | `routes/*.rs`, `auth.rs`, `kubernetes.rs`, `audit.rs` | the cache of TokenReviews, the streams open | authenticate, review, admit, answer, record | who may read what, and it cannot be guessed; an answer is recorded |
| Configuration and start | `config/`, `server.rs`, `tls.rs` of the server | the roster and the sections | validate, read certificates, load, watch, bind | nothing is opened for a server that would let anybody in |
| Serving loop | `serve.rs` | connections with a deadline each | accept, shake hands, serve, drain | no connection is for ever, and the server ends |
| Client's connection | `client/http.rs`, `client/mod.rs` | a deadline, a buffer | connect, present a token, read, decode | events are as they were written; deadlines are kept |
| Health wording, diagnostics, argument parsing | `routes/health.rs`, `routes/diagnostics.rs`, `main.rs` | none | output | - |

**How they interact.** A file event wakes the section's watcher, which reloads:
the engine publishes the snapshot, then the generation, then wakes the streams.
A stream sends the generation to its client; the client fetches the document
over another connection, hands it to the program's callback, and only then
moves the id it will resume from. In a store crate every thread that reads goes
through the ceiling and the cached credential; a watch loop runs on a thread or
task of its own and calls the program back. In front of that is the server's
accept loop, which gives each connection a task, and each request its admission.

**What is hard.** Two loads that are not one (`Section::installed`); coalesced
notifications; connections that die without a word; a restart that counts from
one again; a mutex held across a login, by a thread that holds a permit and may
want a second; a write between a check and its read; a token that expires under
a stream; a read at a revision that is being compacted; a fetch made of many requests
while its keys are written; certificates replaced while they are read; options
set after a client was built; a directory emptied by one thread that another
reads; two clocks that disagree about when a certificate ends; a shutdown that
meets connections at every stage.

## Modules

Each component has a module. Four modules bring those of one side together:
**Server** (ServedSection, Admission, ServerStart, Serving, ClientConnection),
**Watches** (WorkingDirectory, PolledWatch, EtcdWatch, ConsulWatch, SubscribedWatch),
**Calls** (InFlight with a ceiling and without, VaultCalls) and **Sources**
(CredentialCache, SourceFetch, SourceOptions, Transit, Leases). Each extends the first
of its parts and instantiates the others, declares what they need as constants and
variables, assumes their `Bounds` by name, and states their properties under their own
names; the parts share no state in the model. What is checked and what is proved
are these same definitions.

`MC...` modules give the constants values for TLC. `MCServer`, `MCSources`, `MCCalls`
and `MCWatches` put the parts one at a time: a variable `which`, chosen at the start,
says whose behaviour it is, and the other parts are where they have ended.

**ServedSection** models one section from its files to an answer. `sources` is
what is on disk (a version, and whether it loads), `noticed` the debounced
event, `reload` the reload in progress, `installs` the documents installed,
`generation` the number published after them and `healthy` the recorded outcome.
`Edit`, `WatchWakes`, `ReloadCalled`, `ReadSources`, `PublishDocument` and
`PublishGeneration` are the steps of a reload; `LoadGeneration` and
`LoadDocument` are the two loads of `Section::installed`. Snapshot and generation are
published in two steps because the engine does so (the comment in `server.rs:62-87`
depends on it). `Crash`, `LoadAtStart` and `WatchAtStart` are the process:
`load_section` first loads (`server.rs:485`) and then watches (`server.rs:500`), and an
edit, or the end of the process, may fall between the two. Such an edit wakes nobody.
`missed` is a history variable, TRUE from such an edit until the files are read again or
another edit is noticed; no action reads it, and the two properties about the files say
nothing while it is TRUE.

**ConfigWatch** composes a ServedSection (INSTANCE) with the streams of the
server and the loops of the clients. `stream` is the server's `Generations` of
each connection, `wire` what has been sent and not read, `client` the loop of
`ConfigServer::watch`, `streams` and `orphans` the places taken by live
connections and by those whose client has gone unnoticed. A fetch is a document
request of the section, so an install may land between any two of its steps.
`StreamLost`, `FetchLost`, `FetchDies` and `Crash` cut a connection at any point.

**WatchContract** is the abstract specification of the two together while one
process serves: a program learns once where the section stands, and from then on
only moves forward, to documents at least as new as what it claims, and in the
end catches up. `ConfigWatch!KeepsTheContract` is the refinement.

**Permits** is the abstract ceiling (granted while there is room, refused when
full, in one step). **InFlight** is the compare-and-swap loop, one atomic access
per action, shared by `StoreRuntimePolicy::admit` and `Server::open_stream`,
which differ in what zero means (`ZeroIsUnbounded`). `KeepsTheCeiling` is the
refinement.

**CredentialCache** is `Cached::get` and `invalidate` with threads that call the
store: `ObtainByLogin`, `ObtainByRenewal`, `Renewed`, `RenewalFails`, `LoggedIn`
and `LoginFails` happen with the mutex held (`lock`); `Forbidden`, `Invalidate`
and `Retry` are the one retry of a read. Time appears only as `GoStale`, which
may happen at any moment.

**VaultCalls** composes CredentialCache (INSTANCE) with a ceiling that is asked
and answers in one step, as InFlight shows it may be: a read takes its permit
before the token, a post after it, a renewal one of its own, a login none.

**PolledWatch** is the loop of the four polling watches. `kind` selects the
store, whose differences are in the guards: Vault and Firestore number or date
their versions and S3 and git name the contents, so a tag may come back;
Firestore checks and reads in one request; S3 may leave the tag out of a read;
git reports no failure; S3 never ends on a refused check. `writes`, `baseline`
and `delivered` are history; `seen` and `checked` are the loop's.

**EtcdWatch** is `Etcd::watch` for a key and for a prefix. The store is its log
of revisions; a stream is the next revision it will offer. `KeyEvents`,
`PrefixMoved` and `RangeRead` are the two shapes of delivery, `TokenExpires` and
`Recover` the recovery with its cap, `Compact` and `StreamEnds` the cancelled
watch. Whether the creation of a watch is a message the loop receives depends on
the client library, so both are checked (`Announcing`).

**ConsulWatch** is `Consul::watch` for a key and for a prefix. `states` is the
history of what is there, a document or one of the things that are none (`absent`
is Consul's 404, `empty` an answer with nothing to load, `clash` keys that do not
fold). An answer is taken at one index and processed later (`Answer`, then one of
`FoldFails`, `FoundNothing`, `Primed`, `Unchanged`, `HandedOver`), so that writes
and restarts of the agent fall in between. The agent may answer at any time: at
once when its index has moved, when the wait is over otherwise.

**SubscribedWatch** is the loop of Redis (a key or a named list) and of NATS (a
key): `queue` is what the subscription has said and the loop has not heard. NATS
delivers what a notification carries (`Entry`), Redis reads its keys again in one
`MGET` (`ReadAgain`), which may find something newer; the document waits
(`holding`) for the comparison of a list and the callback, and the store goes on
meanwhile. One command may change several keys, and says so of each.

**WorkingDirectory** is where a git source keeps its objects. `entries` and
`packs` are what a process leaves on disk, `live` the sources that hold the claim,
`fetching` the mutex of each, `at` the place of each thread in one attempt:
`Lock`, `Compact` and `RemoveEntry`, `Open` and, for a new one, `Mark` after it,
`Advertised`, `Receive`, `ReadDocuments`. `Crash` may come between any
two of them. A directory that was a repository before it was named (`theirs`) is
in the model too.

**SourceFetch** is one fetch of several keys, of each of the eight stores, while
they are written. `history` is the states of the store, `found` and `cursor` what
`SCAN`, a listing or a walk has come to, `held` what was read of each key so far,
`answer` what the fold makes of it. Each store has its own actions for its own
requests and shares the fold (`Merged` with the overlap check, or the caller's
order): `InOrder` is the keys in the store's order, and `Folded` what the documents are
merged into, one after another. `WatchesOf` are the shapes a watch accepts.

**SourceOptions** is what nine sources do with their builders: `tls`, `agent`,
`timeout` and `chosen` are what was set last, `kept` the client that a source
holds on to, `sent` what the last fetch was made with. The sources differ in when
they read the certificates (`Eager`, `Keeping`, at every request) and in which
call drops what was kept. `file` is the material, missing, malformed or rotated.

**Transit** is the search for ciphertexts in a text of any format, the batch that
decrypts them and the substitution, longest first. `Tokens` is the loop of the search,
`Token` a run from a marker to the document's own punctuation, `Ciphertexts` those of
them that hold more than the marker, once; `Replace` is `str::replace`, with what
`StandsAt` a place of the text, and `Substitutions` one replacement after another, in
the order of `LongestFirst`: the code sorts the keys of a map, and which of two equally
long comes first does not matter, for the proof takes any such order. **Leases** is a dynamic secret
from its read to a renewal or an expiry under two clocks, with what Vault has
minted, what it revokes, and what the source has handed over.

**Admission** is a request from its header to the line in the audit log:
`Authenticate` (a header that is not text is taken for none), the review of a pod's token with its cache and its clock, the
grants, which precede every look at the sections, the place of a stream, the
answer. **ServerStart** is the start: every reason for which `validate` refuses (which of
several it names is left out), the certificates, each section loaded and watched, the roster, the port; the first
thing wrong ends it, and the certificate's files may be replaced meanwhile.
**Serving** is the accept loop of both paths, with the handshake's and the
headers' deadlines, the shutdown and the drain; time is a tick, and no deadline is
passed by the clock before what is due has happened. **ClientConnection** is the other end:
the budget shared by the phases of an attempt, the token read from its file for
each connection, the decoding of events that arrive in pieces, the two ends of a
stream that says nothing. `Bytes` is the stream on the wire, each event the `Lines` that
are `Written` for it; `Take` takes one complete block off the buffer, and `Parse` makes of
it what each of its lines is `Understood` to say.

**Proofs** are in `ServedSection_proofs`, `ConfigWatch_proofs`, `InFlight_proofs` and
`CredentialCache_proofs`, about the module each is named for, and in `Server_proofs`,
`Watches_proofs`, `Calls_proofs` and `Sources_proofs`, about the parts of those four.

## Runs

| Run | Configuration | What it shows | Bounds |
|---|---|---|---|
| `server` | Server.cfg | of all, types; of a section `LabelNeverLeads`, `ReadyIsTruthful`, `EditIsServed`; of a request `VerdictsAreRecent`, `NotYoursIsNoSuchThing`, `EveryAnswerIsRecorded`; of the start `NothingIsOpenedForTheWorld`, `ServesAsConfigured`, `KeyIsPrivateAndMatches`; of the connections `NothingIsHeldForEver`, `InFlightIsAnswered`, `ShutdownEnds`; of the client's `EventsAreAsWritten`, `DeadlinesAreKept` | section: 2 requests, 2 edits, 2 processes of which the first may not be watching yet, reloads on request while at most 2 are installed; admission: 2 requests side by side of every kind, a ceiling of 0 or 1, a verdict kept for 2 ticks and reviewed in 1, 3 ticks, 1 outage; start: every combination of 5 lists of sections, 10 of clients and the network settings, and of one sound configuration its files and cluster, 1 rotation; serving: 2 connections, both paths, deadlines of 2, 2 and 3 ticks; client: a budget of 2, a silence of 3, a slice of 1, events of 9 symbols, pieces of up to 7, 2 tokens |
| `watch` | ConfigWatch.cfg | `ResumeMeansRead`; `AtRestIsCurrent`; `ChangeReachesClient` | 1 client, a wire of 2, 2 lost connections, 1 edit and reloads up to 2 installs, 2 processes |
| `watch_contract` | ConfigWatchContract.cfg | `PermitsMatchStreams`; the refinement of WatchContract, its fairness included | 2 clients, 2 places, 2 edits, 1 lost connection, 1 process |
| `sources` | Sources.cfg | of the credential `SingleFlight`, `OneObtainPerLoss`, `RetryPresentsAnother`; of a fetch `NothingIsLeftOut`, `AtomicReadsAreOneState`, `PrecedenceIsTheCallers`; of the options `OptionsAreTheLastOnesSet`; of transit `EverythingIsOpenedAtOnce`; of leases `LeaseIsAsLongAsItLives`, `NoLeaseIsDropped` | credential: 3 threads (symmetric), 3 logins, 2 losses, 4 calls; fetch: 8 stores, 3 keys, lists of one and of two out of key order, 2 paths that may overlap, at most 2 keys of a prefix and 2 rounds, 2 writes; options: 9 sources, 7 TLS settings, 2 timeouts, 2 formats, 1 rotation; transit: every text of up to 6 symbols; leases: durations 0 and 2, lifetimes 1 and 3, clocks 1 apart either way, 3 ticks, 2 credentials, 1 renewal |
| `calls` | Calls.cfg | `CountIsExact` and the refinement of Permits; `PermitsBalance`; `CallsEnd` | 4 threads for 2 permits and, beside them, 3 with a ceiling of zero; Vault: 3 threads, 1 permit, 2 logins, 4 calls |
| `watches` | Watches.cfg | of every loop `FailuresAreReported`, `DeliveriesGoForward`, `NothingIsSkipped`, `ChangesAreDelivered`; of git's directory `NothingNeededIsRemoved`, `TheirsIsKept` | polls: 4 stores, 2 contents, 4 writes, 2 failures; etcd: both shapes, with and without creations, 3 revisions, 4 expiries; Consul: both shapes, 2 documents, 3 states, 1 restart, 1 failure; Redis and NATS: 2 keys, 2 values, 3 states, 1 failure; directory: 2 commits, 2 sources of 2 threads, compaction after 1 pack, 1 crash |
| `watch_restart` | ConfigWatchRestart.cfg | violates `NoChangeReconnectedPast` (finding 1) | 1 client, 2 edits, 2 processes |
| `vault_ceiling` | VaultCallsCeiling.cfg | violates `RequestsWithinCeiling` (finding 2) | 2 threads, 1 permit |
| `polled_git` | PolledWatchGit.cfg | violates `GitFailuresAreRecorded` (finding 3) | git, 2 writes, 1 failure |
| `etcd_quiet` | EtcdWatchQuiet.cfg | violates `ReplayedRatherThanLost` (finding 4) | a key, 2 revisions, 1 expiry |
| `consul_created` | ConsulWatchCreated.cfg | violates `CreatedKeyIsDelivered` (finding 5) | a key, 2 states |
| `options_server` | ServerOptions.cfg | violates `ServerSettingsAreApplied` (finding 6) | as in `sources` |

**Why the bounds are enough.** Each is the smallest at which the interesting
cases all occur. Two edits give a reload that overlaps the next edit; two
processes give a number that is issued twice. One client with a wire of two sees
coalesced, buffered and lost events; two clients with two places and an
abandoned connection give a full server. Two edits and two processes also put one edit
into the gap between a load and its watch, and another after it. Three threads let two queue behind one
that obtains, and a third be refused with what was obtained before. One permit
is the ceiling at which a renewal can never have one of its own. Four writes let
a document come back to what it said, twice; two failures let both halves of a
tick fail. Four expiries are one more than `MOST_TOKEN_RECOVERIES`. Three states
are what primes a Consul watch, what it delivers, and what comes while an answer
is processed; three commands on two keys tear a list that is read key by key. In a fetch two
writes change two keys between the reads of them, and three keys are one more
than a prefix may have. Six symbols hold two ciphertexts of which one begins the
other, with something around them. A clock that is off by one either way makes a
certificate of one tick look expired, and one of three look longer than its lease.
Two requests side by side are what a second verdict, a last place and a cache need;
two connections let the shutdown find one at each of two stages. Two commits and a
bound of one pack make every second call compact. Removing a
guard or swapping a pair of steps in any of the places named under `mutants` is
caught within these bounds.

**Deadlock.** No run looks for one (`CHECK_DEADLOCK FALSE`), because the systems
may stop for good: a watch or a server that has ended, a fetch that was answered, everybody
idle with the edits, calls or writes of the bound used up.
That nobody is stuck before that is the business of the liveness properties.

**Fairness.** Weak fairness is all that is assumed, and only of what a running
process does by itself: the watcher and its reload go on (`ServedSection`); a
connection that is being read is polled, one that is not is noticed by the
keep-alive, and a client's loop moves (`ConfigWatch`); a thread that can go on
does and every request comes back, since the HTTP clients have a deadline (in
Vault `timeout_global`) (`VaultCalls`); a poller's interval passes
(`PolledWatch`); etcd sends what a stream has to offer, and cancels what it
cannot serve (`EtcdWatch`); a Consul agent answers when the wait is over
(`ConsulWatch`); time passes, and the server's own tasks do what is due, an answer
that a handler has been asked for included (`Serving`). SubscribedWatch, whose claim
about the end is an invariant (`AtRestIsCurrent`), and the modules of a fetch, a lease, a
request and a start, whose steps have deadlines or ends of their own, claim nothing
under fairness. Nobody is obliged to edit, write, call, crash,
restart, stop or log in successfully. Failures are unbounded where they end a
call, and bounded (`MaxFaults`, `MaxExpiries`) where the code retries, as nothing
is promised of a network that fails for ever.

## Findings

1. **A restart on an edited file is reconnected past** (`watch_restart`). A
   process counts installs from one. A client that holds number *n*, reconnects
   to a new process that has also got to *n*, and was away for an edit, is told
   nothing: `is_news` finds the number it resumed from. It catches up with the
   next install. `client/mod.rs:31-35` says there is no window in which a change
   can be missed by being reconnected past; `stream.rs:184-192` argues for the
   case in which the numbers differ. There is a second way to the same
   violation, in one process: a connection lost with its opening event leaves no
   id to resume from, so the opening event of the next one, which is not
   fetched, announces what was installed in between (`ConfigWatchRestart.cfg`
   with `MaxStarts = 1`, `MaxFaults = 1`, `MaxStreams = 2`).
2. **A login goes out on top of a full ceiling** (`vault_ceiling`). The docs
   count the auth refresh among the requests of the ceiling
   (`dynamic-config-vault/src/lib.rs:375-377`); `login` takes no permit. The
   overrun is one request (`PermitsBalance` of VaultCalls).
3. **The watch of git reports no failure** (`polled_git`). Its loop calls
   `attempt` and `read` of its own and has no sink, so that failures which
   the other loops report are recorded nowhere; `book/src/remote-stores.md:415`
   says that its poll is a fetch and a fetch records itself.
4. **A quiet etcd watch does not resume** (`etcd_quiet`). `resume_from` is empty
   until a first message, so a token that expires before one is followed by a
   stream from *now*; the comment at `dynamic-config-etcd/src/lib.rs:812` says
   that a write which lands while the stream is down is replayed. If the client
   library hands over the creation of a watch as a message, the first stream is
   safe and a resumed one is not: the header of its creation already speaks for
   the revisions it has still to replay, and a second expiry before it has done
   so skips them. That is why `NothingIsSkipped` and `PutIsDelivered` are stated
   for `~announces`.
5. **A key created under a Consul watch is not delivered** (`consul_created`).
   The first document found primes the comparison, however long the watch has
   been told that there is none: the reason given
   (`dynamic-config-consul/src/lib.rs:685-688`) is that it is `the value the
   caller already has`, and 634-636 counts `a key that does not exist *yet*`
   among what the watch is there for. The program gets the next change.

6. **TLS settings given after a fetch are not used** (`options_server`).
   `ConfigServer::with_tls` stores the settings; the client of an earlier fetch is in
   its `OnceLock` and is the one that is found. The store crates drop what they
   built when they are told something new, and say why.

The following are disagreements of a document with the code, found while
modelling; the definitions that state what the documents say are in the modules,
with no run of their own.

7. **A drain may take longer than the drain's timeout** (`EndsWithinTheDrain` of Serving). A
   connection that is shaking hands when shutdown is asked for begins its drain only
   when it has shaken hands: up to the sum of the two, which `NothingIsHeldForEver` has.
8. **A refused start may have opened files** (`RefusedMeansNothingOpened` of
   ServerStart). The grants of `[kubernetes]` are looked at after the sections are
   loaded and watched, and a bad one is `StartupError::Refused`.
9. **An S3 client with TLS settings has no default timeout**
   (`EveryOwnClientHasADeadline` of SourceOptions). The changelog says it has one
   where the crate built the client.
10. **An idle tick of git's watch compacts** (`dynamic-config-git/src/lib.rs:681`),
    where `working.rs:59-61` says never. What matters of it holds:
    `NothingNeededIsRemoved`.
11. **Redis reports refusals at the door** (`RefusalsAtTheDoorAreNotReported` of
    SubscribedWatch). Notifications that are off, a connection, a database index, a
    subscription or a read timeout that is refused is reported to the sink
    (`dynamic-config-redis/src/lib.rs:714-763`), as the changelog of 0.6.1 announces. The
    doc of the same function (685-690), the README of the crate (207-211) and
    `book/src/remote-stores/redis.md:97-101` still say what 0.6.0 did: that they are not.
    `FailuresAreReported` is about what the code does.
12. **A header that is not text makes an anonymous caller** (`PresentIsNotAnonymous` of
    Admission). `admit.rs:36` and `metrics.rs:58` turn it into none before they ask who it
    is; `auth.rs:199-203` says that a header that is present but unusable is not downgraded
    to anonymous, which holds for every header `authenticate` is shown.

Smaller ones. The budget of git's `max_bytes` is for all documents together
(`fetch.rs:377-404`), where `lib.rs:992-998` has it per file. A directory whose creation was
cut short by a crash before its marker was written is usable and never compacted, so
that it grows without bound (`GrowthIsBounded` of WorkingDirectory does not hold). And
a failure followed by an answer that brings nothing new leaves the store reported
as failing, in every loop that reports: only a delivery or a fetch clears it, as
rule 2 of `attempts.rs` says, while rule 3 there calls `reachable()` whether the store
answered the last time it was asked.

## Proofs

TLAPS proves the following for every number of requests, clients, threads or callers,
and every bound and timeout. A theorem is about the `Spec` of the part it names; one that
names several parts supposes that each behaves as its own does, which they do
independently, as they share no variable. The assumptions are those that the modules name
(`BoundsAreNaturals`, `StreamBounds`, `CallersAreFinite`, `LimitIsNatural`,
`NoThreadIsNone`, `CacheBounds`, `DirectoryBounds`, and the `Bounds` of the other parts through
`ServerBounds`, `WatchesBounds`, `Instances` and `SourcesBounds`): that bounds are
natural numbers, that sets of callers are finite, that a sentinel is not one of the
values, and what a configuration, a request or a script is made of. Every run evaluates
them. Each `IndInv` below was first checked by TLC, and stands with its parts beside the
properties of its module, under *what makes that inductive*.

*ServedSection_proofs*: `SectionTypeOK`, `LabelsNeverLead`, `ReadinessIsTruthful`. Neither
property is inductive: `LabelNeverLeads` needs that the generation never exceeds
the installs (`Counted`, exact but for a reload that has published its document
and not its number) and that a request between its loads carries a number
already reached (`RequestsLag`); `ReadyIsTruthful` needs that a reload with no
edit noticed since it began has loaded what is on disk, and that a section which is not
watched yet has, unless an edit was missed (`CaughtUp`).

*CredentialCache_proofs*: `OneThreadObtains`, `NoRedundantObtain`,
`RetriesPresentAnother`. The strengthening is
`ObtainedWhenNeeded` (while the mutex is held for an obtain, nothing usable is in
the cell, so what is obtained answers a loss) and `RefusedIsGone` (a token that
was refused is no longer held by the time its thread asks again, because the
renewal that could have put it back needs the mutex).

*InFlight_proofs*: `CountAlwaysExact`, and `LoopKeepsTheCeiling`, that the loop
implements Permits. A successful exchange compares with a count that `CountIsExact` says
is the number of permits out at that instant; a verdict of `refused` maps to the step at
which the caller saw the ceiling. `CountAlwaysExact` rests on
`UncountedIffUnbounded`: no thread counts where nothing is counted.

*ConfigWatch_proofs*: `WatchTypeOK`, `PlacesAreKept` (`PermitsMatchStreams`),
`ResumingIsSafe` (`ResumeMeansRead`), `RestingIsCurrent` (`AtRestIsCurrent`) and
`ContractIsKept`. The section is an instance, and its steps are those of
`ServedSection_proofs`, used through the same substitution; `Section!Counted` is carried
along, because what a stream announces is a generation and what a fetch brings is an
install. Three strengthenings, each of one client:

- `Following`: a client that waits has no connection and nothing on the wire, an open
  stream belongs to the process that runs, and what it has announced of that process is
  installed, so that by the time the client reads it the fetch finds at least that.
  `ResumeMeansRead` alone is not inductive, since the id a client is about to move to
  was read off the wire two steps before.
- `Reading` and `Holding`, for `AtRestIsCurrent`: with nothing on the wire the id a client
  would resume from is what its connection sent last, or began with; the answer of a
  fetch is of the process that sent the event or of a later one; and the document
  delivered last is the install read last, when both are of the running process.
- `Forward`, for the contract: what is on the wire is in order, and newer than what the
  client has accounted for and is accounting for, so that the id moves to a greater
  one each time, and the install that is read is none older than the last.

`ContractIsKept` is the safety part of the refinement of WatchContract
(`StepsOfTheContract`): the initial states are its initial states, and every step is
an `Install`, a `Publish`, a `Learn`, a `CatchUp`, an `End` or a stutter. Its hypothesis
`MaxStarts = 1` is what WatchContract speaks of, one process that serves: with a second
one the numbers begin again, and finding 1 is what may then happen.

*Calls_proofs*: `PermitsAreGivenBack` (`PermitsBalance`), for any finite set of
threads. A permit is that of a call (`Admitted`) or that of a renewal on top of it
(`Renewing`), and the invariant says that `permits` is the sum of the two
cardinalities, of which an action changes its own thread's part at most; a thread
that was refused, and so asks twice, is reading. That the overrun is one login is
`SingleFlight`, used from `CredentialCache_proofs` through the instance. That a policy
without a ceiling neither counts nor gives back is `InFlight_proofs`, through another.

*Server_proofs*, of the five parts of the server:

- `VerdictsAreNeverOld`, `NotGrantedIsNotThere`, `AnswersAreRecorded`. `VerdictsAreRecent` is
  about a step, and what it needs of the state is `CacheInTime`: the kept verdict speaks
  of a moment at most one review before it was kept, because what a review heard is
  of a moment within it (`ReviewInTime`), although a slow review may replace the verdict of
  a quick one. The other two need what a handler has established on its way
  (`Standing`: no answer before the last step, the grant from `admit` on) and what it
  leaves (`Settled`).
- `OpenedOnlyWhenSafe`, `KeyIsChecked`, `ListensAsConfigured`, for every configuration. From
  `validate` on, nothing refuses the configuration (`Validated`); the key's permissions
  and its pair are those of what was read, whatever the files have become (`KeyChecked`);
  and the sections before the one at hand are served, each behind its own route, and no
  others (`SectionsServed`), which `ServesAsConfigured` follows from only because a
  configuration with two sections of one route, or two clients of one token, is refused.
- `ConnectionsAreNotHeld` and `RequestsInFlightAreAnswered`. The properties speak of what
  a connection has used; the code keeps what is left. `InTime` bounds the sum of the two,
  which the clock leaves as it is, and the clock does not pass a deadline, so that what
  is left is never negative.
- `ClientGivesUp`. Each phase of an attempt begins with what is left, so that whenever
  that is, the deadline it is given is the same one (`Budgeted`).
- `EventsAreReadAsWritten`, for events of any length, in pieces of any size. What was
  parsed, what is buffered and what is still to come is the stream as it was written
  (`NothingIsLost`). Where the stream is cut does not matter, because two ends of a line
  in a row stand only where an event ends: no line that is written is empty. The lines
  of one event, parsed, say what it said.
- `TypesAreKept`, the types of all five parts (`TypesOK`). That of the client's buffer
  follows from `NothingIsLost`, the others from the invariants above.

*Watches_proofs*, of the directory and the four loops:

- `NothingIsRemovedUnderACall` and `TheCallersRepositoryIsKept`, through any number of
  crashes. At most one source is live (the claim), a thread inside holds its source's
  mutex, and compaction and the writing of a marker are never about a directory that was
  the caller's. The first two make a thread inside the only one, without which a
  compaction by another would empty what it reads; the third is what `TheirsIsKept`
  needs, as the marker is what compaction goes by.
- `NoFailureIsSilent`, `NoDeliveryGoesBack` and `NoWriteIsPassedOver`, the three promises of
  every loop. Of the *polls*, the version seen is the tag of what the program holds, unless
  S3 left a tag out, and what is about to be read is newer (`SeenIsHeld`, `ReadIsDue`).
  Of *etcd*, a stream goes on where the last message ended, and what was handed over
  lies behind that, behind a range that is being read, and behind a creation that
  was not heard yet (`StreamGoesOn`, `DeliveredIsBehind`); that no put is skipped is
  inductive with those. Of *Consul*, an answer shows a state no older than the one
  held (`HeldIsPast`), and within one life of the agent the index grows by at least as
  much as the states do (`IndexCounts`, `DeliveryIsCounted`), which is why a later
  delivery has a greater one. Of *Redis and NATS*, the deliveries are of states that
  can be named, in order, up to the one the loop has heard of last (`GoesForward`), and the
  last thing that the subscription has to say is the last state (`LatestIsHeardOf`), so
  that a loop with nothing left to hear has delivered it.

*Sources_proofs*, of what a source does for a fetch:

- `LeasesEndInTime` and `LeasesAreHandedOver`, for any durations, lifetimes and difference
  of the clocks. An answer under way says what Vault knew when it was sent
  (`AnswersAreTrue`), so that the lease ends no later than the credential but for the time
  the answer took; a certificate's end counts as long as it is held, during a renewal too
  (`CertificateIsHeeded`), which no lease with a certificate survives.
- `FetchesAreAsConfigured`, for the nine sources and any set of TLS settings, timeouts and
  formats. A client that is kept was made with what was set last (`KeptIsCurrent`),
  of which the config server's is the exception that finding 6 is about; and the
  format is complained of exactly when the names disagree and none was chosen
  (`ComplaintIsOfTheNames`).
- `DocumentsAreWhole`, `ReadsAreOfOneState` and `LaterKeysWin`, for any number of keys,
  writes and requests, and any order of the keys. What is held is of keys that
  are to be read, in their order, and each value was the store's at some time of the fetch
  (`WereThere`, `ReadsInOrder`); what a scan or a listing has passed and was there all the
  while, it has found (`PassedIsFound`); and a fetch that reads in one request
  takes what `Now` says of every key at once, which `AnswerIsWhole` carries to the
  answer. `LaterKeysWin` says of the fold that at every path the last key that
  supplies it is the one that is kept: it goes by the number of documents folded so far
  (`FoldedStepByStep`, `FoldedIsTheLast`), and where no two documents overlap the order
  makes no difference.
- `EverythingIsOpened`, for texts of any length. The state machine needs little (`IndInv`
  of Transit: the request is made of what was fetched); the rest is about the texts.
  A text is read from the left, a run or a symbol at a time, and a place is `Reached` when
  no run that began before goes over it. The search finds the runs that are reached
  (`TokensAreTheRuns`, `WhatIsAskedFor`). A ciphertext that is no shorter than any that
  is still sealed stands nowhere but where it is such a run (`NotInAShorter`,
  `NotWithoutAMarker`: what was opened holds no marker), so that to replace it is to open
  that run wherever it is reached (`OneMoreOpened`). After the last one all of them are
  open (`SubstitutedIsReadAtOnce`), and a text has one such reading (`OneReading`).
  Without *no shorter* the second step fails, which is the bug that the mutant of
  `EverythingIsOpenedAtOnce` has.

**How the recursive definitions are proved about.** A definition such as `Tokens`,
`Replace` or `Folded` is a function that is equal to an expression in itself, of which
`CHOOSE` takes one. `Iterates` and `Walks` show that there is one, for a function that goes up
from a base and for one that looks ahead of itself in a sequence. What it returns is then
shown from the first place that could be wrong, or the last (`Least`, `Upwards`,
`Downwards`), which come from the well-foundedness of the natural numbers without the
library's induction theorems, whose parameters are operators.

**Only model-checked.** Liveness: `EditIsServed`, `ChangeReachesClient`, `CallsEnd`,
`ChangesAreDelivered` and `ShutdownEnds`, and with it that WatchContract is kept with its
fairness (`KeepsTheContract`, whose steps are `ContractIsKept`). The prover has neither
liveness under fairness nor ENABLED. What the runs that expect a violation
check does not hold, and has no theorem.

## What is abstracted

- A document is the version it was loaded from, a document that does not load being a
  flag or a refused delivery. In SourceFetch it is the set of paths it supplies, which
  is what the fold looks at, and the write it came from; a value at a path is nothing
  more than whose it is.
- The engine is external. From the code that uses it: the snapshot precedes the
  generation, a reload that fails leaves both, a watch callback's refusal is
  recorded by the sink. Its recency fence, which drops documents older than the
  one installed, and the comparison by which a client skips a document it has
  delivered, are not modelled beyond equality of versions.
- What the engine's watcher announces of the time before it began is outside this
  repository. ServedSection has it announce nothing, so that an edit between the load of
  a section and its watch is not noticed; of such an edit nothing is claimed. A debounce of
  zero, which starts no watcher at all, is left out of ServedSection.
- Credentials are numbers. A new login always yields a new token; Firestore's
  metadata server may hand out the same one until it expires, for which
  `RetryPresentsAnother` is not claimed.
- Vault's metadata may be deleted and a secret start again from version one, and
  then a watch that has seen one sees no change; PolledWatch's store only deletes
  versions.
- etcd's events arrive in batches of consecutive revisions whose header is the
  last of them; fragmentation is left out.
- A Consul agent may answer before its index has moved, as it does when the wait
  is over; what the index is worth to the agent is therefore not modelled, only
  what the loop makes of it.
- A Redis notification is lost only with its subscription, which ends the watch.
- Time: in the watches and the credential, intervals, margins, deadlines and backoff
  are nondeterminism and fairness, and the pacing of retries (`Pace`) has no model.
  Where a deadline is the point (Serving, ClientConnection, Leases, Admission) there is a
  clock of a few ticks.
- A certificate, a key, an address or a token is what it takes to be refused or not:
  missing, malformed, one after another; exposed or not; short or long.
- A text of Transit is a sequence of a marker, a letter and a full stop; base64
  and UTF-8 are outcomes. The marker is one symbol and no secret holds it, so that a
  marker that comes about where a secret meets what stands before it is not in the model,
  and neither is a secret that is a ciphertext itself.

Not modelled, and why: the parsing of TOML and of arguments, and what Firestore's
values and the other formats become, are conversions by libraries or cell by cell; the
credential helpers of git (`auth.rs`) run another program; the translation of a
certificate into the types of each client library has no state; the wording of
liveness, metrics and diagnostics is output; `Pace` is an arithmetic of waits. Their
entries in `PROJECT.json` say so one by one.

## Plan

Done, in this order: ServedSection, ConfigWatch and WatchContract, InFlight and
Permits, CredentialCache, VaultCalls, PolledWatch, EtcdWatch, ConsulWatch,
SubscribedWatch, WorkingDirectory, SourceFetch, SourceOptions, Transit, Leases,
Admission, ServerStart, Serving, ClientConnection; the composition of the parts in
Server, Watches, Calls and Sources; the proofs of every safety property that a passing
run checks, and of the steps of WatchContract.

Left, by importance:

1. **WatchedStore**, the abstract specification shared by the four modules of the
   watches: deliveries are a subsequence of the states of the store, in order,
   that ends at the newest; and each watch shown to implement it. The invariants
   of `Watches_proofs` are most of the refinement.
2. The secret whose metadata is deleted, and the first tick of a poll that meets a
   write (the two hazards of `PolledWatch` that have no property), and a document's
   revision across a restart of the server, once it is known what the engine makes of
   one that goes back.
