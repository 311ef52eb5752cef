----------------------------- MODULE ServerStart -----------------------------
(***************************************************************************)
(* How the config server starts, or does not.  The configuration is        *)
(* validated as a whole; then the TLS material is read, the sections are   *)
(* loaded and watched one by one, the callers are put together, pods' among *)
(* them, and the port is bound.  The first thing that is wrong ends it.    *)
(*                                                                         *)
(* The files of the certificate and of its key may be replaced while they  *)
(* are being read.                                                         *)
(***************************************************************************)
EXTENDS Naturals, Sequences

CONSTANTS
    Configurations, \* what the operator may have written
    Features,       \* what this build was compiled with
    Names,          \* the names a route can carry
    WeakTokens,     \* the tokens shorter than MIN_TOKEN_LEN
    MaxRotations    \* bound: how often the certificate and its key are replaced

None == "none"

\* One section, one client; of [tls] what is wrong with it; of [kubernetes] its grants.
SectionConfigs == [application : STRING, profile : STRING]
ClientConfigs == [name : STRING, token : STRING, applications : SUBSET STRING]
Wrongs == {"crl", "certificate", "key", "client_ca"}

Bounds ==
    /\ Features \subseteq {"tls", "kubernetes-auth"}
    /\ MaxRotations \in Nat
    /\ \A c \in Configurations :
          /\ c.sections \in Seq(SectionConfigs) /\ c.clients \in Seq(ClientConfigs)
          /\ c.bind \in {"loopback", "exposed", "unparsable"}
          /\ {c.insecure, c.allow_anonymous, c.watched, c.tls} \subseteq BOOLEAN
          /\ c.wrong \subseteq Wrongs
          /\ c.kubernetes \in Seq({"fine", "malformed"})

VARIABLES
    config,    \* the configuration
    files,     \* what the paths of [tls] name: which pair, and whether others may read it
    rotations, \* how often they were replaced
    at,        \* what the start is about
    section,   \* which section it is about
    read,      \* the certificate read, and the key opened
    opened,    \* what was opened: a file of [tls], a section, a watcher
    served,    \* the section installed under each application and profile
    roster,    \* which clients have a token, tried in the order they are listed
    anonymous, \* the caller without a token
    outcome    \* how it ended

vars == <<config, files, rotations, at, section, read, opened, served, roster, anonymous,
          outcome>>

NoFile == [pair |-> 0, private |-> FALSE]
Files == [pair : 1 .. 1 + MaxRotations, private : BOOLEAN]

Init ==
    /\ config \in Configurations
    /\ \E private \in IF config.tls THEN BOOLEAN ELSE {TRUE} :
          files = [certificate |-> [pair |-> 1, private |-> FALSE],
                   key |-> [pair |-> 1, private |-> private]]
    /\ rotations = 0
    /\ at = "validate" /\ section = 1
    /\ read = [certificate |-> NoFile, key |-> NoFile]
    /\ opened = {} /\ served = << >>
    /\ roster = {} /\ anonymous = None
    /\ outcome = None

\* The operator, or whatever renews the certificate, replaces one file after the other.
Rotate(file) ==
    /\ at \in {"certificate", "key", "permissions", "match"}
    /\ files[file].pair <= rotations + 1 /\ files[file].pair < 1 + MaxRotations
    /\ \E private \in BOOLEAN :
          files' = [files EXCEPT ![file] = [pair |-> @.pair + 1, private |-> private]]
    /\ rotations' = IF rotations < files'[file].pair - 1 THEN rotations + 1 ELSE rotations
    /\ UNCHANGED <<config, at, section, read, opened, served, roster, anonymous, outcome>>

-----------------------------------------------------------------------------
(* validate.  Which of several refusals is the one that is told is left     *)
(* out: the roster's come before the network's.                            *)

Named(refusal, applies) == IF applies THEN {refusal} ELSE {}

Pair(s) == <<s.application, s.profile>>

SectionRefusals(c, i) ==
    LET s == c.sections[i] IN
    Named("UnroutableSection", ~({s.application, s.profile} \subseteq Names)) \cup
    Named("DuplicateSection", \E j \in 1 .. i - 1 : Pair(c.sections[j]) = Pair(s))

Tokenless(c) == {i \in DOMAIN c.clients : c.clients[i].token = None}

ClientRefusals(c, i) ==
    LET client == c.clients[i] IN
    Named("DuplicateClient", \E j \in 1 .. i - 1 : c.clients[j].name = client.name) \cup
    Named("AnonymousNotAllowed", client.token = None /\ ~c.allow_anonymous) \cup
    Named("SeveralAnonymousClients",
          client.token = None /\ \E j \in Tokenless(c) : j < i) \cup
    Named("WeakToken", client.token \in WeakTokens) \cup
    Named("UnservedGrant", \E a \in client.applications : \A j \in DOMAIN c.sections :
                               c.sections[j].application # a)

\* Mutant: two clients may share a token.
TokensMayRepeat(c) == FALSE

DuplicateToken(c) ==
    \E i, j \in DOMAIN c.clients :
        i < j /\ c.clients[i].token # None /\ c.clients[i].token = c.clients[j].token

\* Mutant: an operator who says nothing is taken at their word.
NetworkRefusalsOpen(c) ==
    Named("UnparsableBind", c.bind = "unparsable") \cup
    Named("TlsUnsupported", c.tls /\ "tls" \notin Features) \cup
    Named("RevocationUnsupported", c.tls /\ "crl" \in c.wrong) \cup
    Named("TlsPathMissing", c.tls /\ c.wrong \ {"crl"} # {}) \cup
    Named("InsecureWithTls", c.tls /\ c.insecure)

NetworkRefusals(c) ==
    Named("UnparsableBind", c.bind = "unparsable") \cup
    Named("TlsUnsupported", c.tls /\ "tls" \notin Features) \cup
    Named("RevocationUnsupported", c.tls /\ "crl" \in c.wrong) \cup
    Named("TlsPathMissing", c.tls /\ c.wrong \ {"crl"} # {}) \cup
    Named("InsecureWithTls", c.tls /\ c.insecure) \cup
    Named("ExposedBind", ~c.tls /\ c.bind # "loopback" /\ ~c.insecure)

Refusals(c) ==
    Named("NoSections", c.sections = << >>) \cup Named("NoClients", c.clients = << >>) \cup
    (UNION {SectionRefusals(c, i) : i \in DOMAIN c.sections}) \cup
    (UNION {ClientRefusals(c, i) : i \in DOMAIN c.clients}) \cup
    Named("DuplicateToken", DuplicateToken(c)) \cup NetworkRefusals(c)

\* What a start that fails has opened is dropped with it; `opened' remembers it.
Fail(kind) ==
    /\ at' = "over" /\ outcome' = kind
    /\ UNCHANGED <<config, files, rotations, section, read, served, roster, anonymous>>

Validate ==
    /\ at = "validate"
    /\ IF Refusals(config) = {}
       THEN /\ at' = IF config.tls THEN "certificate" ELSE "section"
            /\ UNCHANGED <<config, files, rotations, section, read, served, roster,
                           anonymous, outcome>>
       ELSE Fail("refused")
    /\ UNCHANGED opened

-----------------------------------------------------------------------------
(* Tls::load.  Any of the files may be missing, or no PEM.                 *)

OpenFile(file, next) ==
    /\ opened' = opened \cup {<<"file", file>>}
    /\ \/ /\ read' = [read EXCEPT ![file] = files[file]]
          /\ at' = next
          /\ UNCHANGED <<config, files, rotations, section, served, roster, anonymous,
                         outcome>>
       \/ Fail("tls")

ReadCertificate ==
    /\ at = "certificate"
    /\ OpenFile("certificate", "key")

OpenKey ==
    /\ at = "key"
    /\ OpenFile("key", "permissions")

\* Mutant: the permissions are those of whatever the path names by now.
CheckPermissionsOfPath ==
    /\ at = "permissions"
    /\ IF files.key.private
       THEN /\ at' = "match"
            /\ UNCHANGED <<config, files, rotations, section, read, served, roster,
                           anonymous, outcome>>
       ELSE Fail("tls")
    /\ UNCHANGED opened

\* The permissions are those of the file that is open, whatever its path names by now.
CheckPermissions ==
    /\ at = "permissions"
    /\ IF read.key.private
       THEN /\ at' = "match"
            /\ UNCHANGED <<config, files, rotations, section, read, served, roster,
                           anonymous, outcome>>
       ELSE Fail("tls")
    /\ UNCHANGED opened

\* The client CA, if there is one, and a key that is the certificate's.
MatchKey ==
    /\ at = "match"
    /\ \/ /\ read.certificate.pair = read.key.pair
          /\ at' = "section"
          /\ UNCHANGED <<config, files, rotations, section, read, served, roster,
                         anonymous, outcome>>
       \/ Fail("tls")
    /\ UNCHANGED opened

-----------------------------------------------------------------------------
(* load_section, for one after the other.                                  *)

LoadSection ==
    /\ at = "section" /\ section \in DOMAIN config.sections
    /\ opened' = opened \cup {<<"section", section>>}
    /\ \/ /\ at' = "watch"
          /\ UNCHANGED <<config, files, rotations, section, read, served, roster,
                         anonymous, outcome>>
       \/ Fail("section")

\* The last section of a pair is the one that is served.
WatchSection ==
    /\ at = "watch"
    /\ opened' = IF config.watched THEN opened \cup {<<"watcher", section>>} ELSE opened
    /\ \/ /\ served' = [pair \in DOMAIN served \cup {Pair(config.sections[section])} |->
                           IF pair = Pair(config.sections[section])
                           THEN section ELSE served[pair]]
          /\ at' = "section" /\ section' = section + 1
          /\ UNCHANGED <<config, files, rotations, read, roster, anonymous, outcome>>
       \/ config.watched /\ Fail("watch")

-----------------------------------------------------------------------------
(* The callers, and the port.                                              *)

Roster ==
    /\ at = "section" /\ section \notin DOMAIN config.sections
    /\ roster' = DOMAIN config.clients \ Tokenless(config)
    /\ anonymous' = IF Tokenless(config) = {} THEN None
                    ELSE config.clients[CHOOSE i \in Tokenless(config) :
                                           \A j \in Tokenless(config) : i >= j].name
    /\ at' = IF "kubernetes-auth" \in Features /\ config.pods THEN "kubernetes" ELSE "bind"
    /\ UNCHANGED <<config, files, rotations, section, read, opened, served, outcome>>

\* The grants are looked at, and then whether this is a cluster.
Kubernetes ==
    /\ at = "kubernetes"
    /\ IF config.kubernetes # << >>
          /\ \A i \in DOMAIN config.kubernetes : config.kubernetes[i] # "malformed"
       THEN /\ at' = "cluster"
            /\ UNCHANGED <<config, files, rotations, section, read, served, roster,
                           anonymous, outcome>>
       ELSE Fail("refused")
    /\ UNCHANGED opened

\* Without the address of the API server or its CA it is refused as well.
InCluster ==
    /\ at = "cluster"
    /\ \/ /\ at' = "bind"
          /\ UNCHANGED <<config, files, rotations, section, read, served, roster,
                         anonymous, outcome>>
       \/ Fail("refused")
    /\ UNCHANGED opened

Bind ==
    /\ at = "bind"
    /\ \/ /\ at' = "over" /\ outcome' = "listening"
          /\ UNCHANGED <<config, files, rotations, section, read, served, roster, anonymous>>
       \/ Fail("bind")
    /\ UNCHANGED opened

Next ==
    \/ \E file \in {"certificate", "key"} : Rotate(file)
    \/ Validate \/ ReadCertificate \/ OpenKey \/ CheckPermissions \/ MatchKey
    \/ LoadSection \/ WatchSection \/ Roster \/ Kubernetes \/ InCluster \/ Bind

Spec == Init /\ [][Next]_vars

-----------------------------------------------------------------------------
(* Properties.                                                             *)

Places == {"validate", "certificate", "key", "permissions", "match", "section", "watch",
           "kubernetes", "cluster", "bind", "over"}

\* Every variable holds a value of its type.
TypeOK ==
    /\ config \in Configurations
    /\ files \in [{"certificate", "key"} -> Files]
    /\ rotations \in 0 .. MaxRotations
    /\ at \in Places
    /\ read \in [{"certificate", "key"} -> Files \cup {NoFile}]
    /\ section \in 1 .. Len(config.sections) + 1
    /\ \A pair \in DOMAIN served : served[pair] \in DOMAIN config.sections
    /\ roster \subseteq DOMAIN config.clients
    /\ outcome \in {None, "refused", "tls", "section", "watch", "bind", "listening"}

\* Who a token is taken for: the first caller in the roster it belongs to.
TakenFor(token) ==
    LET those == {i \in roster : config.clients[i].token = token}
    IN  IF those = {} THEN None
        ELSE config.clients[CHOOSE i \in those : \A j \in those : i <= j].name

\* A configuration may be opened when nobody but the clients it names would read what
\* they are granted: the port is not exposed without encryption, or the operator's word
\* for it; and nobody gets in without a credential, or with one that can be guessed,
\* unless that was said.
MayBeOpened ==
    /\ config.tls \/ config.bind = "loopback" \/ config.insecure
    /\ ~(config.tls /\ (config.insecure \/ config.wrong # {} \/ "tls" \notin Features))
    /\ Tokenless(config) # {} => config.allow_anonymous
    /\ \A i \in DOMAIN config.clients : config.clients[i].token \notin WeakTokens

\* Not a file is opened for a server that would have let somebody in.
\* (`a server that would have been world-readable never gets as far as reading a secret
\* off disk'.)
NothingIsOpenedForTheWorld == opened # {} => MayBeOpened

\* A server that listens serves what it was configured to, to whom: each token is its
\* client's, the anonymous caller is one client, each section is behind the route that
\* names it, and each grant is for something.
\* (`whichever is listed first silently wins, and the audit log then names the wrong
\* caller for every request'.)
ServesAsConfigured ==
    outcome = "listening" =>
        /\ \A i \in DOMAIN config.clients :
              LET client == config.clients[i] IN
              /\ client.name = IF client.token = None THEN anonymous
                               ELSE TakenFor(client.token)
              /\ \A a \in client.applications : \E pair \in DOMAIN served : pair[1] = a
              /\ \A j \in DOMAIN config.clients : client.name = config.clients[j].name => i = j
        /\ \A i \in DOMAIN config.sections :
              /\ served[Pair(config.sections[i])] = i
              /\ {config.sections[i].application, config.sections[i].profile} \subseteq Names

\* The key that is used is the certificate's, and one that nobody else could read, though
\* both be replaced while they are read.
\* (`there is no window in which the file this checked and the file this read are two
\* different files'.)
KeyIsPrivateAndMatches ==
    (/\ config.tls
     /\ \/ at \in {"section", "watch", "kubernetes", "cluster", "bind"}
        \/ outcome = "listening")
        => read.key.private /\ read.key.pair = read.certificate.pair

\* What StartupError::Refused says of itself: `The configuration was refused before
\* anything was opened'.
RefusedMeansNothingOpened == outcome = "refused" => opened = {}

\* What makes them inductive: nothing is done before the configuration was found to be
\* fine; the key is the open one's, its permissions and its pair known once they were
\* looked at; and the sections before this one are served, and no others.
Loaded == {"section", "watch", "kubernetes", "cluster", "bind"}
Listening == outcome = "listening"

Validated ==
    at \notin {"validate", "over"} \/ opened # {} \/ Listening => Refusals(config) = {}

KeyChecked ==
    config.tls =>
        /\ at = "match" => read.key.private
        /\ at \in Loaded \/ Listening =>
               read.key.private /\ read.key.pair = read.certificate.pair

SectionsServed ==
    at \in Loaded \/ Listening =>
        /\ \A i \in 1 .. section - 1 : Pair(config.sections[i]) \in DOMAIN served
                                      /\ served[Pair(config.sections[i])] = i
        /\ DOMAIN served = {Pair(config.sections[i]) : i \in 1 .. section - 1}
        /\ at = "watch" => section \in DOMAIN config.sections
        /\ at \in {"kubernetes", "cluster", "bind"} \/ Listening =>
               /\ section = Len(config.sections) + 1
               /\ roster = DOMAIN config.clients \ Tokenless(config)
               /\ \A i \in Tokenless(config) : anonymous = config.clients[i].name

NothingServedYet == at \notin Loaded \cup {"over"} => section = 1 /\ served = << >>

Ended == Listening => at = "over"

IndInv == TypeOK /\ Validated /\ KeyChecked /\ SectionsServed /\ NothingServedYet /\ Ended
=============================================================================
