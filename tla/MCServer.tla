------------------------------- MODULE MCServer -------------------------------
(* The config server and the connection of a client, one part at a time.    *)
(* `which' says whose behaviour it is: a section that is served, a request  *)
(* that is admitted, a server that starts, the connections it holds, or the *)
(* connection of a client.  The others do nothing.                          *)
EXTENDS Server, TLC

VARIABLE which

-----------------------------------------------------------------------------
(* Requests: two that are made by clients, one of each kind that there is,  *)
(* or two by a pod.                                                         *)

Ask(header, endpoint, application, shaped) ==
    [header |-> header, endpoint |-> endpoint, application |-> application,
     shaped |-> shaped]

PodAsks ==
    {Ask("pod", "document", "shop", TRUE), Ask("pod", "stream", "shop", TRUE)}

OtherAsks ==
    {Ask("client", endpoint, "shop", TRUE) :
        endpoint \in {"document", "status", "stream", "check", "metrics"}} \cup
    {Ask("client", "check", "shop", FALSE),
     Ask("client", "document", "billing", TRUE), Ask("client", "document", "bad", TRUE),
     Ask("absent", "document", "billing", TRUE), Ask("unusable", "document", "shop", TRUE),
     Ask("not_text", "document", "billing", TRUE)}

MCAsks == PodAsks \cup OtherAsks

MCScripts ==
    [Requests -> OtherAsks] \cup {[r \in Requests |-> Ask("pod", "document", "shop", TRUE)]}

MCGranted == [client |-> {"shop"}, anonymous |-> {"billing"}, pod |-> {"shop", "gone"}]

-----------------------------------------------------------------------------
(* Configurations: everything that may be wrong with the sections, the      *)
(* clients and the network; and, of one that is otherwise fine, with its    *)
(* files and its cluster.                                                   *)

Section(application, profile) == [application |-> application, profile |-> profile]
ClientEntry(name, token, applications) ==
    [name |-> name, token |-> token, applications |-> applications]

Shop == <<Section("shop", "prod")>>
Web == ClientEntry("web", "long", {"shop"})

MCConfigurations ==
    [sections : {<< >>, Shop, Append(Shop, Section("shop", "dev")), Shop \o Shop,
                 <<Section("a b", "prod")>>},
     clients : {<< >>, <<Web>>,
                <<Web, ClientEntry("job", "other", {"shop"})>>,
                <<Web, ClientEntry("job", "long", {"shop"})>>,
                <<Web, ClientEntry("web", "other", {})>>,
                <<Web, ClientEntry("job", "none", {})>>,
                <<ClientEntry("web", "none", {"shop"})>>,
                <<ClientEntry("web", "none", {"shop"}), ClientEntry("job", "none", {"shop"})>>,
                <<ClientEntry("web", "abc", {"shop"})>>,
                <<ClientEntry("web", "long", {"billing"})>>},
     bind : {"loopback", "exposed"}, allow_anonymous : BOOLEAN, insecure : BOOLEAN,
     tls : BOOLEAN, wrong : {{}}, watched : {TRUE}, pods : {FALSE}, kubernetes : {<< >>}]
    \cup
    [sections : {Shop}, clients : {<<Web>>},
     bind : {"loopback", "unparsable"}, allow_anonymous : {FALSE}, insecure : {FALSE},
     tls : BOOLEAN, wrong : {{}, {"crl"}, {"key"}}, watched : BOOLEAN, pods : BOOLEAN,
     kubernetes : {<< >>, <<"fine">>, <<"fine", "malformed">>}]

Event(id, data) == [id |-> id, data |-> data, carried |-> id # << >> \/ data # << >>]

MCStreams ==
    {<<Event(<<1>>, <<1>>), Event(<< >>, << >>), Event(<<2>>, <<2, 3>>)>>,
     <<Event(<< >>, << >>), Event(<<1>>, << >>)>>}

-----------------------------------------------------------------------------

NoAdmission ==
    /\ ceiling = 1 /\ now = 0 /\ revoked = Adm!Never /\ api = TRUE /\ down = Adm!Never
    /\ outages = 0 /\ cache = Adm!NoVerdict
    /\ ask = [r \in Requests |-> Ask("pod", "document", "shop", TRUE)]
    /\ admissionAt = [r \in Requests |-> "out"]
    /\ review = [r \in Requests |-> Adm!NoReview]
    /\ caller = [r \in Requests |-> Adm!Nobody]
    /\ consulted = [r \in Requests |-> FALSE]
    /\ answer = [r \in Requests |-> Adm!Unanswered]
    /\ log = [r \in Requests |-> {}] /\ open = {} /\ label = 1

NoStart ==
    /\ config = CHOOSE c \in Configurations : c.sections = << >>
    /\ files = [f \in {"certificate", "key"} |-> [pair |-> 1, private |-> TRUE]]
    /\ rotations = 0 /\ startAt = "over" /\ section = 1
    /\ read = [f \in {"certificate", "key"} |-> Starting!NoFile]
    /\ opened = {} /\ served = << >> /\ roster = {}
    /\ anonymous = Starting!None /\ outcome = "refused"

NoServing ==
    /\ path = "tls" /\ server = "stopped" /\ asked = 0
    /\ servingAt = [c \in Connections |-> "away"]
    /\ left = [c \in Connections |-> Serve!Unlimited]
    /\ drain = [c \in Connections |-> Serve!Unlimited]
    /\ silent = [c \in Connections |-> 0] /\ audited = {}

NoConnection ==
    /\ goal = "document" /\ secure = FALSE /\ clientAt = "done"
    /\ elapsed = 0 /\ deadline = 0 /\ file = 1 /\ began = 1 /\ presented = 1
    /\ stream = << >> /\ arrived = 0 /\ buffer = << >> /\ events = << >>
    /\ quiet = 0 /\ stopping = 0

\* What the section does is up to it where it is the one; elsewhere it stays as it begins.
MCInit ==
    /\ Init
    /\ \/ which = "section" /\ NoAdmission /\ NoStart /\ NoServing /\ NoConnection
       \/ which = "admission" /\ Adm!Init /\ NoStart /\ NoServing /\ NoConnection
       \/ which = "start" /\ NoAdmission /\ Starting!Init /\ NoServing /\ NoConnection
       \/ which = "serving" /\ NoAdmission /\ NoStart /\ Serve!Init /\ NoConnection
       \/ which = "client" /\ NoAdmission /\ NoStart /\ NoServing /\ Client!Init
    /\ which # "section" => up

MCNext ==
    \/ /\ which = "section" /\ Next
       /\ UNCHANGED <<which, admissionVars, startVars, servingVars, clientVars>>
    \/ /\ which = "admission" /\ Adm!Next
       /\ UNCHANGED <<which, sectionVars, startVars, servingVars, clientVars>>
    \/ /\ which = "start" /\ Starting!Next
       /\ UNCHANGED <<which, sectionVars, admissionVars, servingVars, clientVars>>
    \/ /\ which = "serving" /\ Serve!Next
       /\ UNCHANGED <<which, sectionVars, admissionVars, startVars, clientVars>>
    \/ /\ which = "client" /\ Client!Next
       /\ UNCHANGED <<which, sectionVars, admissionVars, startVars, servingVars>>

MCSpec ==
    /\ MCInit
    /\ [][MCNext]_<<which, sectionVars, admissionVars, startVars, servingVars, clientVars>>
    /\ ReloadFairness /\ Serve!Fairness
=============================================================================
