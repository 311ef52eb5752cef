----------------------------- MODULE MCWatches -----------------------------
(* The ways of watching a store.  A source has one watch: `which' says      *)
(* whose, and the others are over before they begin.                        *)
EXTENDS Watches, TLC

VARIABLE which

NoPolled ==
    /\ kind = "vault" /\ writes = <<1>> /\ present = TRUE
    /\ polledAt = "stopped" /\ seen = 0 /\ checked = 0
    /\ baseline = 0 /\ polledDelivered = << >> /\ untagged = FALSE
    /\ polledAnswered = TRUE /\ polledFailing = FALSE /\ polledFaults = 0

NoEtcd ==
    /\ shape = "key" /\ announces = FALSE /\ log = <<"put">> /\ compacted = 1
    /\ etcdAt = "ended" /\ next = 0 /\ creation = 0
    /\ resume_from = 0 /\ token_recoveries = 0 /\ reading = 0 /\ expiries = 0
    /\ opened = 0 /\ first = 0 /\ etcdDelivered = << >>

NoConsul ==
    /\ consulShape = "key" /\ states = <<CHOOSE d \in Documents : TRUE>> /\ agent_index = 1
         /\ restarts = 0
    /\ consulAt = "stopped" /\ answer = Consul!NoAnswer /\ index = 0
    /\ last = Consul!None /\ priming = TRUE
    /\ consulBaseline = 0 /\ consulDelivered = << >>
    /\ consulAnswered = TRUE /\ consulFailing = FALSE /\ consulFaults = 0

NoSubscribed ==
    /\ subscribedKind = "redis_key" /\ keyStates = <<CHOOSE s \in Subscribed!States : TRUE>>
    /\ subscribed = {} /\ queue = << >>
    /\ subscribedAt = "stopped" /\ document = Subscribed!None /\ lastList = Subscribed!None
    /\ subscribedDelivered = << >> /\ complete_at = 0
    /\ subscribedAnswered = TRUE /\ subscribedFailing = FALSE /\ subscribedFaults = 0

NoDirectory ==
    /\ head = CHOOSE c \in Commits : TRUE
    /\ entries = {} /\ packs = {} /\ theirs = FALSE /\ live = {}
    /\ fetching = [s \in Sources |-> NoThread]
    /\ at = [c \in Callers |-> "over"] /\ wants = [c \in Callers |-> FALSE]
    /\ retried = [c \in Callers |-> FALSE] /\ commit = [c \in Callers |-> None]
    /\ crashes = 0

MCInit ==
    \/ which = "polled" /\ Polled!Init /\ NoEtcd /\ NoConsul /\ NoSubscribed /\ NoDirectory
    \/ which = "etcd" /\ NoPolled /\ Etcd!Init /\ NoConsul /\ NoSubscribed /\ NoDirectory
    \/ which = "consul" /\ NoPolled /\ NoEtcd /\ Consul!Init /\ NoSubscribed /\ NoDirectory
    \/ which = "subscribed" /\ NoPolled /\ NoEtcd /\ NoConsul /\ Subscribed!Init
       /\ NoDirectory
    \/ which = "directory" /\ NoPolled /\ NoEtcd /\ NoConsul /\ NoSubscribed /\ Init

MCNext ==
    \/ /\ which = "polled" /\ Polled!Next
       /\ UNCHANGED <<which, etcdVars, consulVars, subscribedVars, vars>>
    \/ /\ which = "etcd" /\ Etcd!Next
       /\ UNCHANGED <<which, polledVars, consulVars, subscribedVars, vars>>
    \/ /\ which = "consul" /\ Consul!Next
       /\ UNCHANGED <<which, polledVars, etcdVars, subscribedVars, vars>>
    \/ /\ which = "subscribed" /\ Subscribed!Next
       /\ UNCHANGED <<which, polledVars, etcdVars, consulVars, vars>>
    \/ /\ which = "directory" /\ Next
       /\ UNCHANGED <<which, polledVars, etcdVars, consulVars, subscribedVars>>

MCSpec ==
    /\ MCInit
    /\ [][MCNext]_<<which, polledVars, etcdVars, consulVars, subscribedVars, vars>>
    /\ Polled!Fairness /\ Etcd!Fairness /\ Consul!Fairness
=============================================================================
