------------------------------- MODULE Watches -------------------------------
(***************************************************************************)
(* The ways of watching a store: the git working directory, which this     *)
(* module extends, and beside it the watches that poll, that ask Consul,   *)
(* that stream from etcd, and that are told.  They share no state in the   *)
(* model; each has its constants and variables here, and its properties    *)
(* under their own names.                                                  *)
(***************************************************************************)
EXTENDS WorkingDirectory, Sequences

CONSTANTS
    \* Of the watches that poll.
    PolledKinds, Contents, PolledWrites, PolledFaults,
    \* Of etcd's.
    EtcdShapes, Announcing, MaxRevision, MaxExpiries,
    \* Of Consul's.
    ConsulShapes, Documents, ConsulWrites, MaxRestarts, ConsulFaults,
    \* Of those that are told.
    SubscribedKinds, Keys, Values, SubscribedWrites, SubscribedFaults

VARIABLES
    kind, writes, present, polledAt, seen, checked, baseline, polledDelivered, untagged,
    polledAnswered, polledFailing, polledFaults,
    shape, announces, log, compacted, etcdAt, next, creation, resume_from,
    token_recoveries, reading, expiries, opened, first, etcdDelivered,
    consulShape, states, agent_index, restarts, consulAt, answer, index, last, priming,
    consulBaseline, consulDelivered, consulAnswered, consulFailing, consulFaults,
    subscribedKind, keyStates, subscribed, queue, subscribedAt, document, lastList,
    subscribedDelivered, complete_at, subscribedAnswered, subscribedFailing,
    subscribedFaults

polledVars == <<kind, writes, present, polledAt, seen, checked, baseline,
    polledDelivered, untagged, polledAnswered, polledFailing, polledFaults>>
etcdVars == <<shape, announces, log, compacted, etcdAt, next, creation, resume_from,
    token_recoveries, reading, expiries, opened, first, etcdDelivered>>
consulVars == <<consulShape, states, agent_index, restarts, consulAt, answer, index,
    last, priming, consulBaseline, consulDelivered, consulAnswered, consulFailing,
    consulFaults>>
subscribedVars == <<subscribedKind, keyStates, subscribed, queue, subscribedAt, document,
    lastList, subscribedDelivered, complete_at, subscribedAnswered, subscribedFailing,
    subscribedFaults>>

-----------------------------------------------------------------------------

Polled == INSTANCE PolledWatch WITH
    Kinds <- PolledKinds, MaxWrites <- PolledWrites, MaxFaults <- PolledFaults,
    at <- polledAt, delivered <- polledDelivered, answered <- polledAnswered,
    failing <- polledFailing, faults <- polledFaults

Etcd == INSTANCE EtcdWatch WITH
    Shapes <- EtcdShapes, at <- etcdAt, delivered <- etcdDelivered

Consul == INSTANCE ConsulWatch WITH
    Shapes <- ConsulShapes, MaxWrites <- ConsulWrites, MaxFaults <- ConsulFaults,
    shape <- consulShape, at <- consulAt, baseline <- consulBaseline,
    delivered <- consulDelivered, answered <- consulAnswered,
    failing <- consulFailing, faults <- consulFaults

Subscribed == INSTANCE SubscribedWatch WITH
    Kinds <- SubscribedKinds, MaxWrites <- SubscribedWrites, MaxFaults <- SubscribedFaults,
    kind <- subscribedKind, states <- keyStates, at <- subscribedAt, last <- lastList,
    delivered <- subscribedDelivered, answered <- subscribedAnswered,
    failing <- subscribedFailing, faults <- subscribedFaults

ASSUME WatchesBounds ==
    Polled!Bounds /\ Etcd!Bounds /\ Consul!Bounds /\ Subscribed!Bounds

-----------------------------------------------------------------------------
(* The properties of the watches, stated in their modules.                  *)

\* A failure that a loop survives, or ends on, is one the sink has been told of.
FailuresAreReported ==
    /\ Polled!FailuresAreReported
    /\ Consul!FailuresAreReported
    /\ Subscribed!FailuresAreReported

\* What a watch delivers goes forward, each write at most once by a poll and by etcd,
\* and is a state the store was in.
DeliveriesGoForward ==
    /\ Polled!DeliveredOnce
    /\ Etcd!DeliveredInOrder
    /\ Consul!DeliveredForward
    /\ Subscribed!NeverTornNorOlder

\* What a watch takes for seen, and would not deliver again, is what the program holds.
NothingIsSkipped ==
    /\ Polled!SeenWasHandedOver
    /\ Etcd!NothingIsSkipped
    /\ Consul!LastIsHeld
    /\ Subscribed!AtRestIsCurrent

\* A write that a watch has not seen is delivered, or followed by another.
ChangesAreDelivered ==
    /\ Polled!ChangeIsDelivered
    /\ Etcd!PutIsDelivered
    /\ Consul!ChangeIsDelivered
=============================================================================
