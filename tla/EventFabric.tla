----------------------------- MODULE EventFabric -----------------------------
(***************************************************************************)
(* telemetry/fabric.rs as lib.rs assembles it: one thread takes the events *)
(* of the bus and emits them into the fabric; the consumer and the         *)
(* streamer, who subscribe while it runs, get a copy of each, as far as    *)
(* their channels have room.                                               *)
(***************************************************************************)
EXTENDS LiveEvents, FiniteSets, SequencesExt

CONSTANTS FlowSamples,       \* events the bus may carry
          MaxFlow,           \* how many it carries
          ViewCapacity,      \* of a subscriber's channel: 4096
          PipelineCapacity   \* of each priority queue of the coordinator
Views == {"consumer", "streamer"}

VARIABLES flow,               \* what the bridge emitted, an event's place is its number
          fanout,            \* emit: the event and the subscribers still to be tried
          totalDropped,      \* total_dropped
          legacyBacklog,     \* the legacy bridge: unbounded, and without a receiver
          queued,            \* of the coordinator, by priority; it is never started
          subscribed,        \* subscriber_map
          channel,           \* a subscriber's channel
          shown,             \* what the streamer passed on to the frontend
          since              \* history: the events emitted before a view was part of a fan-out

fabricVars == <<flow, fanout, totalDropped, legacyBacklog, queued, subscribed,
                channel, shown, since>>

Settled == [event |-> 0, toTry |-> {}, dropped |-> FALSE]

InitFabric ==
    /\ flow = <<>> /\ fanout = Settled
    /\ totalDropped = 0 /\ legacyBacklog = 0 /\ queued = [p \in Priority |-> 0]
    /\ subscribed = {} /\ channel = [v \in Views |-> <<>>] /\ shown = <<>>
    /\ since = [v \in Views |-> 0]

\* The counter emitted.
emittedCount == Len(flow)

\* subscribe: the fan-out under way may or may not come by.
Subscribe(v) ==
    /\ v \notin subscribed
    /\ v = "streamer" => "consumer" \in subscribed
    /\ subscribed' = subscribed \cup {v}
    /\ \/ since' = [since EXCEPT ![v] = emittedCount] /\ UNCHANGED fanout
       \/ /\ fanout # Settled
          /\ fanout' = [fanout EXCEPT !.toTry = @ \cup {v}]
          /\ since' = [since EXCEPT ![v] = emittedCount - 1]
    /\ UNCHANGED <<flow, totalDropped, legacyBacklog, queued, channel, shown>>

\* legacy_emit, and emit up to the subscribers.  Nothing takes an event out of the
\* coordinator's queues: a critical one waits for ever once they are full.
Emit(e) ==
    LET priority == PipelinePriority(e)
    IN  /\ fanout = Settled /\ emittedCount < MaxFlow
        /\ priority = Critical => queued[priority] < PipelineCapacity
        /\ flow' = Append(flow, e)
        /\ legacyBacklog' = legacyBacklog + 1
        /\ queued' = [queued EXCEPT ![priority] = IF @ < PipelineCapacity THEN @ + 1 ELSE @]
        /\ fanout' = [event |-> Len(flow'), toTry |-> subscribed, dropped |-> FALSE]
        /\ UNCHANGED <<totalDropped, subscribed, channel, shown, since>>

\* Mutant: every full channel is counted.
TrySendCounts(v) ==
    LET room == Len(channel[v]) < ViewCapacity
    IN  /\ v \in fanout.toTry
        /\ channel' = [channel EXCEPT ![v] = IF room THEN Append(@, fanout.event) ELSE @]
        /\ fanout' = [fanout EXCEPT !.toTry = @ \ {v}]
        /\ totalDropped' = IF room THEN totalDropped ELSE totalDropped + 1
        /\ UNCHANGED <<flow, legacyBacklog, queued, subscribed, shown, since>>

\* The subscribers are tried in no particular order.
TrySend(v) ==
    LET room == Len(channel[v]) < ViewCapacity
    IN  /\ v \in fanout.toTry
        /\ channel' = [channel EXCEPT ![v] = IF room THEN Append(@, fanout.event) ELSE @]
        /\ fanout' = [fanout EXCEPT !.toTry = @ \ {v}, !.dropped = @ \/ ~room]
        /\ UNCHANGED <<flow, totalDropped, legacyBacklog, queued, subscribed, shown, since>>

EmitReturns ==
    /\ fanout # Settled /\ fanout.toTry = {}
    /\ totalDropped' = IF fanout.dropped THEN totalDropped + 1 ELSE totalDropped
    /\ fanout' = Settled
    /\ UNCHANGED <<flow, legacyBacklog, queued, subscribed, channel, shown, since>>

\* recv, on behalf of view v.
TakeFrom(v) ==
    /\ channel[v] # <<>>
    /\ channel' = [channel EXCEPT ![v] = Tail(@)]
    /\ shown' = IF v = "streamer" THEN Append(shown, Head(channel[v])) ELSE shown
    /\ UNCHANGED <<flow, fanout, totalDropped, legacyBacklog, queued, subscribed, since>>

NextFabric ==
    \/ \E e \in FlowSamples : Emit(e)
    \/ \E v \in Views : Subscribe(v) \/ TrySend(v)
    \/ EmitReturns
    \/ TakeFrom("streamer")
=============================================================================
