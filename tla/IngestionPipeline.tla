-------------------------- MODULE IngestionPipeline --------------------------
(***************************************************************************)
(* The telemetry ingestion pipeline (telemetry/pipeline: coordinator.rs,   *)
(* router.rs, queues.rs, worker.rs).  Producer threads emit events, which  *)
(* are journaled, filtered, given a priority and sent to one of four       *)
(* bounded channels: a Critical send blocks while its channel is full, any *)
(* other is shed.  Two workers drain the channels, each receive taking one *)
(* event from whichever worker comes first.  The coordinator's constructor *)
(* replays the journal through the same router before any worker exists,   *)
(* start() spawns the workers and the heartbeat, shutdown() stops them.    *)
(*                                                                         *)
(* The journal is the abstract log that ReplayJournal implements; what it  *)
(* may lose (a failed append, a shadowed record) is an append that the log *)
(* does not accept.  Of the file only the readable records count: replay   *)
(* returns them all and cuts the file at the start of the last one.        *)
(***************************************************************************)
EXTENDS EventRouting, Sequences, SequencesExt, Functions

CONSTANTS Producers,      \* threads that call emit
          Main,           \* the thread that builds, starts and stops the coordinator
          Timer,          \* the heartbeat producer
          Events,         \* the events producers may emit, each once
          Envelope,       \* the envelope of each event
          Heartbeat,      \* an event of the timer
          NoEvent,        \* no event in hand
          Capacity,       \* of the channel of each priority
          MaxBatch,       \* MAX_BATCH_SIZE
          RateLimit,      \* of the filter rule of each rate-limited type, per window
          MaxBeats,       \* bound: heartbeats
          MaxFailures,    \* bound: appends to the journal that fail
          MaxSessions     \* bound: times the coordinator is built

ASSUME PipelineAssumption ==
    /\ IsFiniteSet(Producers)
    /\ {Main, Timer} \cap Producers = {} /\ Main # Timer
    /\ {Heartbeat, NoEvent} \cap Events = {} /\ Heartbeat # NoEvent
    /\ Envelope \in [Events -> EnvelopeType]
    /\ Capacity \in [Priority -> Nat \ {0}]
    /\ MaxBatch \in Nat \ {0}
    /\ RateLimit \in [RateLimitedTypes -> Nat]
    /\ MaxBeats \in Nat /\ MaxFailures \in Nat /\ MaxSessions \in Nat

Threads == Producers \cup {Main, Timer}

Workers == {"timeline", "ui_stream"}

\* Mutant: the workers leave the Critical channel alone.
SubscribedBelowCritical(w) == IF w = "timeline" THEN <<High, Medium, Low>> ELSE <<High, Medium>>

\* The order in which a worker's tick visits the channels.
Subscribed(w) == IF w = "timeline" THEN <<Critical, High, Medium, Low>>
                                   ELSE <<Critical, High, Medium>>

\* The delivered counters: Critical events are counted with the High ones.
DeliveredCounter(p) == IF p = Critical THEN High ELSE p

VARIABLES
    mode,           \* "down", "new", "ready", "running", "stopping", "stopped"
    backlog,        \* the events new() replayed and has not routed yet
    pc, event,      \* where each thread is in emit or route, and with which event
    filterCount,    \* the counter of each filter rule
    queue,          \* the four channels
    received, delivered, shed, dropped,   \* PipelineMetrics; shed is per channel
    workerPc, subscription, pending,      \* run_worker: step, channel index, batch
    signalled,      \* workers whose shutdown signal was sent
    eventsProcessed,\* WorkerStats
    heartbeat,      \* the timer's task: "absent", "on", "ended"
    beats, sessions

\* The journal, and what becomes of each event.
VARIABLES
    accepted, returned,   \* the log: acknowledged appends, replayed events
    records,              \* the records in the journal file that replay can read
    emitted,              \* events given to emit in any session
    given,                \* events that entered the pipeline in this session
    outcome,              \* how each of them ended in this session, or "none"
    settled               \* events that ended in some session

producers == <<pc, event>>
metrics == <<received, delivered, shed, dropped>>
workers == <<workerPc, subscription, pending, signalled, eventsProcessed>>
beating == <<heartbeat, beats>>
journal == <<accepted, returned, records>>
history == <<emitted, given, outcome, settled>>
vars == <<mode, backlog, producers, filterCount, queue, metrics, workers, beating, journal,
          history, sessions>>

Log == INSTANCE RecoverableLog

Prio(e) == IF e = Heartbeat THEN Low ELSE RoutedPriority(Envelope[e])

Everywhere(S, value) == [x \in S |-> value]

Init ==
    /\ mode = "down" /\ backlog = <<>>
    /\ pc = Everywhere(Threads, "idle") /\ event = Everywhere(Threads, NoEvent)
    /\ filterCount = Everywhere(RateLimitedTypes, 0)
    /\ queue = Everywhere(Priority, <<>>)
    /\ received = 0 /\ dropped = 0
    /\ delivered = Everywhere({High, Medium, Low}, 0) /\ shed = Everywhere(Priority, 0)
    /\ workerPc = Everywhere(Workers, "absent") /\ subscription = Everywhere(Workers, 1)
    /\ pending = Everywhere(Workers, <<>>) /\ signalled = {}
    /\ eventsProcessed = Everywhere(Workers, 0)
    /\ heartbeat = "absent" /\ beats = 0 /\ sessions = 0
    /\ accepted = {} /\ returned = {} /\ records = <<>>
    /\ emitted = {} /\ given = {} /\ outcome = Everywhere(Events, "none") /\ settled = {}
-----------------------------------------------------------------------------
(* new(): the journal hands back the events it can read and cuts its file at *)
(* the start of the last of them; each goes through route() before new()     *)
(* returns, and no worker exists yet.                                        *)

\* Mutant: the replayed events are not routed.
OpenWithoutRerouting ==
    /\ mode = "down" /\ sessions < MaxSessions
    /\ sessions' = sessions + 1
    /\ mode' = "new" /\ backlog' = <<>>
    /\ Log!Return(ToSet(records))
    /\ records' = Front(records)
    /\ UNCHANGED <<producers, filterCount, queue, metrics, workers, beating, history>>

Open ==
    /\ mode = "down" /\ sessions < MaxSessions
    /\ sessions' = sessions + 1
    /\ mode' = "new"
    /\ Log!Return(ToSet(records))
    /\ backlog' = records /\ given' = ToSet(records)
    /\ records' = Front(records)
    /\ UNCHANGED <<producers, filterCount, queue, metrics, workers, beating, emitted,
                   outcome, settled>>

Reroute ==
    /\ mode = "new" /\ backlog # <<>> /\ pc[Main] = "idle"
    /\ backlog' = Tail(backlog)
    /\ pc' = [pc EXCEPT ![Main] = "route"]
    /\ event' = [event EXCEPT ![Main] = Head(backlog)]
    /\ UNCHANGED <<mode, filterCount, queue, metrics, workers, beating, journal, history,
                   sessions>>

NewReturns ==
    /\ mode = "new" /\ backlog = <<>> /\ pc[Main] = "idle"
    /\ mode' = "ready"
    /\ UNCHANGED <<backlog, producers, filterCount, queue, metrics, workers, beating, journal,
                   history, sessions>>
-----------------------------------------------------------------------------
(* emit(): journal, then route. start() and shutdown() need the coordinator  *)
(* for themselves (&mut self), so no emit is in progress while they run.     *)

\* An append that fails may leave its record in the file all the same.
Journal(e) ==
    \/ Log!Accept(e) /\ records' = Append(records, e)
    \/ /\ Cardinality(emitted \ accepted) < MaxFailures
       /\ records' \in {records, Append(records, e)}
       /\ UNCHANGED <<accepted, returned>>

\* The error of an append is logged and the event is routed.
Emit(t, e) ==
    /\ mode \in {"ready", "running", "stopped"} /\ pc[t] = "idle" /\ e \notin emitted
    /\ emitted' = emitted \cup {e} /\ given' = given \cup {e}
    /\ Journal(e)
    /\ pc' = [pc EXCEPT ![t] = "route"]
    /\ event' = [event EXCEPT ![t] = e]
    /\ UNCHANGED <<mode, backlog, filterCount, queue, metrics, workers, beating, outcome, settled,
                   sessions>>

\* The events of E have met their end in this session.
Settle(E, how) ==
    /\ outcome' = [e \in Events |-> IF e \in E THEN how ELSE outcome[e]]
    /\ settled' = settled \cup (E \cap Events)

Returns(t) ==
    /\ pc' = [pc EXCEPT ![t] = "idle"]
    /\ event' = [event EXCEPT ![t] = NoEvent]

\* should_filter: the window may be over, in which case the count starts again.
Count(y) == \E n \in {filterCount[y], 0} : filterCount' = [filterCount EXCEPT ![y] = n + 1]
OverLimit(y) == filterCount'[y] > RateLimit[y]

PassesFilter(e) ==
    LET y == Envelope[e].type
    IN  IF y \in RateLimitedTypes THEN Count(y) /\ ~OverLimit(y) ELSE UNCHANGED filterCount

Filtered(t) ==
    /\ pc[t] = "route"
    /\ LET y == Envelope[event[t]].type
       IN  y \in RateLimitedTypes /\ Count(y) /\ OverLimit(y)
    /\ Returns(t) /\ Settle({event[t]}, "filtered")
    /\ UNCHANGED <<mode, backlog, queue, metrics, workers, beating, journal, emitted, given,
                   sessions>>

\* Mutant: an event too old is not counted as dropped.
TooOldUncounted(t) ==
    /\ pc[t] = "route" /\ PassesFilter(event[t])
    /\ Returns(t) /\ Settle({event[t]}, "aged")
    /\ UNCHANGED <<mode, backlog, queue, metrics, workers, beating, journal, emitted, given,
                   sessions>>

\* Stamped more than max_event_age ago: counted as dropped, never as received.
TooOld(t) ==
    /\ pc[t] = "route" /\ PassesFilter(event[t])
    /\ dropped' = dropped + 1
    /\ Returns(t) /\ Settle({event[t]}, "aged")
    /\ UNCHANGED <<mode, backlog, queue, received, delivered, shed, workers, beating, journal,
                   emitted, given, sessions>>

Dispatch(t) ==
    /\ pc[t] = "route" /\ PassesFilter(event[t])
    /\ received' = received + 1
    /\ pc' = [pc EXCEPT ![t] = "send"]
    /\ UNCHANGED <<mode, backlog, event, queue, delivered, shed, dropped, workers, beating,
                   journal, history, sessions>>

\* Mutant: off by one.
HasRoomForOneMore(p) == Len(queue[p]) <= Capacity[p]

HasRoom(p) == Len(queue[p]) < Capacity[p]

\* A Critical send waits here for room.
Send(t) ==
    /\ pc[t] = "send" /\ HasRoom(Prio(event[t]))
    /\ queue' = [queue EXCEPT ![Prio(event[t])] = Append(@, event[t])]
    /\ pc' = [pc EXCEPT ![t] = "sent"]
    /\ UNCHANGED <<mode, backlog, event, filterCount, metrics, workers, beating, journal, history,
                   sessions>>

\* Any other send is given up when the channel is full.
Shed(t) ==
    /\ pc[t] = "send" /\ Prio(event[t]) # Critical /\ ~HasRoom(Prio(event[t]))
    /\ shed' = [shed EXCEPT ![Prio(event[t])] = @ + 1]
    /\ pc' = [pc EXCEPT ![t] = "shed"]
    /\ Settle({event[t]}, "shed")
    /\ UNCHANGED <<mode, backlog, event, filterCount, queue, received, delivered, dropped, workers,
                   beating, journal, emitted, given, sessions>>

\* The channel has counted the event, the metrics count it next.
CountDropped(t) ==
    /\ pc[t] = "shed"
    /\ dropped' = dropped + 1
    /\ Returns(t)
    /\ UNCHANGED <<mode, backlog, filterCount, queue, received, delivered, shed, workers, beating,
                   journal, history, sessions>>

CountDelivered(t) ==
    /\ pc[t] = "sent"
    /\ delivered' = [delivered EXCEPT ![DeliveredCounter(Prio(event[t]))] = @ + 1]
    /\ Returns(t)
    /\ UNCHANGED <<mode, backlog, filterCount, queue, received, shed, dropped, workers, beating,
                   journal, history, sessions>>
-----------------------------------------------------------------------------
(* start(), and run_worker(): every tick visits the subscribed channels in   *)
(* order, taking what is there up to MaxBatch, and processes what it took.   *)

\* &mut self: no emit is in progress.
Quiet == \A t \in Producers : pc[t] = "idle"

Start ==
    /\ mode = "ready" /\ Quiet
    /\ mode' = "running"
    /\ workerPc' = [w \in Workers |-> "sleep"]
    /\ heartbeat' = "on"
    /\ UNCHANGED <<backlog, producers, filterCount, queue, metrics, subscription, pending,
                   signalled, eventsProcessed, beats, journal, history, sessions>>

Tick(w) ==
    /\ workerPc[w] = "sleep"
    /\ workerPc' = [workerPc EXCEPT ![w] = "drain"]
    /\ UNCHANGED <<mode, backlog, producers, filterCount, queue, metrics, subscription, pending,
                   signalled, eventsProcessed, beating, journal, history, sessions>>

Channel(w) == Subscribed(w)[subscription[w]]

BatchFull(w) == Len(pending[w]) >= MaxBatch

Receive(w) ==
    /\ workerPc[w] = "drain" /\ ~BatchFull(w)
    /\ queue[Channel(w)] # <<>>
    /\ pending' = [pending EXCEPT ![w] = Append(@, Head(queue[Channel(w)]))]
    /\ queue' = [queue EXCEPT ![Channel(w)] = Tail(@)]
    /\ UNCHANGED <<mode, backlog, producers, filterCount, metrics, workerPc, subscription,
                   signalled, eventsProcessed, beating, journal, history, sessions>>

NextChannel(w) ==
    /\ workerPc[w] = "drain" /\ ~BatchFull(w)
    /\ queue[Channel(w)] = <<>> /\ subscription[w] < Len(Subscribed(w))
    /\ subscription' = [subscription EXCEPT ![w] = @ + 1]
    /\ UNCHANGED <<mode, backlog, producers, filterCount, queue, metrics, workerPc, pending,
                   signalled, eventsProcessed, beating, journal, history, sessions>>

\* Mutant: a batch that is not full waits for more.
EndDrainWaits(w) ==
    /\ workerPc[w] = "drain"
    /\ \/ BatchFull(w)
       \/ queue[Channel(w)] = <<>> /\ subscription[w] = Len(Subscribed(w))
    /\ workerPc' = [workerPc EXCEPT ![w] = IF BatchFull(w) THEN "process" ELSE "sleep"]
    /\ subscription' = [subscription EXCEPT ![w] = 1]
    /\ UNCHANGED <<mode, backlog, producers, filterCount, queue, metrics, pending, signalled,
                   eventsProcessed, beating, journal, history, sessions>>

EndDrain(w) ==
    /\ workerPc[w] = "drain"
    /\ \/ BatchFull(w)
       \/ queue[Channel(w)] = <<>> /\ subscription[w] = Len(Subscribed(w))
    /\ workerPc' = [workerPc EXCEPT ![w] = IF pending[w] = <<>> THEN "sleep" ELSE "process"]
    /\ subscription' = [subscription EXCEPT ![w] = 1]
    /\ UNCHANGED <<mode, backlog, producers, filterCount, queue, metrics, pending, signalled,
                   eventsProcessed, beating, journal, history, sessions>>

\* Mutant: the batch is processed and kept.
FlushKeepsBatch(w) ==
    /\ Settle(Range(pending[w]), w)
    /\ eventsProcessed' = [eventsProcessed EXCEPT ![w] = @ + Len(pending[w])]
    /\ UNCHANGED pending

\* process_batch and the worker's statistics.
Flush(w) ==
    /\ Settle(Range(pending[w]), w)
    /\ eventsProcessed' = [eventsProcessed EXCEPT ![w] = @ + Len(pending[w])]
    /\ pending' = [pending EXCEPT ![w] = <<>>]

Process(w) ==
    /\ workerPc[w] = "process"
    /\ Flush(w)
    /\ workerPc' = [workerPc EXCEPT ![w] = "sleep"]
    /\ UNCHANGED <<mode, backlog, producers, filterCount, queue, metrics, subscription, signalled,
                   beating, journal, emitted, given, sessions>>

\* The select takes the shutdown branch: the batch is flushed, the channels are not.
EndWorker(w) ==
    /\ workerPc[w] = "sleep" /\ w \in signalled
    /\ Flush(w)
    /\ workerPc' = [workerPc EXCEPT ![w] = "ended"]
    /\ UNCHANGED <<mode, backlog, producers, filterCount, queue, metrics, subscription, signalled,
                   beating, journal, emitted, given, sessions>>
-----------------------------------------------------------------------------
(* The heartbeat producer dispatches without the router: no filter, no trust *)
(* override, straight to the Low channel, freshly stamped.                   *)

HeartbeatWakes ==
    /\ heartbeat = "on" /\ pc[Timer] = "idle"
    /\ mode = "running" /\ beats < MaxBeats
    /\ beats' = beats + 1
    /\ received' = received + 1
    /\ pc' = [pc EXCEPT ![Timer] = "send"]
    /\ event' = [event EXCEPT ![Timer] = Heartbeat]
    /\ UNCHANGED <<mode, backlog, filterCount, queue, delivered, shed, dropped, workers, heartbeat,
                   journal, history, sessions>>

HeartbeatEnds ==
    /\ heartbeat = "on" /\ pc[Timer] = "idle" /\ mode \in {"stopping", "stopped"}
    /\ heartbeat' = "ended"
    /\ UNCHANGED <<mode, backlog, producers, filterCount, queue, metrics, workers, beats, journal,
                   history, sessions>>
-----------------------------------------------------------------------------
(* shutdown(): the running flag, a signal to each worker in turn (without    *)
(* waiting for any), the timers' signal, the journal's checkpoint.           *)

BeginShutdown ==
    /\ mode = "running" /\ Quiet
    /\ mode' = "stopping"
    /\ UNCHANGED <<backlog, producers, filterCount, queue, metrics, workers, beating, journal,
                   history, sessions>>

SignalWorker ==
    /\ mode = "stopping" /\ signalled # Workers
    /\ signalled' = signalled \cup {IF signalled = {} THEN "timeline" ELSE "ui_stream"}
    /\ UNCHANGED <<mode, backlog, producers, filterCount, queue, metrics, workerPc, subscription,
                   pending, eventsProcessed, beating, journal, history, sessions>>

EndShutdown ==
    /\ mode = "stopping" /\ signalled = Workers
    /\ mode' = "stopped"
    /\ UNCHANGED <<backlog, producers, filterCount, queue, metrics, workers, beating, journal,
                   history, sessions>>

\* The process ends, with or without a shutdown: only the log stays.
Crash ==
    /\ mode # "down"
    /\ mode' = "down" /\ backlog' = <<>>
    /\ pc' = Everywhere(Threads, "idle") /\ event' = Everywhere(Threads, NoEvent)
    /\ filterCount' = Everywhere(RateLimitedTypes, 0)
    /\ queue' = Everywhere(Priority, <<>>)
    /\ received' = 0 /\ dropped' = 0
    /\ delivered' = Everywhere({High, Medium, Low}, 0) /\ shed' = Everywhere(Priority, 0)
    /\ workerPc' = Everywhere(Workers, "absent") /\ subscription' = Everywhere(Workers, 1)
    /\ pending' = Everywhere(Workers, <<>>) /\ signalled' = {}
    /\ eventsProcessed' = Everywhere(Workers, 0)
    /\ heartbeat' = "absent"
    /\ given' = {} /\ outcome' = Everywhere(Events, "none")
    /\ UNCHANGED <<beats, journal, emitted, settled, sessions>>
-----------------------------------------------------------------------------
RouteStep(t) == \/ Filtered(t) \/ TooOld(t) \/ Dispatch(t) \/ Send(t) \/ CountDelivered(t)
                \/ Shed(t) \/ CountDropped(t)

WorkerStep(w) ==
    Tick(w) \/ Receive(w) \/ NextChannel(w) \/ EndDrain(w) \/ Process(w) \/ EndWorker(w)

Next ==
    \/ Open \/ Reroute \/ NewReturns
    \/ \E t \in Producers, e \in Events : Emit(t, e)
    \/ \E t \in Threads : RouteStep(t)
    \/ Start
    \/ \E w \in Workers : WorkerStep(w)
    \/ HeartbeatWakes \/ HeartbeatEnds
    \/ BeginShutdown \/ SignalWorker \/ EndShutdown
    \/ Crash

Spec == Init /\ [][Next]_vars

\* Threads and tasks that can run do run; nobody is obliged to emit, to start or
\* stop the coordinator, or to crash.  A task whose shutdown signal was sent does
\* not keep choosing its timer: the timer of the next iteration is not due.
Fairness ==
    /\ WF_vars(Reroute) /\ WF_vars(NewReturns)
    /\ \A t \in Threads : WF_vars(RouteStep(t))
    /\ \A w \in Workers : WF_vars(WorkerStep(w)) /\ SF_vars(EndWorker(w))
    /\ WF_vars(SignalWorker) /\ WF_vars(EndShutdown)

FairSpec == Spec /\ Fairness
-----------------------------------------------------------------------------
Positions(q, e) == {i \in DOMAIN q : q[i] = e}

\* Where in the pipeline e is.
Places(e) ==
    {<<"backlog", 0, i>> : i \in Positions(backlog, e)}
    \cup {<<"thread", t, 0>> : t \in {t \in Threads : event[t] = e /\ pc[t] \in {"route", "send"}}}
    \cup (UNION {{<<"queue", p, i>> : i \in Positions(queue[p], e)} : p \in Priority})
    \cup (UNION {{<<"batch", w, i>> : i \in Positions(pending[w], e)} : w \in Workers})
    \cup (IF outcome[e] = "none" THEN {} ELSE {<<"ended", outcome[e], 0>>})

(* Blocking senders, shedding, two workers competing for the same channels    *)
(* and the replay in new(): an event that entered the pipeline in this        *)
(* session is always in exactly one place, and ends at most once.             *)
OnePlace == \A e \in Events : Cardinality(Places(e)) = IF e \in given THEN 1 ELSE 0

Delivered == delivered[High] + delivered[Medium] + delivered[Low]
ShedInAll == shed[Critical] + shed[High] + shed[Medium] + shed[Low]
Queued == Len(queue[Critical]) + Len(queue[High]) + Len(queue[Medium]) + Len(queue[Low])
Batched == Len(pending["timeline"]) + Len(pending["ui_stream"])
Processed == eventsProcessed["timeline"] + eventsProcessed["ui_stream"]

Sending == {t \in Threads : pc[t] \in {"send", "sent"}}
Sent == {t \in Threads : pc[t] = "sent"}
Shedding == {t \in Threads : pc[t] = "shed"}
Aged == {e \in Events : outcome[e] = "aged"}

(* PipelineMetrics (relaxed atomics updated one by one around the send, read  *)
(* by health()): what was received is delivered, shed or in a thread's hands; *)
(* what was delivered is queued, in a batch or processed; what was dropped is *)
(* what the channels shed and what was too old, less the events a thread has  *)
(* counted on the channel and not yet in the metrics.                         *)
MetricsBalance ==
    /\ received = Delivered + ShedInAll + Cardinality(Sending)
    /\ dropped + Cardinality(Shedding) = ShedInAll + Cardinality(Aged)
    /\ Delivered + Cardinality(Sent) = Queued + Batched + Processed
    /\ shed[Critical] = 0

(* Bounded memory and trust: no channel or batch outgrows its bound, the      *)
(* Critical channel holds events of kernel and admin sources only, and what   *)
(* the router sent of a kernel source is never below High.                    *)
QueueDiscipline ==
    /\ \A w \in Workers : Len(pending[w]) <= MaxBatch
    /\ \A p \in Priority :
          /\ Len(queue[p]) <= Capacity[p]
          /\ \A e \in Range(queue[p]) \ {Heartbeat} :
                /\ p = Critical => Envelope[e].trust \in {Kernel, Admin}
                /\ Envelope[e].trust = Kernel => p >= High

(* An event whose append was acknowledged, and that did not come to its end   *)
(* before its session died, is back in the pipeline in the next session, in   *)
(* new()'s backlog or beyond: nothing is lost by ONE crash, wherever it falls. *)
SurvivesOneCrash ==
    sessions = 2 /\ mode # "down" => \A e \in accepted \ settled : Cardinality(Places(e)) = 1

(* While the pipeline runs, a send that waits for room gets through.          *)
SendersProceed ==
    \A t \in Threads :
        (mode = "running" /\ pc[t] = "send") ~> (mode # "running" \/ pc[t] # "send")

(* While the pipeline runs, an event given to it comes to an end.             *)
EverythingSettles ==
    \A e \in Events :
        (mode = "running" /\ e \in given) ~> (mode # "running" \/ outcome[e] # "none")

(* An acknowledged event that no session brought to its end is replayed.      *)
UnprocessedIsReplayed ==
    mode = "new" => accepted \subseteq settled \cup given

(* The coordinator's constructor returns, so that start() can be called.      *)
ConstructorReturns == (mode = "new") ~> (mode # "new")
==============================================================================
