--------------------------- MODULE FrontendRouter ---------------------------
(***************************************************************************)
(* telemetry/router.rs and telemetry/stream.rs: a worker routes envelopes  *)
(* to the subscribers that match, each behind a bounded channel with a     *)
(* policy for a full one, and a stream passes a subscriber's envelopes on  *)
(* to the frontend in batches until it is shut down.  The list of the      *)
(* subscribers is locked from the first to the last of a route.            *)
(***************************************************************************)
EXTENDS LiveEvents, FiniteSets, SequencesExt

CONSTANTS RouterSamples,     \* envelopes that are produced, and
          MaxRouted,         \* how many
          Listeners,         \* subscriptions: filter, policy, the stream's batch and
                             \*   whether it flushes a late batch: [filter, policy, chunk, late]
          RouterCapacity,    \* of a subscriber's channel: 2048 or 4096
          WorkerBatch        \* of the worker: 64

ASSUME RouterAssumption == RouterCapacity \in Nat \ {0} /\ WorkerBatch \in Nat \ {0}

VARIABLES source,            \* the worker's channel
          ahead,             \* the rest of its batch, the envelope being routed first
          turn,              \* the next subscriber of the route; 0 between two routes
          anyDropped,        \* dropped_any
          listeners,         \* subscribers, and the stream behind each
          routed, routedDropped, routedFiltered,     \* emitted, dropped_total, filtered_total
          produced           \* history: every envelope, an envelope's place is its number

routerCounts == <<routed, routedDropped, routedFiltered>>
routerVars == <<source, ahead, turn, anyDropped, listeners, routerCounts, produced>>

InitRouter ==
    /\ source = <<>> /\ ahead = <<>> /\ turn = 0 /\ anyDropped = FALSE /\ listeners = <<>>
    /\ routed = 0 /\ routedDropped = 0 /\ routedFiltered = 0 /\ produced = <<>>

\* subscribe_with_policy waits for the lock; joined is history.
SubscribeTo(spec) ==
    /\ turn = 0
    /\ \A i \in DOMAIN listeners : listeners[i].spec # spec
    /\ listeners' = Append(listeners,
          [spec |-> spec, queue |-> <<>>, delivered |-> 0, dropped |-> 0, uncounted |-> "none",
           batch |-> <<>>, shown |-> <<>>, shutdown |-> FALSE, ended |-> FALSE, joined |-> routed])
    /\ UNCHANGED <<source, ahead, turn, anyDropped, routerCounts, produced>>

Produce(e) ==
    /\ Len(produced) < MaxRouted
    /\ produced' = Append(produced, e)
    /\ source' = Append(source, Len(produced'))
    /\ UNCHANGED <<ahead, turn, anyDropped, listeners, routerCounts>>

\* recv_timeout, and try_recv while the batch has room.
TakeBatch ==
    LET n == IF Len(source) < WorkerBatch THEN Len(source) ELSE WorkerBatch
    IN  /\ ahead = <<>> /\ source # <<>>
        /\ ahead' = SubSeq(source, 1, n) /\ source' = SubSeq(source, n + 1, Len(source))
        /\ UNCHANGED <<turn, anyDropped, listeners, routerCounts, produced>>

BeginRoute ==
    /\ turn = 0 /\ ahead # <<>>
    /\ turn' = 1 /\ anyDropped' = FALSE
    /\ UNCHANGED <<source, ahead, listeners, routerCounts, produced>>

QueueFull(l) == Len(l.queue) >= RouterCapacity

\* Mutant: every policy tries.
WaitsNever(l) == FALSE

\* send waits for room as long as the receiver is there.
Waits(l) == l.spec.policy = "Block" /\ QueueFull(l) /\ ~l.ended

\* The counters of a subscriber with the count that is still due.
Delivered(l) == l.delivered + (IF l.uncounted = "delivered" THEN 1 ELSE 0)
Dropped(l) == l.dropped + (IF l.uncounted = "dropped" THEN 1 ELSE 0)
AllCounted == \A i \in DOMAIN listeners : listeners[i].uncounted = "none"

\* One subscriber of the route.  DropOldest and DropNewest both try_send.
RouteTo ==
    LET l == listeners[turn]
        number == Head(ahead)
        refused == l.ended \/ QueueFull(l)
    IN  /\ turn \in DOMAIN listeners /\ AllCounted
        /\ turn' = turn + 1
        /\ UNCHANGED <<source, ahead, routed, routedDropped, produced>>
        /\ \/ /\ ~Matches(l.spec.filter, produced[number])
              /\ routedFiltered' = routedFiltered + 1
              /\ UNCHANGED <<anyDropped, listeners>>
           \/ /\ Matches(l.spec.filter, produced[number]) /\ ~Waits(l)
              /\ listeners' = [listeners EXCEPT ![turn] =
                    IF refused THEN [l EXCEPT !.uncounted = "dropped"]
                    ELSE [l EXCEPT !.queue = Append(@, number), !.uncounted = "delivered"]]
              /\ anyDropped' = (anyDropped \/ refused)
              /\ UNCHANGED routedFiltered

\* The envelope is with the subscriber, or refused, before it is counted.
CountRouted(i) ==
    /\ listeners[i].uncounted # "none"
    /\ listeners' = [listeners EXCEPT
          ![i] = [@ EXCEPT !.delivered = Delivered(listeners[i]), !.dropped = Dropped(listeners[i]),
                           !.uncounted = "none"]]
    /\ UNCHANGED <<source, ahead, turn, anyDropped, routerCounts, produced>>

EndRoute ==
    /\ turn > Len(listeners) /\ AllCounted
    /\ turn' = 0 /\ ahead' = Tail(ahead)
    /\ routed' = routed + 1
    /\ routedDropped' = IF anyDropped THEN routedDropped + 1 ELSE routedDropped
    /\ UNCHANGED <<source, anyDropped, listeners, routedFiltered, produced>>

Flushed(l) == [l EXCEPT !.shown = @ \o l.batch, !.batch = <<>>]

\* recv, before the flag is seen or after it was seen lowered: a full batch is shown, and
\* a late one may be.
StreamTakes(i) ==
    LET l == listeners[i]
        more == [l EXCEPT !.queue = Tail(@), !.batch = Append(@, Head(l.queue))]
    IN  /\ ~l.ended /\ l.queue # <<>>
        /\ \/ /\ l.spec.late \/ Len(more.batch) >= l.spec.chunk
              /\ listeners' = [listeners EXCEPT ![i] = Flushed(more)]
           \/ /\ Len(more.batch) < l.spec.chunk
              /\ listeners' = [listeners EXCEPT ![i] = more]
        /\ UNCHANGED <<source, ahead, turn, anyDropped, routerCounts, produced>>

\* 50 ms without an envelope.
StreamIdles(i) ==
    /\ ~listeners[i].ended /\ listeners[i].queue = <<>> /\ listeners[i].batch # <<>>
    /\ listeners' = [listeners EXCEPT ![i] = Flushed(@)]
    /\ UNCHANGED <<source, ahead, turn, anyDropped, routerCounts, produced>>

ShutDown(i) ==
    /\ ~listeners[i].shutdown
    /\ listeners' = [listeners EXCEPT ![i].shutdown = TRUE]
    /\ UNCHANGED <<source, ahead, turn, anyDropped, routerCounts, produced>>

\* The flag is seen: what is in the channel goes with the receiver, the subscriber stays.
StreamEnds(i) ==
    /\ listeners[i].shutdown /\ ~listeners[i].ended
    /\ listeners' = [listeners EXCEPT ![i] = [Flushed(@) EXCEPT !.ended = TRUE]]
    /\ UNCHANGED <<source, ahead, turn, anyDropped, routerCounts, produced>>

NextRouter ==
    \/ \E e \in RouterSamples : Produce(e)
    \/ \E spec \in Listeners : SubscribeTo(spec)
    \/ TakeBatch \/ BeginRoute \/ RouteTo \/ EndRoute
    \/ \E i \in DOMAIN listeners : CountRouted(i)
    \/ \E i \in DOMAIN listeners : StreamTakes(i) \/ StreamIdles(i) \/ ShutDown(i) \/ StreamEnds(i)
-----------------------------------------------------------------------------
\* The envelopes that have been past a subscriber, those of them it asked for, those it
\* accepted, and those that it asked for and did not accept.
Past(i) == listeners[i].joined + 1 .. (IF i < turn THEN routed + 1 ELSE routed)
Wanted(i) == {n \in Past(i) : Matches(listeners[i].spec.filter, produced[n])}
AcceptedBy(l) == l.shown \o l.batch \o l.queue
Accepted(i) == AcceptedBy(listeners[i])
Missed(i) == Wanted(i) \ ToSet(Accepted(i))

\* Who was spared which envelope.
Spared == {p \in (DOMAIN listeners) \X (DOMAIN produced) : p[2] \in Past(p[1]) \ Wanted(p[1])}

(* Whatever the streams do meanwhile: the frontend is shown, in order and each *)
(* once, envelopes it asked for; a subscriber that is waited for misses none   *)
(* while its stream runs; and what was not accepted is what the counters of    *)
(* the subscribers and of the router say, but for the one envelope that is     *)
(* about to be counted.                                                        *)
StreamExact ==
    /\ \A i \in DOMAIN listeners :
          LET l == listeners[i]
          IN  /\ Rising(Accepted(i)) /\ ToSet(Accepted(i)) \subseteq Wanted(i)
              /\ Delivered(l) = Len(Accepted(i)) /\ Dropped(l) = Cardinality(Missed(i))
              /\ (l.spec.policy = "Block" /\ ~l.ended) => Missed(i) = {}
    /\ routedFiltered = Cardinality(Spared)
    /\ turn = 0 => routedDropped = Cardinality(UNION {Missed(i) : i \in DOMAIN listeners})
=============================================================================
