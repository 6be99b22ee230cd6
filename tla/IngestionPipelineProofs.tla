----------------------- MODULE IngestionPipelineProofs -----------------------
(***************************************************************************)
(* For any producers and events, any channel capacities, batch size and    *)
(* rate limits: the pipeline is type correct, an event given to it is in   *)
(* one place, its metrics add up, its channels and batches keep to their   *)
(* bounds and priorities, and one crash loses nothing it acknowledged.     *)
(***************************************************************************)
EXTENDS IngestionPipeline, SequenceFacts

Item == Events \cup {Heartbeat}

Ways == {"filtered", "aged", "shed"} \cup Workers

TypeOK ==
    /\ mode \in {"down", "new", "ready", "running", "stopping", "stopped"}
    /\ backlog \in Seq(Events)
    /\ pc \in [Threads -> {"idle", "route", "send", "sent", "shed"}]
    /\ event \in [Threads -> Item \cup {NoEvent}]
    /\ filterCount \in [RateLimitedTypes -> Nat]
    /\ queue \in [Priority -> Seq(Item)]
    /\ received \in Nat /\ dropped \in Nat
    /\ delivered \in [{High, Medium, Low} -> Nat] /\ shed \in [Priority -> Nat]
    /\ workerPc \in [Workers -> {"absent", "sleep", "drain", "process", "ended"}]
    /\ subscription \in [Workers -> 1..4]
    /\ \A w \in Workers : subscription[w] <= Len(Subscribed(w))
    /\ pending \in [Workers -> Seq(Item)] /\ signalled \subseteq Workers
    /\ eventsProcessed \in [Workers -> Nat]
    /\ heartbeat \in {"absent", "on", "ended"}
    /\ beats \in 0..MaxBeats /\ sessions \in 0..MaxSessions
    /\ accepted \subseteq Events /\ returned \subseteq Events /\ records \in Seq(Events)
    /\ emitted \subseteq Events /\ given \subseteq Events /\ settled \subseteq Events
    /\ outcome \in [Events -> {"none"} \cup Ways]

\* What a thread has in hand, by where it is.
Hands ==
    \A t \in Threads :
        /\ pc[t] = "idle" <=> event[t] = NoEvent
        /\ pc[t] = "route" => event[t] \in Events

\* Nothing of a session outlives it.
Down ==
    mode = "down" =>
        /\ backlog = <<>> /\ given = {}
        /\ \A t \in Threads : pc[t] = "idle"
        /\ \A p \in Priority : queue[p] = <<>>
        /\ \A w \in Workers : workerPc[w] = "absent" /\ pending[w] = <<>>
        /\ \A e \in Events : outcome[e] = "none"

\* Each session's events are among the finitely many emitted so far.
Emitted == IsFiniteSet(emitted) /\ given \subseteq emitted /\ accepted \subseteq emitted

\* What the journal can read: each event once, and all it has yet to hand back.
Recorded ==
    /\ IsInjective(records) /\ ToSet(records) \subseteq emitted
    /\ accepted \ returned \subseteq ToSet(records)

StateInv == TypeOK /\ Hands /\ Down /\ Emitted /\ Recorded

\* Channels and batches hold what was sent to them, up to their bounds.
ChannelInv ==
    /\ \A w \in Workers : Len(pending[w]) <= MaxBatch
    /\ \A p \in Priority :
          /\ Len(queue[p]) <= Capacity[p]
          /\ \A e \in ToSet(queue[p]) : Prio(e) = p
-----------------------------------------------------------------------------
(* The places an event may be at.                                            *)

Waiting == ToSet(backlog)
InHand == {t \in Threads : pc[t] \in {"route", "send"}}
Held == {event[t] : t \in InHand}
InQueue(p) == ToSet(queue[p])
InBatch(w) == ToSet(pending[w])
Ended(e) == outcome[e] # "none"

-----------------------------------------------------------------------------
(* The router's table and the constants.                                     *)

LEMMA RoutedPriorities ==
    ASSUME NEW envelope \in EnvelopeType
    PROVE  /\ RoutedPriority(envelope) \in Priority
           /\ RoutedPriority(envelope) = Critical => envelope.trust \in {Kernel, Admin}
           /\ envelope.trust = Kernel => RoutedPriority(envelope) >= High
<1>1. envelope.priority \in Priority /\ envelope.trust \in Trust
  BY DEF EnvelopeType
<1>2. TablePriority(envelope) \in Priority
  BY <1>1 DEF TablePriority, Priority, Critical, High, Medium, Low
<1> QED
  BY <1>1, <1>2 DEF RoutedPriority, TrustOverride, Priority, Trust, Critical, High, Medium, Low,
     Kernel, Admin, User, External

LEMMA PriorityOf ==
    ASSUME NEW e \in Item
    PROVE  /\ Prio(e) \in Priority /\ (e = Heartbeat => Prio(e) = Low)
           /\ e \in Events =>
                 /\ Prio(e) = Critical => Envelope[e].trust \in {Kernel, Admin}
                 /\ Envelope[e].trust = Kernel => Prio(e) >= High
<1>1. CASE e = Heartbeat
  BY <1>1, PipelineAssumption DEF Prio, Priority
<1>2. CASE e \in Events /\ e # Heartbeat
  <2>1. Envelope[e] \in EnvelopeType /\ Prio(e) = RoutedPriority(Envelope[e])
    BY <1>2, PipelineAssumption DEF Prio
  <2> QED
    BY <1>2, <2>1, RoutedPriorities
<1> QED
  BY <1>1, <1>2 DEF Item

LEMMA ThreadsAreFinite == IsFiniteSet(Threads) /\ Main \in Threads /\ Timer \in Threads
<1>1. IsFiniteSet({Main, Timer})
  <2>1. IsFiniteSet({Main}) /\ IsFiniteSet({Main} \cup {Timer})
    BY FS_Singleton, FS_AddElement
  <2> QED
    BY <2>1
<1>2. Threads = Producers \cup {Main, Timer}
  BY DEF Threads
<1> QED
  BY <1>1, <1>2, FS_Union, PipelineAssumption

\* The channel a worker looks at.
LEMMA ChannelIsPriority ==
    ASSUME TypeOK, NEW w \in Workers
    PROVE  Channel(w) \in Priority /\ Len(Subscribed(w)) \in {3, 4}
<1>1. subscription[w] \in 1..4 /\ subscription[w] <= Len(Subscribed(w))
  BY DEF TypeOK
<1>2. CASE w = "timeline"
  BY <1>1, <1>2 DEF Channel, Subscribed, Priority
<1>3. CASE w # "timeline"
  BY <1>1, <1>3 DEF Channel, Subscribed, Priority
<1> QED
  BY <1>2, <1>3

LEMMA RangeIsToSet == ASSUME NEW q PROVE Range(q) = ToSet(q)
BY DEF Range, ToSet
-----------------------------------------------------------------------------
(* Types, hands and sessions.                                                *)

\* The filter counts, and lets pass or not.
LEMMA FilterTypes ==
    ASSUME TypeOK, NEW e, \/ PassesFilter(e)
                          \/ Envelope[e].type \in RateLimitedTypes /\ Count(Envelope[e].type)
    PROVE  filterCount' \in [RateLimitedTypes -> Nat]
<1>1. CASE filterCount' = filterCount
  BY <1>1 DEF TypeOK
<1>2. CASE Envelope[e].type \in RateLimitedTypes /\ Count(Envelope[e].type)
  BY <1>2 DEF Count, TypeOK
<1> QED
  BY <1>1, <1>2 DEF PassesFilter

LEMMA SettleTypes ==
    ASSUME TypeOK, NEW E, NEW how \in Ways, Settle(E, how)
    PROVE  /\ outcome' \in [Events -> {"none"} \cup Ways] /\ settled' \subseteq Events
           /\ \A e \in Events : outcome'[e] = IF e \in E THEN how ELSE outcome[e]
BY DEF TypeOK, Settle

\* Threads but t stay where they are.
LEMMA ThreadMoves ==
    ASSUME TypeOK, Hands, NEW t \in Threads, NEW step \in {"idle", "route", "send", "sent", "shed"},
           NEW e \in Item \cup {NoEvent}, pc' = [pc EXCEPT ![t] = step],
           event' = [event EXCEPT ![t] = e],
           step = "idle" <=> e = NoEvent, step = "route" => e \in Events
    PROVE  /\ pc' \in [Threads -> {"idle", "route", "send", "sent", "shed"}]
           /\ event' \in [Threads -> Item \cup {NoEvent}] /\ Hands'
BY DEF TypeOK, Hands

LEMMA InHandIsItem ==
    ASSUME TypeOK, Hands, NEW t \in Threads, pc[t] # "idle"
    PROVE  event[t] \in Item /\ event[t] # NoEvent /\ Prio(event[t]) \in Priority
BY PriorityOf DEF TypeOK, Hands

LEMMA InitState == Init => StateInv
<1> SUFFICES ASSUME Init PROVE StateInv
  OBVIOUS
<1> USE DEF Init, Everywhere
<1>1. TypeOK
  BY PipelineAssumption DEF TypeOK, Ways, Item, Subscribed
<1>2. Hands /\ Down
  BY DEF Hands, Down
<1>3. Emitted /\ Recorded
  BY FS_EmptySet, NoElements DEF Emitted, Recorded
<1> QED
  BY <1>1, <1>2, <1>3 DEF StateInv

LEMMA NewState ==
    ASSUME StateInv, Open \/ Reroute \/ NewReturns
    PROVE  StateInv'
<1> USE DEF StateInv
<1>1. CASE Open
  <2>1. /\ mode = "down" /\ mode' = "new" /\ sessions' = sessions + 1 /\ sessions < MaxSessions
        /\ returned' = returned \cup ToSet(records) /\ accepted' = accepted
        /\ backlog' = records /\ given' = ToSet(records) /\ records' = Front(records)
        /\ UNCHANGED <<producers, filterCount, queue, metrics, workers, beating, emitted,
                       outcome, settled>>
    BY <1>1 DEF Open, Log!Return
  <2>2. /\ records \in Seq(Events) /\ ToSet(records) \subseteq Events
        /\ records' \in Seq(Events) /\ ToSet(records') \subseteq ToSet(records)
        /\ IsInjective(records')
    BY <2>1, FrontFacts DEF TypeOK, Recorded, Emitted
  <2>3. TypeOK'
    <3>1. returned' \subseteq Events /\ given' \subseteq Events /\ sessions' \in 0..MaxSessions
      BY <2>1, <2>2, PipelineAssumption DEF TypeOK
    <3> QED
      BY <2>1, <2>2, <3>1 DEF TypeOK, producers, metrics, workers, beating
  <2>4. Hands' /\ Down' /\ Emitted'
    BY <2>1 DEF Hands, Down, Emitted, Recorded, producers
  <2>5. Recorded'
    BY <2>1, <2>2 DEF Recorded
  <2> QED
    BY <2>3, <2>4, <2>5
<1>2. CASE Reroute
  <2>1. /\ Head(backlog) \in Events /\ Tail(backlog) \in Seq(Events) /\ Head(backlog) # NoEvent
        /\ mode = "new"
    BY <1>2, PipelineAssumption DEF Reroute, TypeOK
  <2>2. /\ pc' \in [Threads -> {"idle", "route", "send", "sent", "shed"}]
        /\ event' \in [Threads -> Item \cup {NoEvent}] /\ Hands'
    BY <1>2, <2>1, ThreadMoves, ThreadsAreFinite DEF Reroute, Item
  <2>3. TypeOK'
    BY <1>2, <2>1, <2>2 DEF Reroute, TypeOK, metrics, workers, beating, journal, history
  <2> QED
    BY <1>2, <2>1, <2>2, <2>3 DEF Reroute, Down, Emitted, Recorded, journal, history
<1>3. CASE NewReturns
  <2>1. TypeOK'
    BY <1>3 DEF NewReturns, TypeOK, producers, metrics, workers, beating, journal, history
  <2> QED
    BY <1>3, <2>1 DEF NewReturns, Hands, Down, Emitted, Recorded, producers, journal, history
<1> QED
  BY <1>1, <1>2, <1>3

LEMMA EmitState ==
    ASSUME StateInv, NEW t \in Producers, NEW e \in Events, Emit(t, e)
    PROVE  StateInv'
<1> USE DEF StateInv
<1>1. /\ mode # "down" /\ t \in Threads /\ e # NoEvent
      /\ UNCHANGED <<mode, backlog, filterCount, queue, metrics, workers, beating, outcome, settled,
                     sessions>>
      /\ emitted' = emitted \cup {e} /\ given' = given \cup {e} /\ e \notin emitted
      /\ \/ accepted' = accepted \cup {e} /\ records' = Append(records, e)
         \/ accepted' = accepted /\ records' \in {records, Append(records, e)}
      /\ returned' = returned
  BY PipelineAssumption DEF Emit, Journal, Threads, Log!Accept
<1>2. /\ pc' \in [Threads -> {"idle", "route", "send", "sent", "shed"}]
      /\ event' \in [Threads -> Item \cup {NoEvent}] /\ Hands'
  BY <1>1, ThreadMoves DEF Emit, Item
<1>3. /\ Append(records, e) \in Seq(Events) /\ ToSet(Append(records, e)) = ToSet(records) \cup {e}
      /\ IsInjective(Append(records, e))
  BY <1>1, AppendFacts DEF TypeOK, Recorded
<1>4. TypeOK'
  BY <1>1, <1>2, <1>3 DEF TypeOK, metrics, workers, beating
<1>5. Emitted'
  BY <1>1, FS_AddElement DEF Emitted
<1>6. Recorded'
  BY <1>1, <1>3 DEF Recorded
<1> QED
  BY <1>1, <1>2, <1>4, <1>5, <1>6 DEF Down

\* A step of a thread that is not idle: the coordinator is not down.
LEMMA RouteState ==
    ASSUME StateInv, NEW t \in Threads, RouteStep(t)
    PROVE  StateInv'
<1> USE DEF StateInv
<1>1. pc[t] # "idle" /\ mode # "down" /\ mode' = mode
      /\ event[t] \in Item /\ event[t] # NoEvent /\ Prio(event[t]) \in Priority
  <2>1. pc[t] # "idle" /\ mode' = mode
    BY DEF RouteStep, Filtered, TooOld, Dispatch, Send, Shed, CountDropped, CountDelivered
  <2> QED
    BY <2>1, InHandIsItem DEF Down
<1>2. Down'
  BY <1>1 DEF Down
<1>3. Emitted' /\ Recorded'
  <2>1. UNCHANGED <<journal, emitted, given>>
    BY DEF RouteStep, Filtered, TooOld, Dispatch, Send, Shed, CountDropped, CountDelivered, history
  <2> QED
    BY <2>1 DEF Emitted, Recorded, journal
<1>4. ASSUME Returns(t)
      PROVE  /\ pc' \in [Threads -> {"idle", "route", "send", "sent", "shed"}]
             /\ event' \in [Threads -> Item \cup {NoEvent}] /\ Hands'
  BY <1>4, ThreadMoves DEF Returns
<1>5. ASSUME NEW step \in {"send", "sent", "shed"}, pc' = [pc EXCEPT ![t] = step], event' = event
      PROVE  /\ pc' \in [Threads -> {"idle", "route", "send", "sent", "shed"}]
             /\ event' \in [Threads -> Item \cup {NoEvent}] /\ Hands'
  <2>1. event' = [event EXCEPT ![t] = event[t]]
    BY <1>5 DEF TypeOK
  <2> QED
    BY <1>1, <1>5, <2>1, ThreadMoves
<1>6. CASE Filtered(t)
  <2>1. outcome' \in [Events -> {"none"} \cup Ways] /\ settled' \subseteq Events
    BY <1>6, SettleTypes DEF Filtered, Ways
  <2>2. filterCount' \in [RateLimitedTypes -> Nat]
    BY <1>6, FilterTypes DEF Filtered
  <2>3. TypeOK'
    BY <1>4, <1>6, <2>1, <2>2 DEF Filtered, TypeOK, metrics, workers, beating, journal
  <2> QED
    BY <1>2, <1>3, <1>4, <1>6, <2>3 DEF Filtered
<1>7. CASE TooOld(t)
  <2>1. outcome' \in [Events -> {"none"} \cup Ways] /\ settled' \subseteq Events
    BY <1>7, SettleTypes DEF TooOld, Ways
  <2>2. filterCount' \in [RateLimitedTypes -> Nat]
    BY <1>7, FilterTypes DEF TooOld
  <2>3. TypeOK'
    BY <1>4, <1>7, <2>1, <2>2 DEF TooOld, TypeOK, workers, beating, journal
  <2> QED
    BY <1>2, <1>3, <1>4, <1>7, <2>3 DEF TooOld
<1>8. CASE Dispatch(t)
  <2>1. filterCount' \in [RateLimitedTypes -> Nat]
    BY <1>8, FilterTypes DEF Dispatch
  <2>2. TypeOK'
    BY <1>5, <1>8, <2>1 DEF Dispatch, TypeOK, workers, beating, journal, history
  <2> QED
    BY <1>2, <1>3, <1>5, <1>8, <2>2 DEF Dispatch
<1>9. CASE Send(t)
  <2>1. queue' \in [Priority -> Seq(Item)]
    BY <1>1, <1>9 DEF Send, TypeOK
  <2>2. TypeOK'
    BY <1>5, <1>9, <2>1 DEF Send, TypeOK, metrics, workers, beating, journal, history
  <2> QED
    BY <1>2, <1>3, <1>5, <1>9, <2>2 DEF Send
<1>10. CASE Shed(t)
  <2>1. outcome' \in [Events -> {"none"} \cup Ways] /\ settled' \subseteq Events
    BY <1>10, SettleTypes DEF Shed, Ways
  <2>2. shed' \in [Priority -> Nat]
    <3>1. shed \in [Priority -> Nat]
      BY DEF TypeOK
    <3>2. shed' = [shed EXCEPT ![Prio(event[t])] = @ + 1]
      BY <1>10 DEF Shed
    <3> QED
      BY <1>1, <3>1, <3>2
  <2>3. TypeOK'
    BY <1>5, <1>10, <2>1, <2>2 DEF Shed, TypeOK, workers, beating, journal
  <2> QED
    BY <1>2, <1>3, <1>5, <1>10, <2>3 DEF Shed
<1>12. CASE CountDropped(t)
  <2>1. TypeOK'
    BY <1>4, <1>12 DEF CountDropped, TypeOK, workers, beating, journal, history
  <2> QED
    BY <1>2, <1>3, <1>4, <1>12, <2>1 DEF CountDropped
<1>11. CASE CountDelivered(t)
  <2>1. delivered' \in [{High, Medium, Low} -> Nat]
    <3> DEFINE c == DeliveredCounter(Prio(event[t]))
    <3>1. delivered \in [{High, Medium, Low} -> Nat]
      BY DEF TypeOK
    <3>2. delivered' = [delivered EXCEPT ![c] = @ + 1]
      BY <1>11 DEF CountDelivered
    <3>3. c \in {High, Medium, Low}
      BY <1>1 DEF DeliveredCounter, Priority
    <3> HIDE DEF c
    <3> QED
      BY <3>1, <3>2, <3>3
  <2>2. TypeOK'
    BY <1>4, <1>11, <2>1 DEF CountDelivered, TypeOK, workers, beating, journal, history
  <2> QED
    BY <1>2, <1>3, <1>4, <1>11, <2>2 DEF CountDelivered
<1> QED
  BY <1>6, <1>7, <1>8, <1>9, <1>10, <1>11, <1>12 DEF RouteStep

\* What a worker takes, and what its flush leaves.
LEMMA ReceiveTypes ==
    ASSUME TypeOK, NEW w \in Workers, Receive(w)
    PROVE  LET p == Channel(w)
           IN  /\ p \in Priority /\ queue[p] \in Seq(Item) /\ queue[p] # <<>>
               /\ Head(queue[p]) \in Item /\ pending[w] \in Seq(Item)
               /\ pending' = [pending EXCEPT ![w] = Append(pending[w], Head(queue[p]))]
               /\ queue' = [queue EXCEPT ![p] = Tail(queue[p])]
               /\ queue' \in [Priority -> Seq(Item)] /\ pending' \in [Workers -> Seq(Item)]
<1> DEFINE p == Channel(w)
<1>1. p \in Priority
  BY ChannelIsPriority
<1>2. /\ queue \in [Priority -> Seq(Item)] /\ pending \in [Workers -> Seq(Item)]
      /\ queue[p] # <<>>
      /\ pending' = [pending EXCEPT ![w] = Append(pending[w], Head(queue[p]))]
      /\ queue' = [queue EXCEPT ![p] = Tail(queue[p])]
  BY DEF TypeOK, Receive
<1> HIDE DEF p
<1>3. queue[p] \in Seq(Item) /\ Head(queue[p]) \in Item /\ Tail(queue[p]) \in Seq(Item)
  BY <1>1, <1>2
<1>4. queue' \in [Priority -> Seq(Item)] /\ pending' \in [Workers -> Seq(Item)]
  BY <1>1, <1>2, <1>3
<1> QED
  BY <1>1, <1>2, <1>3, <1>4 DEF p

LEMMA FlushTypes ==
    ASSUME TypeOK, NEW w \in Workers, Flush(w)
    PROVE  /\ outcome' \in [Events -> {"none"} \cup Ways] /\ settled' \subseteq Events
           /\ eventsProcessed' \in [Workers -> Nat] /\ pending' \in [Workers -> Seq(Item)]
           /\ pending' = [pending EXCEPT ![w] = <<>>]
           /\ \A e \in Events : outcome'[e] = IF e \in InBatch(w) THEN w ELSE outcome[e]
<1>1. w \in Ways /\ Settle(Range(pending[w]), w)
  BY DEF Flush, Ways
<1>2. pending[w] \in Seq(Item) /\ Range(pending[w]) = InBatch(w)
  BY RangeIsToSet DEF TypeOK, InBatch
<1>3. pending' = [pending EXCEPT ![w] = <<>>] /\ pending' \in [Workers -> Seq(Item)]
  BY DEF Flush, TypeOK
<1>4. eventsProcessed' \in [Workers -> Nat]
  BY <1>2 DEF Flush, TypeOK
<1>5. /\ outcome' \in [Events -> {"none"} \cup Ways] /\ settled' \subseteq Events
      /\ \A e \in Events : outcome'[e] = IF e \in Range(pending[w]) THEN w ELSE outcome[e]
  BY <1>1, SettleTypes
<1> QED
  BY <1>2, <1>3, <1>4, <1>5

LEMMA WorkerState ==
    ASSUME StateInv, NEW w \in Workers, WorkerStep(w)
    PROVE  StateInv'
<1> USE DEF StateInv
<1>0. mode # "down"
  BY DEF WorkerStep, Tick, Receive, NextChannel, EndDrain, Process, EndWorker, Down
<1>1. /\ mode' = mode /\ UNCHANGED <<producers, journal, emitted, given>>
      /\ UNCHANGED <<mode, backlog, filterCount, metrics, signalled, beating, sessions>>
  BY DEF WorkerStep, Tick, Receive, NextChannel, EndDrain, Process, EndWorker, history
<1>2. Hands' /\ Down' /\ Emitted' /\ Recorded'
  BY <1>0, <1>1 DEF Hands, Down, Emitted, Recorded, producers, journal
<1>3. CASE Tick(w)
  <2>1. TypeOK'
    BY <1>3 DEF Tick, TypeOK, producers, metrics, beating, journal, history
  <2> QED
    BY <1>2, <2>1
<1>4. CASE Receive(w)
  <2>1. queue' \in [Priority -> Seq(Item)] /\ pending' \in [Workers -> Seq(Item)]
    BY <1>4, ReceiveTypes
  <2>2. TypeOK'
    BY <1>4, <2>1 DEF Receive, TypeOK, producers, metrics, beating, journal, history
  <2> QED
    BY <1>2, <2>2
<1>5. CASE NextChannel(w)
  <2>1. /\ subscription' \in [Workers -> 1..4]
        /\ \A v \in Workers : subscription'[v] <= Len(Subscribed(v))
    <3>1. /\ subscription' = [subscription EXCEPT ![w] = subscription[w] + 1]
          /\ subscription \in [Workers -> 1..4]
          /\ \A v \in Workers : subscription[v] <= Len(Subscribed(v))
      BY <1>5 DEF NextChannel, TypeOK
    <3>2. subscription[w] + 1 \in 1..4 /\ subscription[w] + 1 <= Len(Subscribed(w))
      <4>1. subscription[w] < Len(Subscribed(w)) /\ subscription[w] \in 1..4
        BY <1>5, <3>1 DEF NextChannel
      <4> DEFINE n == Len(Subscribed(w))
      <4>2. n \in {3, 4} /\ subscription[w] < n
        BY <4>1, ChannelIsPriority
      <4> HIDE DEF n
      <4>3. subscription[w] + 1 \in 1..4 /\ subscription[w] + 1 <= n
        BY <4>1, <4>2
      <4> QED
        BY <4>3 DEF n
    <3> QED
      BY <3>1, <3>2
  <2>2. TypeOK'
    BY <1>5, <2>1 DEF NextChannel, TypeOK, producers, metrics, beating, journal, history
  <2> QED
    BY <1>2, <2>2
<1>6. CASE EndDrain(w)
  <2>1. /\ subscription' \in [Workers -> 1..4]
        /\ \A v \in Workers : subscription'[v] <= Len(Subscribed(v))
    <3>1. /\ subscription' = [subscription EXCEPT ![w] = 1]
          /\ subscription \in [Workers -> 1..4]
          /\ \A v \in Workers : subscription[v] <= Len(Subscribed(v))
      BY <1>6 DEF EndDrain, TypeOK
    <3>2. 1 \in 1..4 /\ 1 <= Len(Subscribed(w))
      BY <1>6, <3>1, ChannelIsPriority DEF EndDrain
    <3> QED
      BY <3>1, <3>2
  <2>2. TypeOK'
    BY <1>6, <2>1 DEF EndDrain, TypeOK, producers, metrics, beating, journal, history
  <2> QED
    BY <1>2, <2>2
<1>7. CASE Process(w)
  <2>1. TypeOK'
    BY <1>1, <1>7, FlushTypes DEF Process, TypeOK, producers, metrics, beating, journal
  <2> QED
    BY <1>2, <2>1
<1>8. CASE EndWorker(w)
  <2>1. TypeOK'
    BY <1>1, <1>8, FlushTypes DEF EndWorker, TypeOK, producers, metrics, beating, journal
  <2> QED
    BY <1>2, <2>1
<1> QED
  BY <1>3, <1>4, <1>5, <1>6, <1>7, <1>8 DEF WorkerStep

LEMMA ControlState ==
    ASSUME StateInv, \/ Start \/ HeartbeatWakes \/ HeartbeatEnds
                     \/ BeginShutdown \/ SignalWorker \/ EndShutdown
    PROVE  StateInv'
<1> USE DEF StateInv
<1>1. CASE HeartbeatWakes
  <2>1. /\ pc' \in [Threads -> {"idle", "route", "send", "sent", "shed"}]
        /\ event' \in [Threads -> Item \cup {NoEvent}] /\ Hands'
    BY <1>1, ThreadMoves, ThreadsAreFinite, PipelineAssumption DEF HeartbeatWakes, Item
  <2>2. beats' \in 0..MaxBeats
    BY <1>1, PipelineAssumption DEF HeartbeatWakes, TypeOK
  <2>3. TypeOK'
    BY <1>1, <2>1, <2>2 DEF HeartbeatWakes, TypeOK, workers, journal, history
  <2> QED
    BY <1>1, <2>1, <2>3 DEF HeartbeatWakes, Down, Emitted, Recorded, workers, journal, history
<1>2. CASE Start
  <2>1. TypeOK'
    BY <1>2 DEF Start, TypeOK, producers, metrics, journal, history
  <2> QED
    BY <1>2, <2>1 DEF Start, Hands, Down, Emitted, Recorded, producers, journal, history
<1>3. CASE HeartbeatEnds
  <2>1. TypeOK'
    BY <1>3 DEF HeartbeatEnds, TypeOK, producers, metrics, workers, journal, history
  <2> QED
    BY <1>3, <2>1 DEF HeartbeatEnds, Hands, Down, Emitted, Recorded, producers, workers, journal, history
<1>4. CASE BeginShutdown \/ EndShutdown
  <2>1. /\ UNCHANGED <<backlog, producers, filterCount, queue, metrics, workers, beating, journal,
                       history, sessions>>
        /\ mode' \in {"stopping", "stopped"}
    BY <1>4 DEF BeginShutdown, EndShutdown
  <2>2. TypeOK'
    BY <2>1 DEF TypeOK, producers, metrics, workers, beating, journal, history
  <2> QED
    BY <2>1, <2>2 DEF Hands, Down, Emitted, Recorded, producers, journal, history
<1>5. CASE SignalWorker
  <2>1. signalled' \subseteq Workers
    BY <1>5 DEF SignalWorker, TypeOK, Workers
  <2>2. TypeOK'
    BY <1>5, <2>1 DEF SignalWorker, TypeOK, producers, metrics, beating, journal, history
  <2> QED
    BY <1>5, <2>2 DEF SignalWorker, Hands, Down, Emitted, Recorded, producers, journal, history
<1> QED
  BY <1>1, <1>2, <1>3, <1>4, <1>5

LEMMA CrashState ==
    ASSUME StateInv, Crash
    PROVE  StateInv'
<1> USE DEF StateInv, Everywhere
<1>1. TypeOK'
  <2>1. /\ subscription' \in [Workers -> 1..4]
        /\ \A v \in Workers : subscription'[v] <= Len(Subscribed(v))
    BY DEF Crash, Subscribed
  <2>2. /\ beats' \in 0..MaxBeats /\ sessions' \in 0..MaxSessions
        /\ accepted' \subseteq Events /\ returned' \subseteq Events /\ records' \in Seq(Events)
        /\ emitted' \subseteq Events /\ given' \subseteq Events /\ settled' \subseteq Events
        /\ outcome' \in [Events -> {"none"} \cup Ways]
    BY DEF Crash, TypeOK, journal
  <2>3. /\ queue' \in [Priority -> Seq(Item)] /\ pending' \in [Workers -> Seq(Item)]
        /\ pc' \in [Threads -> {"idle", "route", "send", "sent", "shed"}]
        /\ event' \in [Threads -> Item \cup {NoEvent}]
    BY DEF Crash
  <2> QED
    BY <2>1, <2>2, <2>3 DEF Crash, TypeOK
<1>2. Hands' /\ Down'
  BY DEF Crash, Hands, Down
<1>3. Emitted' /\ Recorded'
  BY DEF Crash, Emitted, Recorded, journal
<1> QED
  BY <1>1, <1>2, <1>3

LEMMA NextState == StateInv /\ [Next]_vars => StateInv'
<1> SUFFICES ASSUME StateInv, [Next]_vars PROVE StateInv'
  OBVIOUS
<1>1. CASE Open \/ Reroute \/ NewReturns
  BY <1>1, NewState
<1>2. CASE \E t \in Producers, e \in Events : Emit(t, e)
  BY <1>2, EmitState
<1>3. CASE \E t \in Threads : RouteStep(t)
  BY <1>3, RouteState
<1>4. CASE \E w \in Workers : WorkerStep(w)
  BY <1>4, WorkerState
<1>5. CASE \/ Start \/ HeartbeatWakes \/ HeartbeatEnds \/ BeginShutdown \/ SignalWorker \/ EndShutdown
  BY <1>5, ControlState
<1>6. CASE Crash
  BY <1>6, CrashState
<1>7. CASE UNCHANGED vars
  <2>1. TypeOK'
    BY <1>7 DEF StateInv, vars, TypeOK, producers, metrics, workers, beating, journal, history
  <2> QED
    BY <1>7, <2>1 DEF StateInv, vars, Hands, Down, Emitted, Recorded, producers, workers, journal, history
<1> QED
  BY <1>1, <1>2, <1>3, <1>4, <1>5, <1>6, <1>7 DEF Next

(* The channels, batches, metrics and the log of the pipeline keep their     *)
(* types, and nothing that lives in memory outlives the process.             *)
THEOREM TypeCorrect == Spec => []StateInv
BY InitState, NextState, PTL DEF Spec
-----------------------------------------------------------------------------
(* Bounds and priorities of the channels.                                    *)

LEMMA InitChannels == Init => ChannelInv
BY NoElements, PipelineAssumption DEF Init, Everywhere, ChannelInv

LEMMA NextChannels == StateInv /\ ChannelInv /\ [Next]_vars => ChannelInv'
<1> SUFFICES ASSUME StateInv, ChannelInv, [Next]_vars PROVE ChannelInv'
  OBVIOUS
<1> USE DEF StateInv
<1>1. ASSUME NEW t \in Threads, Send(t) PROVE ChannelInv'
  <2> DEFINE p == Prio(event[t])
  <2>1. event[t] \in Item /\ p \in Priority /\ queue[p] \in Seq(Item)
    BY <1>1, InHandIsItem DEF Send, TypeOK
  <2>2. /\ queue' = [queue EXCEPT ![p] = Append(queue[p], event[t])]
        /\ Len(queue[p]) < Capacity[p] /\ pending' = pending
    BY <1>1 DEF Send, HasRoom, workers
  <2>3. /\ ToSet(queue'[p]) = ToSet(queue[p]) \cup {event[t]}
        /\ Len(queue'[p]) = Len(queue[p]) + 1 /\ Len(queue[p]) \in Nat
    BY <2>1, <2>2, AppendFacts DEF TypeOK
  <2>4. Len(queue'[p]) <= Capacity[p] /\ \A e \in ToSet(queue'[p]) : Prio(e) = p
    BY <2>1, <2>2, <2>3, PipelineAssumption DEF ChannelInv
  <2>5. \A r \in Priority \ {p} : queue'[r] = queue[r]
    BY <2>2 DEF TypeOK
  <2> HIDE DEF p
  <2> QED
    BY <2>2, <2>4, <2>5 DEF ChannelInv
<1>2. ASSUME NEW w \in Workers, Receive(w) PROVE ChannelInv'
  <2> DEFINE p == Channel(w)
  <2>1. /\ p \in Priority /\ queue[p] \in Seq(Item) /\ queue[p] # <<>>
        /\ Head(queue[p]) \in Item /\ pending[w] \in Seq(Item)
        /\ pending' = [pending EXCEPT ![w] = Append(pending[w], Head(queue[p]))]
        /\ queue' = [queue EXCEPT ![p] = Tail(queue[p])]
    BY <1>2, ReceiveTypes
  <2>2. Len(pending[w]) < MaxBatch
    BY <1>2, <2>1, PipelineAssumption DEF Receive, BatchFull
  <2> HIDE DEF p
  <2>3. /\ Len(pending'[w]) <= MaxBatch
        /\ \A v \in Workers \ {w} : pending'[v] = pending[v]
    BY <2>1, <2>2, AppendFacts, PipelineAssumption DEF TypeOK
  <2>4. /\ ToSet(queue'[p]) \subseteq ToSet(queue[p]) /\ Len(queue'[p]) = Len(queue[p]) - 1
        /\ \A r \in Priority \ {p} : queue'[r] = queue[r]
    <3>1. queue'[p] = Tail(queue[p]) /\ \A r \in Priority \ {p} : queue'[r] = queue[r]
      BY <2>1 DEF TypeOK
    <3>2. /\ ToSet(queue[p]) = {Head(queue[p])} \cup ToSet(Tail(queue[p]))
          /\ Len(Tail(queue[p])) = Len(queue[p]) - 1
      BY <2>1, HeadTailFacts
    <3> QED
      BY <3>1, <3>2
  <2>5. Len(queue'[p]) <= Capacity[p] /\ Len(queue[p]) \in Nat
    BY <2>1, <2>4, PipelineAssumption DEF ChannelInv
  <2> QED
    BY <2>1, <2>3, <2>4, <2>5 DEF ChannelInv
<1>3. ASSUME NEW w \in Workers, Process(w) \/ EndWorker(w) PROVE ChannelInv'
  <2>1. pending' = [pending EXCEPT ![w] = <<>>] /\ queue' = queue
    BY <1>3 DEF Process, EndWorker, Flush
  <2> QED
    BY <2>1, PipelineAssumption DEF ChannelInv, TypeOK
<1>4. CASE Crash
  BY <1>4, NoElements, PipelineAssumption DEF Crash, Everywhere, ChannelInv
<1>5. ASSUME UNCHANGED <<queue, pending>> PROVE ChannelInv'
  BY <1>5 DEF ChannelInv
<1>6. ASSUME NEW t \in Threads, RouteStep(t) PROVE ChannelInv'
  <2>1. Send(t) \/ UNCHANGED <<queue, pending>>
    BY <1>6 DEF RouteStep, Filtered, TooOld, Dispatch, Shed, CountDropped, CountDelivered, workers
  <2> QED
    BY <1>1, <1>5, <2>1
<1>7. ASSUME NEW w \in Workers, WorkerStep(w) PROVE ChannelInv'
  <2>1. Receive(w) \/ Process(w) \/ EndWorker(w) \/ UNCHANGED <<queue, pending>>
    BY <1>7 DEF WorkerStep, Tick, NextChannel, EndDrain
  <2> QED
    BY <1>2, <1>3, <1>5, <2>1
<1>8. CASE \/ Open \/ Reroute \/ NewReturns \/ Start \/ HeartbeatWakes \/ HeartbeatEnds
           \/ BeginShutdown \/ SignalWorker \/ EndShutdown \/ UNCHANGED vars
           \/ \E t \in Producers, e \in Events : Emit(t, e)
  <2>1. UNCHANGED <<queue, pending>>
    BY <1>8 DEF Open, Reroute, NewReturns, Start, HeartbeatWakes, HeartbeatEnds, BeginShutdown,
       SignalWorker, EndShutdown, vars, Emit, workers
  <2> QED
    BY <1>5, <2>1
<1> QED
  BY <1>4, <1>6, <1>7, <1>8 DEF Next

\* What the router sent keeps the trust rules of the table: see RoutedPriorities.
LEMMA ChannelsAreDisciplined == StateInv /\ ChannelInv => QueueDiscipline
<1> SUFFICES ASSUME StateInv, ChannelInv, NEW p \in Priority,
                    NEW e \in Range(queue[p]) \ {Heartbeat}
             PROVE  /\ p = Critical => Envelope[e].trust \in {Kernel, Admin}
                    /\ Envelope[e].trust = Kernel => p >= High
  BY DEF QueueDiscipline, ChannelInv
<1>1. queue[p] \in Seq(Item) /\ e \in ToSet(queue[p])
  BY RangeIsToSet DEF StateInv, TypeOK
<1>2. e \in Events /\ Prio(e) = p
  BY <1>1, ElementsOf DEF ChannelInv, Item
<1> QED
  BY <1>2, PriorityOf DEF Item

(* Of the router, the bounded channels and run_worker: no channel or batch    *)
(* outgrows its bound, the Critical channel holds events of kernel and admin  *)
(* sources only, and no event of a kernel source is queued below High.        *)
THEOREM ChannelsKeepTheirRules == Spec => []QueueDiscipline
<1>1. Spec => []ChannelInv
  BY InitChannels, NextChannels, TypeCorrect, PTL DEF Spec
<1> QED
  BY <1>1, TypeCorrect, ChannelsAreDisciplined, PTL
-----------------------------------------------------------------------------
(* Every event in one place.                                                 *)

HandsDistinct == \A t, u \in InHand : event[t] = event[u] /\ event[t] \in Events => t = u

QueuesDistinct ==
    /\ IsInjective(backlog)
    /\ \A p \in Priority : OnceIn(queue[p], Events)
    /\ \A w \in Workers : OnceIn(pending[w], Events)

PartsDisjoint ==
    \A e \in Events :
        /\ Ended(e) =>
              /\ e \notin Waiting \cup Held
              /\ \A p \in Priority : e \notin InQueue(p)
              /\ \A w \in Workers : e \notin InBatch(w)
        /\ e \in Waiting =>
              /\ e \notin Held
              /\ \A p \in Priority : e \notin InQueue(p)
              /\ \A w \in Workers : e \notin InBatch(w)
        /\ e \in Held =>
              /\ \A p \in Priority : e \notin InQueue(p)
              /\ \A w \in Workers : e \notin InBatch(w)
        /\ \A p \in Priority : e \in InQueue(p) => \A w \in Workers : e \notin InBatch(w)
        /\ \A v, w \in Workers : e \in InBatch(v) /\ e \in InBatch(w) => v = w

PartsComplete ==
    \A e \in Events :
        e \in given <=> \/ Ended(e) \/ e \in Waiting \/ e \in Held
                        \/ \E p \in Priority : e \in InQueue(p)
                        \/ \E w \in Workers : e \in InBatch(w)

PlaceInv == HandsDistinct /\ QueuesDistinct /\ PartsDisjoint /\ PartsComplete

\* A thread takes an item in hand, or lets go of what it has.
LEMMA HandTaken ==
    ASSUME HandsDistinct, NEW t \in Threads \ InHand, NEW x, x \in Events => x \notin Held,
           InHand' = InHand \cup {t}, event'[t] = x, \A u \in InHand : event'[u] = event[u]
    PROVE  HandsDistinct' /\ Held' = Held \cup {x}
<1>1. ASSUME NEW u \in InHand', NEW v \in InHand', event'[u] = event'[v], event'[u] \in Events
      PROVE  u = v
  <2>1. ASSUME NEW r \in InHand PROVE event'[r] \in Held
    BY <2>1 DEF Held
  <2> QED
    BY <1>1, <2>1 DEF HandsDistinct
<1>2. HandsDistinct'
  BY <1>1 DEF HandsDistinct
<1>3. \A y : y \in Held' <=> y \in Held \/ y = x
  BY DEF Held
<1> QED
  BY <1>2, <1>3

LEMMA HandFreed ==
    ASSUME HandsDistinct, NEW t \in InHand,
           InHand' = InHand \ {t}, \A u \in InHand \ {t} : event'[u] = event[u]
    PROVE  HandsDistinct' /\ \A e \in Events : e \in Held' <=> e \in Held /\ e # event[t]
<1>1. HandsDistinct'
  BY DEF HandsDistinct
<1>2. ASSUME NEW e \in Events PROVE e \in Held' <=> e \in Held /\ e # event[t]
  BY DEF Held, HandsDistinct
<1> QED
  BY <1>1, <1>2

\* The steps that move nothing.
LEMMA StillPlaces ==
    ASSUME PlaceInv, UNCHANGED <<backlog, queue, pending, outcome, given>>,
           InHand' = InHand, \A t \in InHand : event'[t] = event[t]
    PROVE  PlaceInv'
<1>1. /\ Waiting' = Waiting /\ Held' = Held /\ HandsDistinct' /\ QueuesDistinct'
      /\ \A p \in Priority : InQueue(p)' = InQueue(p)
      /\ \A w \in Workers : InBatch(w)' = InBatch(w)
      /\ \A e \in Events : Ended(e)' = Ended(e)
  BY DEF PlaceInv, Waiting, Held, HandsDistinct, QueuesDistinct, InQueue, InBatch, Ended
<1> QED
  BY <1>1 DEF PlaceInv, PartsDisjoint, PartsComplete

\* Outside a session nothing is anywhere.
LEMMA NothingAnywhere ==
    ASSUME \A t \in Threads : pc[t] = "idle",
           \A p \in Priority : queue[p] = <<>>,
           \A w \in Workers : pending[w] = <<>>,
           \A e \in Events : outcome[e] = "none"
    PROVE  /\ InHand = {} /\ Held = {} /\ HandsDistinct
           /\ \A p \in Priority : InQueue(p) = {} /\ OnceIn(queue[p], Events)
           /\ \A w \in Workers : InBatch(w) = {} /\ OnceIn(pending[w], Events)
           /\ \A e \in Events : ~Ended(e)
BY NoElements, OnceShort DEF InHand, Held, HandsDistinct, InQueue, InBatch, Ended

LEMMA InitPlaces == Init => PlaceInv
<1> SUFFICES ASSUME Init PROVE PlaceInv
  OBVIOUS
<1>1. /\ \A t \in Threads : pc[t] = "idle"
      /\ \A p \in Priority : queue[p] = <<>>
      /\ \A w \in Workers : pending[w] = <<>>
      /\ \A e \in Events : outcome[e] = "none"
      /\ given = {} /\ Waiting = {} /\ IsInjective(backlog)
  BY NoElements DEF Init, Everywhere, Waiting
<1> QED
  BY <1>1, NothingAnywhere DEF PlaceInv, QueuesDistinct, PartsDisjoint, PartsComplete

LEMMA CrashPlaces ==
    ASSUME Crash
    PROVE  PlaceInv'
<1>1. /\ \A t \in Threads : pc'[t] = "idle"
      /\ \A p \in Priority : queue'[p] = <<>>
      /\ \A w \in Workers : pending'[w] = <<>>
      /\ \A e \in Events : outcome'[e] = "none"
      /\ given' = {} /\ Waiting' = {} /\ IsInjective(backlog')
  BY NoElements DEF Crash, Everywhere, Waiting
<1>2. /\ InHand' = {} /\ Held' = {} /\ HandsDistinct'
      /\ \A p \in Priority : InQueue(p)' = {} /\ OnceIn(queue'[p], Events)
      /\ \A w \in Workers : InBatch(w)' = {} /\ OnceIn(pending'[w], Events)
      /\ \A e \in Events : ~Ended(e)'
  BY <1>1, NoElements, OnceShort DEF InHand, Held, HandsDistinct, InQueue, InBatch, Ended
<1> QED
  BY <1>1, <1>2 DEF PlaceInv, QueuesDistinct, PartsDisjoint, PartsComplete

\* new() takes the log's events, each once; no session has left any behind.
LEMMA OpenPlaces ==
    ASSUME StateInv, Open
    PROVE  PlaceInv'
<1>1. /\ backlog' = records /\ given' = ToSet(records) /\ ToSet(records) \subseteq Events
      /\ Waiting' = ToSet(records) /\ IsInjective(backlog')
  BY DEF Open, Waiting, StateInv, Emitted, Recorded, TypeOK
<1>2. mode = "down" /\ UNCHANGED <<pc, event, queue, pending, outcome>>
  BY DEF Open, producers, workers
<1>3. /\ InHand' = {} /\ Held' = {} /\ HandsDistinct'
      /\ \A p \in Priority : InQueue(p)' = {} /\ OnceIn(queue'[p], Events)
      /\ \A w \in Workers : InBatch(w)' = {} /\ OnceIn(pending'[w], Events)
      /\ \A e \in Events : ~Ended(e)'
  BY <1>2, NoElements, OnceShort
     DEF StateInv, Down, InHand, Held, HandsDistinct, InQueue, InBatch, Ended
<1> QED
  BY <1>1, <1>3 DEF PlaceInv, QueuesDistinct, PartsDisjoint, PartsComplete

LEMMA ReroutePlaces ==
    ASSUME StateInv, PlaceInv, Reroute
    PROVE  PlaceInv'
<1> DEFINE e == Head(backlog)
<1>1. /\ backlog \in Seq(Events) /\ backlog # <<>> /\ backlog' = Tail(backlog)
      /\ pc[Main] = "idle" /\ pc' = [pc EXCEPT ![Main] = "route"]
      /\ event' = [event EXCEPT ![Main] = e] /\ Main \in Threads
      /\ UNCHANGED <<queue, pending, outcome, given>>
  BY ThreadsAreFinite DEF Reroute, StateInv, TypeOK, workers, history
<1>2. /\ e \in Events /\ Waiting = {e} \cup Waiting' /\ e \notin Waiting'
      /\ IsInjective(backlog')
  BY <1>1, HeadTailFacts DEF PlaceInv, QueuesDistinct, Waiting
<1> HIDE DEF e
<1>3. /\ Main \notin InHand /\ InHand' = InHand \cup {Main}
      /\ event'[Main] = e /\ \A u \in InHand : event'[u] = event[u]
  BY <1>1 DEF InHand, StateInv, TypeOK
<1>4. e \notin Held
  BY <1>2 DEF PlaceInv, PartsDisjoint
<1>5. HandsDistinct' /\ Held' = Held \cup {e}
  BY <1>1, <1>3, <1>4, HandTaken DEF PlaceInv
<1>6. /\ \A p \in Priority : InQueue(p)' = InQueue(p)
      /\ \A w \in Workers : InBatch(w)' = InBatch(w)
      /\ \A d \in Events : Ended(d)' = Ended(d)
      /\ QueuesDistinct'
  BY <1>1, <1>2 DEF InQueue, InBatch, Ended, PlaceInv, QueuesDistinct
<1> QED
  BY <1>1, <1>2, <1>5, <1>6 DEF PlaceInv, PartsDisjoint, PartsComplete

LEMMA EmitPlaces ==
    ASSUME StateInv, PlaceInv, NEW t \in Producers, NEW e \in Events, Emit(t, e)
    PROVE  PlaceInv'
<1>1. /\ pc[t] = "idle" /\ pc' = [pc EXCEPT ![t] = "route"] /\ event' = [event EXCEPT ![t] = e]
      /\ t \in Threads /\ given' = given \cup {e} /\ e \notin given
      /\ UNCHANGED <<backlog, queue, pending, outcome>>
  BY DEF Emit, Threads, StateInv, Emitted, workers
<1>2. /\ t \notin InHand /\ InHand' = InHand \cup {t}
      /\ event'[t] = e /\ \A u \in InHand : event'[u] = event[u]
  BY <1>1 DEF InHand, StateInv, TypeOK
<1>3. /\ e \notin Held /\ e \notin Waiting /\ ~Ended(e)
      /\ \A p \in Priority : e \notin InQueue(p)
      /\ \A w \in Workers : e \notin InBatch(w)
  BY <1>1 DEF PlaceInv, PartsComplete
<1>4. HandsDistinct' /\ Held' = Held \cup {e}
  BY <1>1, <1>2, <1>3, HandTaken DEF PlaceInv
<1>5. /\ \A p \in Priority : InQueue(p)' = InQueue(p)
      /\ \A w \in Workers : InBatch(w)' = InBatch(w)
      /\ \A d \in Events : Ended(d)' = Ended(d)
      /\ QueuesDistinct' /\ Waiting' = Waiting
  BY <1>1 DEF InQueue, InBatch, Ended, Waiting, PlaceInv, QueuesDistinct
<1> QED
  BY <1>1, <1>3, <1>4, <1>5 DEF PlaceInv, PartsDisjoint, PartsComplete

\* A thread gives up what it has in hand: filtered, too old or shed.
LEMMA SettledPlaces ==
    ASSUME StateInv, PlaceInv, NEW t \in InHand, NEW how \in Ways,
           Returns(t) \/ (pc' = [pc EXCEPT ![t] = "shed"] /\ event' = event),
           Settle({event[t]}, how), UNCHANGED <<backlog, queue, pending, given>>
    PROVE  PlaceInv'
<1>1. t \in Threads /\ InHand' = InHand \ {t} /\ \A u \in InHand \ {t} : event'[u] = event[u]
  BY DEF InHand, Returns, StateInv, TypeOK
<1>2. HandsDistinct' /\ \A e \in Events : e \in Held' <=> e \in Held /\ e # event[t]
  BY <1>1, HandFreed DEF PlaceInv
<1>3. \A e \in Events : Ended(e)' <=> Ended(e) \/ e = event[t]
  BY SettleTypes DEF StateInv, Ended, Ways, Workers
<1>4. /\ \A p \in Priority : InQueue(p)' = InQueue(p)
      /\ \A w \in Workers : InBatch(w)' = InBatch(w)
      /\ QueuesDistinct' /\ Waiting' = Waiting
  BY DEF InQueue, InBatch, Waiting, PlaceInv, QueuesDistinct
<1>5. event[t] \in Held
  BY DEF Held
<1>6. PartsDisjoint'
  BY <1>2, <1>3, <1>4, <1>5 DEF PlaceInv, PartsDisjoint
<1>7. PartsComplete'
  BY <1>2, <1>3, <1>4, <1>5 DEF PlaceInv, PartsComplete
<1> QED
  BY <1>2, <1>4, <1>6, <1>7 DEF PlaceInv

LEMMA SendPlaces ==
    ASSUME StateInv, PlaceInv, NEW t \in Threads, Send(t)
    PROVE  PlaceInv'
<1>1. PICK x \in Item, p \in Priority :
          /\ x = event[t] /\ queue[p] \in Seq(Item) /\ t \in InHand /\ x \in Held
          /\ pc' = [pc EXCEPT ![t] = "sent"] /\ event' = event
          /\ queue' = [queue EXCEPT ![p] = Append(queue[p], x)]
          /\ UNCHANGED <<backlog, pending, outcome, given>>
  BY ZenonT(30), InHandIsItem DEF Send, StateInv, TypeOK, workers, history, InHand, Held
<1>2. InHand' = InHand \ {t}
  BY <1>1 DEF InHand, StateInv, TypeOK
<1>3. HandsDistinct' /\ \A e \in Events : e \in Held' <=> e \in Held /\ e # x
  BY <1>1, <1>2, HandFreed DEF PlaceInv
<1>4. x \in Events => x \notin InQueue(p)
  BY <1>1 DEF PlaceInv, PartsDisjoint
<1>5. /\ InQueue(p)' = InQueue(p) \cup {x} /\ OnceIn(queue'[p], Events)
      /\ \A r \in Priority \ {p} : queue'[r] = queue[r]
  <2>1. queue'[p] = Append(queue[p], x) /\ \A r \in Priority \ {p} : queue'[r] = queue[r]
    BY <1>1 DEF StateInv, TypeOK
  <2>2. OnceIn(queue[p], Events)
    BY <1>1 DEF PlaceInv, QueuesDistinct
  <2> QED
    BY <1>1, <1>4, <2>1, <2>2, AppendFacts, OnceAppended DEF InQueue
<1>6. /\ \A r \in Priority \ {p} : InQueue(r)' = InQueue(r)
      /\ \A w \in Workers : InBatch(w)' = InBatch(w)
      /\ \A e \in Events : Ended(e)' = Ended(e)
      /\ QueuesDistinct' /\ Waiting' = Waiting
  BY <1>1, <1>5 DEF InQueue, InBatch, Waiting, Ended, PlaceInv, QueuesDistinct
<1>7. PartsDisjoint'
  BY <1>1, <1>3, <1>5, <1>6 DEF PlaceInv, PartsDisjoint
<1>8. PartsComplete'
  BY <1>1, <1>3, <1>5, <1>6 DEF PlaceInv, PartsComplete
<1> QED
  BY <1>3, <1>6, <1>7, <1>8 DEF PlaceInv

\* A worker takes the head of a channel into its batch.
LEMMA ReceivePlaces ==
    ASSUME StateInv, ChannelInv, PlaceInv, NEW w \in Workers, Receive(w)
    PROVE  PlaceInv'
<1>1. PICK p \in Priority :
          /\ queue[p] \in Seq(Item) /\ queue[p] # <<>>
          /\ Head(queue[p]) \in Item /\ pending[w] \in Seq(Item)
          /\ pending' = [pending EXCEPT ![w] = Append(pending[w], Head(queue[p]))]
          /\ queue' = [queue EXCEPT ![p] = Tail(queue[p])]
  BY ReceiveTypes DEF StateInv
<1>2. PICK x \in Item : x = Head(queue[p])
  BY <1>1
<1>3. /\ queue'[p] = Tail(queue[p]) /\ pending'[w] = Append(pending[w], x)
      /\ \A r \in Priority \ {p} : queue'[r] = queue[r]
      /\ \A v \in Workers \ {w} : pending'[v] = pending[v]
  BY <1>1, <1>2 DEF StateInv, TypeOK
<1>4. /\ InQueue(p) = {x} \cup InQueue(p)' /\ OnceIn(queue'[p], Events)
      /\ x \in Events => x \notin InQueue(p)'
  <2>1. OnceIn(queue[p], Events)
    BY DEF PlaceInv, QueuesDistinct
  <2>2. ToSet(queue[p]) = {x} \cup ToSet(Tail(queue[p]))
    BY <1>1, <1>2, HeadTailFacts
  <2>3. OnceIn(Tail(queue[p]), Events) /\ (x \in Events => x \notin ToSet(Tail(queue[p])))
    BY <1>1, <1>2, <2>1, OnceTaken
  <2> QED
    BY <1>3, <2>2, <2>3 DEF InQueue
<1>5. x \in Events => \A v \in Workers : x \notin InBatch(v)
  BY <1>4 DEF PlaceInv, PartsDisjoint
<1>6. InBatch(w)' = InBatch(w) \cup {x} /\ OnceIn(pending'[w], Events)
  <2>1. OnceIn(pending[w], Events) /\ (x \in Events => x \notin ToSet(pending[w]))
    BY <1>5 DEF PlaceInv, QueuesDistinct, InBatch
  <2> QED
    BY <1>1, <1>3, <2>1, AppendFacts, OnceAppended DEF InBatch
<1>7. /\ \A r \in Priority \ {p} : InQueue(r)' = InQueue(r)
      /\ \A v \in Workers \ {w} : InBatch(v)' = InBatch(v)
      /\ QueuesDistinct'
  <2>1. backlog' = backlog
    BY DEF Receive
  <2> QED
    BY <1>3, <1>4, <1>6, <2>1 DEF InQueue, InBatch, PlaceInv, QueuesDistinct
<1>8. /\ HandsDistinct' /\ Held' = Held /\ Waiting' = Waiting /\ given' = given
      /\ \A e \in Events : Ended(e)' = Ended(e)
  BY DEF Receive, producers, history, PlaceInv, HandsDistinct, Held, InHand, Waiting, Ended
<1>9. ASSUME NEW e \in Events, e # x
      PROVE  /\ \A r \in Priority : e \in InQueue(r)' <=> e \in InQueue(r)
             /\ \A v \in Workers : e \in InBatch(v)' <=> e \in InBatch(v)
  BY <1>4, <1>6, <1>7, <1>9
<1>10. ASSUME x \in Events
       PROVE  /\ \A r \in Priority : x \notin InQueue(r)'
              /\ \A v \in Workers : x \in InBatch(v)' <=> v = w
              /\ x \notin Waiting /\ x \notin Held /\ ~Ended(x) /\ x \in given
  <2>1. \A r \in Priority \ {p} : x \notin InQueue(r)
    <3>1. ASSUME NEW r \in Priority, x \in InQueue(r) PROVE Prio(x) = r
      BY <3>1 DEF InQueue, ChannelInv
    <3> QED
      BY <1>4, <3>1
  <2> QED
    BY <1>4, <1>5, <1>6, <1>7, <1>10, <2>1 DEF PlaceInv, PartsDisjoint, PartsComplete
<1>11. PartsDisjoint'
  BY <1>8, <1>9, <1>10 DEF PlaceInv, PartsDisjoint
<1>12. PartsComplete'
  BY <1>8, <1>9, <1>10 DEF PlaceInv, PartsComplete
<1> QED
  BY <1>7, <1>8, <1>11, <1>12 DEF PlaceInv

\* A batch is processed.
LEMMA FlushPlaces ==
    ASSUME StateInv, PlaceInv, NEW w \in Workers, Flush(w),
           UNCHANGED <<backlog, pc, event, queue, given>>
    PROVE  PlaceInv'
<1>1. /\ pending' = [pending EXCEPT ![w] = <<>>]
      /\ \A e \in Events : outcome'[e] = IF e \in InBatch(w) THEN w ELSE outcome[e]
  BY FlushTypes DEF StateInv
<1>2. \A e \in Events : Ended(e)' <=> Ended(e) \/ e \in InBatch(w)
  BY <1>1 DEF Ended, Workers
<1>3. /\ InBatch(w)' = {} /\ OnceIn(pending'[w], Events)
      /\ \A v \in Workers \ {w} : pending'[v] = pending[v] /\ InBatch(v)' = InBatch(v)
  BY <1>1, NoElements, OnceShort DEF InBatch, StateInv, TypeOK
<1>4. /\ HandsDistinct' /\ Held' = Held /\ Waiting' = Waiting /\ QueuesDistinct'
      /\ \A r \in Priority : InQueue(r)' = InQueue(r)
  BY <1>3 DEF PlaceInv, HandsDistinct, QueuesDistinct, Held, InHand, Waiting, InQueue
<1>5. PartsDisjoint'
  BY <1>2, <1>3, <1>4 DEF PlaceInv, PartsDisjoint
<1>6. PartsComplete'
  BY <1>2, <1>3, <1>4 DEF PlaceInv, PartsComplete
<1> QED
  BY <1>4, <1>5, <1>6 DEF PlaceInv

LEMMA RoutePlaces ==
    ASSUME StateInv, PlaceInv, NEW t \in Threads, RouteStep(t)
    PROVE  PlaceInv'
<1>1. CASE Filtered(t) \/ TooOld(t) \/ Shed(t)
  <2>1. /\ t \in InHand /\ UNCHANGED <<backlog, queue, pending, given>>
        /\ Returns(t) \/ (pc' = [pc EXCEPT ![t] = "shed"] /\ event' = event)
    BY <1>1 DEF Filtered, TooOld, Shed, InHand, workers
  <2>2. \E how \in Ways : Settle({event[t]}, how)
    BY <1>1 DEF Filtered, TooOld, Shed, Ways
  <2> QED
    BY <2>1, <2>2, SettledPlaces
<1>2. CASE Dispatch(t)
  <2>1. InHand' = InHand
    BY <1>2 DEF Dispatch, InHand, StateInv, TypeOK
  <2> QED
    BY <1>2, <2>1, StillPlaces DEF Dispatch, workers, history
<1>3. CASE Send(t)
  BY <1>3, SendPlaces
<1>4. CASE CountDelivered(t) \/ CountDropped(t)
  <2>1. InHand' = InHand /\ \A u \in InHand : event'[u] = event[u]
    BY <1>4 DEF CountDelivered, CountDropped, Returns, InHand, StateInv, TypeOK
  <2> QED
    BY <1>4, <2>1, StillPlaces DEF CountDelivered, CountDropped, workers, history
<1> QED
  BY <1>1, <1>2, <1>3, <1>4 DEF RouteStep

LEMMA WorkerPlaces ==
    ASSUME StateInv, ChannelInv, PlaceInv, NEW w \in Workers, WorkerStep(w)
    PROVE  PlaceInv'
<1>1. CASE Receive(w)
  BY <1>1, ReceivePlaces
<1>2. CASE Process(w) \/ EndWorker(w)
  BY <1>2, FlushPlaces DEF Process, EndWorker, producers
<1>3. CASE Tick(w) \/ NextChannel(w) \/ EndDrain(w)
  BY <1>3, StillPlaces DEF Tick, NextChannel, EndDrain, producers, history, InHand
<1> QED
  BY <1>1, <1>2, <1>3 DEF WorkerStep

\* The heartbeat's event is none of Events.
LEMMA HeartbeatPlaces ==
    ASSUME StateInv, PlaceInv, HeartbeatWakes
    PROVE  PlaceInv'
<1>1. /\ pc[Timer] = "idle" /\ pc' = [pc EXCEPT ![Timer] = "send"] /\ Timer \in Threads
      /\ event' = [event EXCEPT ![Timer] = Heartbeat] /\ Heartbeat \notin Events
      /\ UNCHANGED <<backlog, queue, pending, outcome, given>>
  BY ThreadsAreFinite, PipelineAssumption DEF HeartbeatWakes, workers, history
<1>2. /\ Timer \notin InHand /\ InHand' = InHand \cup {Timer}
      /\ event'[Timer] = Heartbeat /\ \A u \in InHand : event'[u] = event[u]
  BY <1>1 DEF InHand, StateInv, TypeOK
<1>3. HandsDistinct' /\ Held' = Held \cup {Heartbeat}
  BY <1>1, <1>2, HandTaken DEF PlaceInv
<1>4. /\ \A p \in Priority : InQueue(p)' = InQueue(p)
      /\ \A w \in Workers : InBatch(w)' = InBatch(w)
      /\ \A d \in Events : Ended(d)' = Ended(d)
      /\ QueuesDistinct' /\ Waiting' = Waiting
  BY <1>1 DEF InQueue, InBatch, Ended, Waiting, PlaceInv, QueuesDistinct
<1> QED
  BY <1>1, <1>3, <1>4 DEF PlaceInv, PartsDisjoint, PartsComplete

LEMMA NextPlaces == StateInv /\ ChannelInv /\ PlaceInv /\ [Next]_vars => PlaceInv'
<1> SUFFICES ASSUME StateInv, ChannelInv, PlaceInv, [Next]_vars PROVE PlaceInv'
  OBVIOUS
<1>1. CASE Open \/ Crash
  BY <1>1, OpenPlaces, CrashPlaces
<1>2. CASE Reroute
  BY <1>2, ReroutePlaces
<1>3. CASE \E t \in Producers, e \in Events : Emit(t, e)
  BY <1>3, EmitPlaces
<1>4. CASE \E t \in Threads : RouteStep(t)
  BY <1>4, RoutePlaces
<1>5. CASE \E w \in Workers : WorkerStep(w)
  BY <1>5, WorkerPlaces
<1>6. CASE HeartbeatWakes
  BY <1>6, HeartbeatPlaces
<1>7. CASE \/ NewReturns \/ Start \/ HeartbeatEnds \/ BeginShutdown \/ SignalWorker \/ EndShutdown
           \/ UNCHANGED vars
  BY <1>7, StillPlaces DEF NewReturns, Start, HeartbeatEnds, BeginShutdown, SignalWorker, EndShutdown,
     vars, producers, workers, history, InHand
<1> QED
  BY <1>1, <1>2, <1>3, <1>4, <1>5, <1>6, <1>7 DEF Next

\* Each part of Places(e) is empty, or one place if e is in that part of the state.
LEMMA PlacesOf ==
    ASSUME StateInv, PlaceInv, NEW e \in Events
    PROVE  /\ LET B == {<<"backlog", 0, i>> : i \in Positions(backlog, e)}
              IN  IF e \in Waiting THEN \E x : B = {x} ELSE B = {}
           /\ LET T == {<<"thread", t, 0>> : t \in {t \in Threads : event[t] = e /\ pc[t] \in {"route", "send"}}}
              IN  IF e \in Held THEN \E x : T = {x} ELSE T = {}
           /\ \A p \in Priority :
                 LET Q == {<<"queue", p, i>> : i \in Positions(queue[p], e)}
                 IN  IF e \in InQueue(p) THEN \E x : Q = {x} ELSE Q = {}
           /\ \A w \in Workers :
                 LET P == {<<"batch", w, i>> : i \in Positions(pending[w], e)}
                 IN  IF e \in InBatch(w) THEN \E x : P = {x} ELSE P = {}
<1>1. LET B == {<<"backlog", 0, i>> : i \in Positions(backlog, e)}
      IN  IF e \in Waiting THEN \E x : B = {x} ELSE B = {}
  <2>1. backlog \in Seq(Events) /\ IsInjective(backlog)
    BY DEF StateInv, TypeOK, PlaceInv, QueuesDistinct
  <2>2. CASE e \in Waiting
    <3>1. PICK i \in DOMAIN backlog : Positions(backlog, e) = {i}
      BY <2>1, <2>2, OnePosition DEF Positions, Waiting
    <3>2. {<<"backlog", 0, j>> : j \in Positions(backlog, e)} = {<<"backlog", 0, i>>}
      BY <3>1
    <3> QED
      BY <2>2, <3>2
  <2>3. CASE e \notin Waiting
    <3>1. Positions(backlog, e) = {}
      BY <2>1, <2>3, OnePosition DEF Positions, Waiting
    <3> QED
      BY <2>3, <3>1
  <2> QED
    BY <2>2, <2>3
<1>2. LET T == {<<"thread", t, 0>> : t \in {t \in Threads : event[t] = e /\ pc[t] \in {"route", "send"}}}
      IN  IF e \in Held THEN \E x : T = {x} ELSE T = {}
  <2>1. {t \in Threads : event[t] = e /\ pc[t] \in {"route", "send"}} = {t \in InHand : event[t] = e}
    BY DEF InHand
  <2>2. CASE e \in Held
    <3>1. PICK t \in InHand : event[t] = e
      BY <2>2 DEF Held
    <3>2. {u \in InHand : event[u] = e} = {t}
      BY <3>1 DEF PlaceInv, HandsDistinct
    <3>3. {<<"thread", u, 0>> : u \in {u \in Threads : event[u] = e /\ pc[u] \in {"route", "send"}}}
             = {<<"thread", t, 0>>}
      BY <2>1, <3>2
    <3> QED
      BY <2>2, <3>3
  <2>3. CASE e \notin Held
    <3>1. {t \in InHand : event[t] = e} = {}
      BY <2>3 DEF Held
    <3> QED
      BY <2>1, <2>3, <3>1
  <2> QED
    BY <2>2, <2>3
<1>3. ASSUME NEW p \in Priority
      PROVE  LET Q == {<<"queue", p, i>> : i \in Positions(queue[p], e)}
             IN  IF e \in InQueue(p) THEN \E x : Q = {x} ELSE Q = {}
  <2>1. queue[p] \in Seq(Item) /\ OnceIn(queue[p], Events)
    BY DEF StateInv, TypeOK, PlaceInv, QueuesDistinct
  <2>2. CASE e \in InQueue(p)
    <3>1. PICK i \in DOMAIN queue[p] : Positions(queue[p], e) = {i}
      BY <2>1, <2>2, OncePosition DEF Positions, InQueue
    <3>2. {<<"queue", p, j>> : j \in Positions(queue[p], e)} = {<<"queue", p, i>>}
      BY <3>1
    <3> QED
      BY <2>2, <3>2
  <2>3. CASE e \notin InQueue(p)
    <3>1. Positions(queue[p], e) = {}
      BY <2>1, <2>3, OncePosition DEF Positions, InQueue
    <3> QED
      BY <2>3, <3>1
  <2> QED
    BY <2>2, <2>3
<1>4. ASSUME NEW w \in Workers
      PROVE  LET P == {<<"batch", w, i>> : i \in Positions(pending[w], e)}
             IN  IF e \in InBatch(w) THEN \E x : P = {x} ELSE P = {}
  <2>1. pending[w] \in Seq(Item) /\ OnceIn(pending[w], Events)
    BY DEF StateInv, TypeOK, PlaceInv, QueuesDistinct
  <2>2. CASE e \in InBatch(w)
    <3>1. PICK i \in DOMAIN pending[w] : Positions(pending[w], e) = {i}
      BY <2>1, <2>2, OncePosition DEF Positions, InBatch
    <3>2. {<<"batch", w, j>> : j \in Positions(pending[w], e)} = {<<"batch", w, i>>}
      BY <3>1
    <3> QED
      BY <2>2, <3>2
  <2>3. CASE e \notin InBatch(w)
    <3>1. Positions(pending[w], e) = {}
      BY <2>1, <2>3, OncePosition DEF Positions, InBatch
    <3> QED
      BY <2>3, <3>1
  <2> QED
    BY <2>2, <2>3
<1> QED
  BY <1>1, <1>2, <1>3, <1>4

LEMMA PlacesGiveOnePlace == StateInv /\ ChannelInv /\ PlaceInv => OnePlace
<1> SUFFICES ASSUME StateInv, ChannelInv, PlaceInv, NEW e \in Events
             PROVE  Cardinality(Places(e)) = IF e \in given THEN 1 ELSE 0
  BY DEF OnePlace
<1> DEFINE B == {<<"backlog", 0, i>> : i \in Positions(backlog, e)}
           T == {<<"thread", t, 0>> : t \in {t \in Threads : event[t] = e /\ pc[t] \in {"route", "send"}}}
           Q(p) == {<<"queue", p, i>> : i \in Positions(queue[p], e)}
           P(w) == {<<"batch", w, i>> : i \in Positions(pending[w], e)}
           QQ == UNION {Q(p) : p \in Priority}
           PP == UNION {P(w) : w \in Workers}
           E == IF outcome[e] = "none" THEN {} ELSE {<<"ended", outcome[e], 0>>}
<1>1. Places(e) = B \cup T \cup QQ \cup PP \cup E
  BY DEF Places
<1>2. /\ IF e \in Waiting THEN \E x : B = {x} ELSE B = {}
      /\ IF e \in Held THEN \E x : T = {x} ELSE T = {}
      /\ \A p \in Priority : IF e \in InQueue(p) THEN \E x : Q(p) = {x} ELSE Q(p) = {}
      /\ \A w \in Workers : IF e \in InBatch(w) THEN \E x : P(w) = {x} ELSE P(w) = {}
  BY PlacesOf
<1>3. IF Ended(e) THEN \E x : E = {x} ELSE E = {}
  BY DEF Ended
<1> HIDE DEF B, T, Q, P, E
<1>4. IF \E p \in Priority : e \in InQueue(p) THEN \E x : QQ = {x} ELSE QQ = {}
  <2>1. CASE \E p \in Priority : e \in InQueue(p)
    <3>1. PICK p \in Priority : e \in InQueue(p)
      BY <2>1
    <3>2. \A r \in Priority : r # p => e \notin InQueue(r)
      BY <3>1 DEF ChannelInv, InQueue
    <3>3. QQ = Q(p)
      BY <1>2, <3>2
    <3> QED
      BY <1>2, <2>1, <3>1, <3>3
  <2>2. CASE ~ \E p \in Priority : e \in InQueue(p)
    BY <1>2, <2>2
  <2> QED
    BY <2>1, <2>2
<1>5. IF \E w \in Workers : e \in InBatch(w) THEN \E x : PP = {x} ELSE PP = {}
  <2>1. CASE \E w \in Workers : e \in InBatch(w)
    <3>1. PICK w \in Workers : e \in InBatch(w)
      BY <2>1
    <3>2. \A v \in Workers : v # w => e \notin InBatch(v)
      BY <3>1 DEF PlaceInv, PartsDisjoint
    <3>3. PP = P(w)
      BY <1>2, <3>2
    <3> QED
      BY <1>2, <2>1, <3>1, <3>3
  <2>2. CASE ~ \E w \in Workers : e \in InBatch(w)
    BY <1>2, <2>2
  <2> QED
    BY <2>1, <2>2
<1> HIDE DEF QQ, PP
<1>6. CASE e \in given
  <2>1. \E x : Places(e) = {x}
    BY <1>1, <1>2, <1>3, <1>4, <1>5, <1>6 DEF PlaceInv, PartsComplete, PartsDisjoint
  <2> QED
    BY <1>6, <2>1, FS_Singleton
<1>7. CASE e \notin given
  <2>1. Places(e) = {}
    BY <1>1, <1>2, <1>3, <1>4, <1>5, <1>7 DEF PlaceInv, PartsComplete
  <2> QED
    BY <1>7, <2>1, FS_EmptySet
<1> QED
  BY <1>6, <1>7

(* The inductive invariant: the types and hands of the threads, the bounds of *)
(* the channels, and each event in the one part of the pipeline it has reached. *)
THEOREM InvariantHolds == Spec => [](StateInv /\ ChannelInv /\ PlaceInv)
BY InitState, NextState, InitChannels, NextChannels, InitPlaces, NextPlaces, PTL DEF Spec

(* Of emit, route, the channels, both workers and the replay in new(), in any *)
(* interleaving and with a crash anywhere: an event that entered the pipeline *)
(* is in one place of it, or has come to one end.                             *)
THEOREM EachEventOnce == Spec => []OnePlace
BY InvariantHolds, PlacesGiveOnePlace, PTL
-----------------------------------------------------------------------------
\* The log until a second session has begun.
FirstCrash ==
    /\ sessions = 0 => mode = "down" /\ emitted = {}
    /\ sessions <= 1 => returned = {}
    /\ sessions = 2 /\ mode # "down" => accepted \subseteq given

LEMMA InitFirstCrash == Init => FirstCrash
BY DEF Init, FirstCrash

\* The first session replays nothing; the second, all that the first had accepted.
LEMMA OpenFirstCrash ==
    ASSUME StateInv, FirstCrash, Open
    PROVE  FirstCrash'
<1>1. /\ mode' = "new" /\ sessions' = sessions + 1 /\ sessions \in Nat
      /\ emitted' = emitted /\ accepted' = accepted
  BY PipelineAssumption DEF Open, StateInv, TypeOK, Log!Return
<1>2. /\ returned' = returned \cup ToSet(records) /\ given' = ToSet(records)
      /\ accepted \ returned \subseteq ToSet(records) /\ ToSet(records) \subseteq emitted
  BY DEF Open, Log!Return, StateInv, Recorded
<1>3. sessions' <= 1 => returned' = {}
  BY <1>1, <1>2 DEF FirstCrash
<1>4. sessions' = 2 => accepted' \subseteq given'
  BY <1>1, <1>2 DEF FirstCrash
<1> QED
  BY <1>1, <1>3, <1>4 DEF FirstCrash

LEMMA NextFirstCrash == StateInv /\ FirstCrash /\ [Next]_vars => FirstCrash'
<1> SUFFICES ASSUME StateInv, FirstCrash, [Next]_vars PROVE FirstCrash'
  OBVIOUS
<1>1. CASE Open
  BY <1>1, OpenFirstCrash
<1>2. CASE \E t \in Producers, e \in Events : Emit(t, e)
  BY <1>2 DEF Emit, Journal, Log!Accept, FirstCrash
<1>3. CASE \E t \in Threads : RouteStep(t)
  <2>1. UNCHANGED <<mode, accepted, returned, emitted, given, sessions>>
    BY <1>3 DEF RouteStep, Filtered, TooOld, Dispatch, Send, Shed, CountDropped, CountDelivered, journal, history
  <2> QED
    BY <2>1 DEF FirstCrash
<1>4. CASE \E w \in Workers : WorkerStep(w)
  <2>1. UNCHANGED <<mode, accepted, returned, emitted, given, sessions>>
    BY <1>4 DEF WorkerStep, Tick, Receive, NextChannel, EndDrain, Process, EndWorker, journal, history
  <2> QED
    BY <2>1 DEF FirstCrash
<1>5. CASE Crash
  BY <1>5 DEF Crash, FirstCrash, journal
<1>6. CASE \/ Reroute \/ NewReturns \/ Start \/ HeartbeatWakes \/ HeartbeatEnds
           \/ BeginShutdown \/ SignalWorker \/ EndShutdown \/ UNCHANGED vars
  <2>1. UNCHANGED <<accepted, returned, emitted, given, sessions>> /\ (mode = "down" => mode' = "down")
    BY <1>6 DEF Reroute, NewReturns, Start, HeartbeatWakes, HeartbeatEnds, BeginShutdown, SignalWorker,
       EndShutdown, vars, journal, history
  <2> QED
    BY <2>1 DEF FirstCrash
<1> QED
  BY <1>1, <1>2, <1>3, <1>4, <1>5, <1>6 DEF Next

(* Of the journal, the replay in new() and the pipeline together: an event    *)
(* whose append was acknowledged, and that had not come to its end when the   *)
(* first session died, is in one place of the second session's pipeline.      *)
THEOREM OneCrashLosesNothing == Spec => []SurvivesOneCrash
<1>1. StateInv /\ OnePlace /\ FirstCrash => SurvivesOneCrash
  BY DEF StateInv, TypeOK, OnePlace, FirstCrash, SurvivesOneCrash
<1> QED
  BY <1>1, InitState, NextState, InitFirstCrash, NextFirstCrash, EachEventOnce, PTL DEF Spec
-----------------------------------------------------------------------------
(* The metrics: how each step moves the sums and the sets they are made of.  *)

Unsettled(E) == \A e \in E \cap Events : ~Ended(e)

LEMMA Sums ==
    ASSUME TypeOK
    PROVE  /\ Delivered \in Nat /\ ShedInAll \in Nat /\ Queued \in Nat
           /\ Batched \in Nat /\ Processed \in Nat /\ received \in Nat /\ dropped \in Nat
<1>1. \A p \in Priority : Len(queue[p]) \in Nat /\ shed[p] \in Nat
  BY DEF TypeOK
<1>2. \A w \in Workers : Len(pending[w]) \in Nat /\ eventsProcessed[w] \in Nat
  BY DEF TypeOK
<1>3. \A p \in {High, Medium, Low} : delivered[p] \in Nat
  BY DEF TypeOK
<1>4. Delivered \in Nat
  BY <1>3 DEF Delivered
<1>5. ShedInAll \in Nat /\ Queued \in Nat
  <2>1. Critical \in Priority /\ High \in Priority /\ Medium \in Priority /\ Low \in Priority
    BY DEF Priority
  <2>2. \A a, b, c, d \in Nat : a + b + c + d \in Nat
    OBVIOUS
  <2> QED
    BY <1>1, <2>1, <2>2 DEF ShedInAll, Queued
<1>6. Batched \in Nat /\ Processed \in Nat
  <2>1. "timeline" \in Workers /\ "ui_stream" \in Workers
    BY DEF Workers
  <2>2. \A a, b \in Nat : a + b \in Nat
    OBVIOUS
  <2> QED
    BY <1>2, <2>1, <2>2 DEF Batched, Processed
<1> QED
  BY <1>4, <1>5, <1>6 DEF TypeOK

\* One channel of the four changes its length.
LEMMA LengthsAddUp ==
    ASSUME NEW p \in Priority, NEW n \in Int,
           \A r \in Priority : Len(queue[r]) \in Nat,
           Len(queue'[p]) = Len(queue[p]) + n,
           \A r \in Priority \ {p} : Len(queue'[r]) = Len(queue[r])
    PROVE  Queued' = Queued + n
<1> DEFINE f == [r \in Priority |-> Len(queue[r])]
           g == [r \in Priority |-> Len(queue'[r])]
<1>1. /\ Queued = f[Critical] + f[High] + f[Medium] + f[Low]
      /\ Queued' = g[Critical] + g[High] + g[Medium] + g[Low]
  BY DEF Queued, Priority
<1>2. \A r \in Priority : f[r] \in Nat /\ g[r] = IF r = p THEN f[r] + n ELSE f[r]
  OBVIOUS
<1> HIDE DEF f, g
<1>3. /\ f[3] \in Nat /\ f[2] \in Nat /\ f[1] \in Nat /\ f[0] \in Nat
      /\ \/ g[3] = f[3] + n /\ g[2] = f[2] /\ g[1] = f[1] /\ g[0] = f[0]
         \/ g[3] = f[3] /\ g[2] = f[2] + n /\ g[1] = f[1] /\ g[0] = f[0]
         \/ g[3] = f[3] /\ g[2] = f[2] /\ g[1] = f[1] + n /\ g[0] = f[0]
         \/ g[3] = f[3] /\ g[2] = f[2] /\ g[1] = f[1] /\ g[0] = f[0] + n
  BY <1>2 DEF Priority, Critical, High, Medium, Low
<1>4. /\ Queued = f[3] + f[2] + f[1] + f[0]
      /\ Queued' = g[3] + g[2] + g[1] + g[0]
  BY <1>1 DEF Critical, High, Medium, Low
<1>5. PICK a, b, c, d \in Nat :
          /\ Queued = a + b + c + d
          /\ \/ Queued' = (a + n) + b + c + d
             \/ Queued' = a + (b + n) + c + d
             \/ Queued' = a + b + (c + n) + d
             \/ Queued' = a + b + c + (d + n)
  <2>1. \E a, b, c, d \in Nat : a = f[3] /\ b = f[2] /\ c = f[1] /\ d = f[0]
    BY <1>3
  <2> QED
    BY ZenonT(30), <1>3, <1>4, <2>1
<1> QED
  BY <1>5

LEMMA FiniteCounts ==
    ASSUME StateInv, PlaceInv
    PROVE  /\ IsFiniteSet(Sending) /\ Cardinality(Sending) \in Nat
           /\ IsFiniteSet(Sent) /\ Cardinality(Sent) \in Nat
           /\ IsFiniteSet(Shedding) /\ Cardinality(Shedding) \in Nat
           /\ IsFiniteSet(Aged) /\ Cardinality(Aged) \in Nat
<1>1. Sending \in SUBSET Threads /\ Sent \in SUBSET Threads /\ Shedding \in SUBSET Threads
  BY DEF Sending, Sent, Shedding
<1>2. Aged \in SUBSET emitted
  BY DEF Aged, Ended, PlaceInv, PartsComplete, StateInv, Emitted
<1> QED
  BY <1>1, <1>2, ThreadsAreFinite, FS_Subset, FS_CardinalityType DEF StateInv, Emitted

\* A thread that goes from one step to the next.
LEMMA ThreadCounts ==
    ASSUME StateInv, PlaceInv, NEW t \in Threads, NEW step, pc' = [pc EXCEPT ![t] = step]
    PROVE  /\ pc[t] \in {"idle", "route"} /\ step \in {"idle", "route"} =>
                 /\ Sending' = Sending /\ Sent' = Sent /\ Shedding' = Shedding
           /\ pc[t] \in {"idle", "route"} /\ step = "send" =>
                 /\ Cardinality(Sending') = Cardinality(Sending) + 1 /\ Sent' = Sent
                 /\ Shedding' = Shedding
           /\ pc[t] = "send" /\ step = "sent" =>
                 /\ Sending' = Sending /\ Cardinality(Sent') = Cardinality(Sent) + 1
                 /\ Shedding' = Shedding
           /\ pc[t] = "sent" /\ step = "idle" =>
                 /\ Cardinality(Sending') = Cardinality(Sending) - 1
                 /\ Cardinality(Sent') = Cardinality(Sent) - 1 /\ Shedding' = Shedding
           /\ pc[t] = "send" /\ step = "shed" =>
                 /\ Cardinality(Sending') = Cardinality(Sending) - 1 /\ Sent' = Sent
                 /\ Cardinality(Shedding') = Cardinality(Shedding) + 1
           /\ pc[t] = "shed" /\ step = "idle" =>
                 /\ Sending' = Sending /\ Sent' = Sent
                 /\ Cardinality(Shedding') = Cardinality(Shedding) - 1
<1>1. \A u \in Threads : pc'[u] = IF u = t THEN step ELSE pc[u]
  BY DEF StateInv, TypeOK
<1>2. IsFiniteSet(Sending) /\ IsFiniteSet(Sent) /\ IsFiniteSet(Shedding)
  BY FiniteCounts
<1>3. /\ Sending' = IF step \in {"send", "sent"} THEN Sending \cup {t} ELSE Sending \ {t}
      /\ Sent' = IF step = "sent" THEN Sent \cup {t} ELSE Sent \ {t}
      /\ Shedding' = IF step = "shed" THEN Shedding \cup {t} ELSE Shedding \ {t}
      /\ t \in Sending <=> pc[t] \in {"send", "sent"}
      /\ t \in Sent <=> pc[t] = "sent"
      /\ t \in Shedding <=> pc[t] = "shed"
  BY <1>1 DEF Sending, Sent, Shedding
<1>4. ASSUME NEW S, IsFiniteSet(S)
      PROVE  /\ Cardinality(S \cup {t}) = IF t \in S THEN Cardinality(S) ELSE Cardinality(S) + 1
             /\ Cardinality(S \ {t}) = IF t \in S THEN Cardinality(S) - 1 ELSE Cardinality(S)
             /\ t \in S => S \cup {t} = S
             /\ t \notin S => S \ {t} = S
  BY <1>4, FS_AddElement, FS_RemoveElement
<1> QED
  BY <1>2, <1>3, <1>4

\* What comes to its end had not come to one before.
LEMMA AgedCounts ==
    ASSUME StateInv, NEW E, Unsettled(E), NEW how \in Ways, Settle(E, how)
    PROVE  Aged' = IF how = "aged" THEN Aged \cup (E \cap Events) ELSE Aged
<1>1. \A e \in Events : outcome'[e] = IF e \in E THEN how ELSE outcome[e]
  BY SettleTypes DEF StateInv
<1>2. \A e \in E \cap Events : outcome[e] = "none"
  BY DEF Unsettled, Ended
<1> QED
  BY <1>1, <1>2 DEF Aged

LEMMA InitBalance == Init => MetricsBalance
<1> SUFFICES ASSUME Init PROVE MetricsBalance
  OBVIOUS
<1>1. /\ Delivered = 0 /\ ShedInAll = 0 /\ Queued = 0 /\ Batched = 0 /\ Processed = 0
      /\ shed[Critical] = 0 /\ received = 0 /\ dropped = 0
  BY DEF Init, Everywhere, Delivered, ShedInAll, Queued, Batched, Processed, Priority, Workers
<1>2. Sending = {} /\ Sent = {} /\ Shedding = {} /\ Aged = {}
  BY DEF Init, Everywhere, Sending, Sent, Shedding, Aged
<1> QED
  BY <1>1, <1>2, FS_EmptySet DEF MetricsBalance

LEMMA CrashBalance == Crash => MetricsBalance'
<1> SUFFICES ASSUME Crash PROVE MetricsBalance'
  OBVIOUS
<1>1. /\ Delivered' = 0 /\ ShedInAll' = 0 /\ Queued' = 0 /\ Batched' = 0 /\ Processed' = 0
      /\ shed'[Critical] = 0 /\ received' = 0 /\ dropped' = 0
  BY DEF Crash, Everywhere, Delivered, ShedInAll, Queued, Batched, Processed, Priority, Workers
<1>2. Sending' = {} /\ Sent' = {} /\ Shedding' = {} /\ Aged' = {}
  BY DEF Crash, Everywhere, Sending, Sent, Shedding, Aged
<1> QED
  BY <1>1, <1>2, FS_EmptySet DEF MetricsBalance

\* The steps that count nothing.
LEMMA StillBalance ==
    ASSUME MetricsBalance, UNCHANGED <<metrics, queue, pending, eventsProcessed>>,
           Sending' = Sending, Sent' = Sent, Shedding' = Shedding, Aged' = Aged
    PROVE  MetricsBalance'
BY DEF MetricsBalance, metrics, Delivered, ShedInAll, Queued, Batched, Processed

\* What the thread holds has not ended.
LEMMA HeldUnsettled ==
    ASSUME PlaceInv, NEW t \in Threads, pc[t] \in {"route", "send"}
    PROVE  Unsettled({event[t]})
BY DEF PlaceInv, PartsDisjoint, Unsettled, Held, InHand

LEMMA RouteBalance ==
    ASSUME StateInv, PlaceInv, MetricsBalance, NEW t \in Threads, RouteStep(t)
    PROVE  MetricsBalance'
<1> DEFINE x == event[t]
           p == Prio(event[t])
<1>1. pc[t] # "idle" => p \in Priority
  BY InHandIsItem DEF StateInv
<1>2. /\ Delivered \in Nat /\ ShedInAll \in Nat /\ Queued \in Nat /\ Batched \in Nat
      /\ Processed \in Nat /\ received \in Nat /\ dropped \in Nat
      /\ Cardinality(Sending) \in Nat /\ Cardinality(Sent) \in Nat /\ Cardinality(Aged) \in Nat
      /\ Cardinality(Shedding) \in Nat
  BY Sums, FiniteCounts DEF StateInv
<1>3. CASE Filtered(t)
  <2>1. Aged' = Aged
    BY <1>3, HeldUnsettled, AgedCounts DEF Filtered, Ways
  <2>2. Sending' = Sending /\ Sent' = Sent /\ Shedding' = Shedding
    BY <1>3, ThreadCounts DEF Filtered, Returns
  <2> QED
    BY <1>3, <2>1, <2>2, StillBalance DEF Filtered, workers
<1>4. CASE TooOld(t)
  <2>1. Aged' = Aged \cup ({x} \cap Events) /\ ~(x \in Aged)
    BY <1>4, HeldUnsettled, AgedCounts DEF TooOld, Ways, Unsettled, Ended, Aged
  <2>2. x \in Events
    BY <1>4 DEF TooOld, StateInv, Hands
  <2>3. Cardinality(Aged') = Cardinality(Aged) + 1
    <3>1. Aged' = Aged \cup {x}
      BY <2>1, <2>2
    <3> QED
      BY <2>1, <3>1, FiniteCounts, FS_AddElement
  <2>4. Sending' = Sending /\ Sent' = Sent /\ Shedding' = Shedding
    BY <1>4, ThreadCounts DEF TooOld, Returns
  <2>5. /\ received' = received /\ dropped' = dropped + 1 /\ shed' = shed
        /\ Delivered' = Delivered /\ ShedInAll' = ShedInAll /\ Queued' = Queued
        /\ Batched' = Batched /\ Processed' = Processed
    BY <1>4 DEF TooOld, workers, Delivered, ShedInAll, Queued, Batched, Processed
  <2> QED
    BY <1>2, <2>3, <2>4, <2>5 DEF MetricsBalance
<1>5. CASE Dispatch(t)
  <2>1. /\ Cardinality(Sending') = Cardinality(Sending) + 1 /\ Sent' = Sent
        /\ Shedding' = Shedding
    BY <1>5, ThreadCounts DEF Dispatch
  <2>2. /\ received' = received + 1 /\ dropped' = dropped /\ shed' = shed /\ Aged' = Aged
        /\ Delivered' = Delivered /\ ShedInAll' = ShedInAll /\ Queued' = Queued
        /\ Batched' = Batched /\ Processed' = Processed
    BY <1>5 DEF Dispatch, workers, history, Aged, Delivered, ShedInAll, Queued, Batched, Processed
  <2> QED
    BY <1>2, <2>1, <2>2 DEF MetricsBalance
<1>6. CASE Send(t)
  <2>1. /\ Sending' = Sending /\ Cardinality(Sent') = Cardinality(Sent) + 1
        /\ Shedding' = Shedding
    BY <1>6, ThreadCounts DEF Send
  <2>2. Queued' = Queued + 1
    <3>1. /\ p \in Priority /\ queue \in [Priority -> Seq(Item)]
          /\ queue' = [queue EXCEPT ![p] = Append(queue[p], x)] /\ x \in Item
      BY <1>1, <1>6, InHandIsItem DEF Send, StateInv, TypeOK
    <3> HIDE DEF p, x
    <3>2. /\ Len(queue'[p]) = Len(queue[p]) + 1
          /\ \A r \in Priority \ {p} : Len(queue'[r]) = Len(queue[r])
          /\ \A r \in Priority : Len(queue[r]) \in Nat
      BY <3>1
    <3> QED
      BY <3>1, <3>2, LengthsAddUp
  <2>3. /\ received' = received /\ dropped' = dropped /\ shed' = shed /\ Aged' = Aged
        /\ Delivered' = Delivered /\ ShedInAll' = ShedInAll
        /\ Batched' = Batched /\ Processed' = Processed
    BY <1>6 DEF Send, metrics, workers, history, Aged, Delivered, ShedInAll, Batched, Processed
  <2> QED
    BY <1>2, <2>1, <2>2, <2>3 DEF MetricsBalance
<1>7. CASE Shed(t)
  <2>1. /\ Cardinality(Sending') = Cardinality(Sending) - 1 /\ Sent' = Sent
        /\ Cardinality(Shedding') = Cardinality(Shedding) + 1
    BY <1>7, ThreadCounts DEF Shed
  <2>2. Aged' = Aged
    BY <1>7, HeldUnsettled, AgedCounts DEF Shed, Ways
  <2>3. ShedInAll' = ShedInAll + 1 /\ shed'[Critical] = shed[Critical]
    <3>1. /\ p \in Priority /\ shed \in [Priority -> Nat]
          /\ shed' = [shed EXCEPT ![p] = shed[p] + 1] /\ p # Critical
      BY <1>1, <1>7 DEF Shed, StateInv, TypeOK
    <3> HIDE DEF p
    <3> QED
      BY <3>1 DEF ShedInAll, Priority, Critical, High, Medium, Low
  <2>4. /\ received' = received /\ dropped' = dropped
        /\ Delivered' = Delivered /\ Queued' = Queued
        /\ Batched' = Batched /\ Processed' = Processed
    BY <1>7 DEF Shed, workers, Delivered, Queued, Batched, Processed
  <2> QED
    BY <1>2, <2>1, <2>2, <2>3, <2>4 DEF MetricsBalance
<1>9. CASE CountDropped(t)
  <2>1. /\ Sending' = Sending /\ Sent' = Sent
        /\ Cardinality(Shedding') = Cardinality(Shedding) - 1
    BY <1>9, ThreadCounts DEF CountDropped, Returns
  <2>2. /\ received' = received /\ dropped' = dropped + 1 /\ shed' = shed /\ Aged' = Aged
        /\ Delivered' = Delivered /\ ShedInAll' = ShedInAll /\ Queued' = Queued
        /\ Batched' = Batched /\ Processed' = Processed
    BY <1>9 DEF CountDropped, workers, history, Aged, Delivered, ShedInAll, Queued, Batched, Processed
  <2> QED
    BY <1>2, <2>1, <2>2 DEF MetricsBalance
<1>8. CASE CountDelivered(t)
  <2>1. /\ Cardinality(Sending') = Cardinality(Sending) - 1
        /\ Cardinality(Sent') = Cardinality(Sent) - 1 /\ Shedding' = Shedding
    BY <1>8, ThreadCounts DEF CountDelivered, Returns
  <2>2. Delivered' = Delivered + 1
    <3> DEFINE c == DeliveredCounter(p)
    <3>1. /\ c \in {High, Medium, Low} /\ delivered \in [{High, Medium, Low} -> Nat]
          /\ delivered' = [delivered EXCEPT ![c] = delivered[c] + 1]
      BY <1>1, <1>8 DEF CountDelivered, StateInv, TypeOK, DeliveredCounter, Priority
    <3> HIDE DEF c
    <3> QED
      BY <3>1 DEF Delivered, High, Medium, Low
  <2>3. /\ received' = received /\ dropped' = dropped /\ shed' = shed /\ Aged' = Aged
        /\ ShedInAll' = ShedInAll /\ Queued' = Queued
        /\ Batched' = Batched /\ Processed' = Processed
    BY <1>8 DEF CountDelivered, workers, history, Aged, ShedInAll, Queued, Batched, Processed
  <2> QED
    BY <1>2, <2>1, <2>2, <2>3 DEF MetricsBalance
<1> QED
  BY <1>3, <1>4, <1>5, <1>6, <1>7, <1>8, <1>9 DEF RouteStep

\* An event moves from a channel to a batch.
LEMMA ReceiveBalance ==
    ASSUME StateInv, PlaceInv, MetricsBalance, NEW w \in Workers, Receive(w)
    PROVE  MetricsBalance'
<1>1. PICK p \in Priority :
          /\ queue[p] \in Seq(Item) /\ queue[p] # <<>> /\ Head(queue[p]) \in Item
          /\ pending[w] \in Seq(Item)
          /\ pending' = [pending EXCEPT ![w] = Append(pending[w], Head(queue[p]))]
          /\ queue' = [queue EXCEPT ![p] = Tail(queue[p])]
  BY ReceiveTypes DEF StateInv
<1>2. Queued' = Queued + (-1)
  <2>1. queue \in [Priority -> Seq(Item)]
    BY DEF StateInv, TypeOK
  <2>2. /\ \A r \in Priority : Len(queue[r]) \in Nat
        /\ \A r \in Priority \ {p} : Len(queue'[r]) = Len(queue[r])
        /\ Len(queue'[p]) = Len(queue[p]) - 1
    BY <1>1, <2>1
  <2>3. PICK n \in Int : n = -1
    OBVIOUS
  <2>4. Len(queue'[p]) = Len(queue[p]) + n
    BY <2>2, <2>3
  <2>5. Queued' = Queued + n
    BY <2>2, <2>4, LengthsAddUp
  <2> QED
    BY <2>3, <2>5
<1>3. Batched' = Batched + 1
  <2>1. pending \in [Workers -> Seq(Item)]
    BY DEF StateInv, TypeOK
  <2>2. \A v \in Workers :
            /\ Len(pending[v]) \in Nat
            /\ Len(pending'[v]) = IF v = w THEN Len(pending[v]) + 1 ELSE Len(pending[v])
    BY <1>1, <2>1
  <2>3. PICK a, b \in Nat :
            /\ Batched = a + b
            /\ Batched' = (a + 1) + b \/ Batched' = a + (b + 1)
    BY <2>2 DEF Batched, Workers
  <2> QED
    BY <2>3
<1>4. /\ Sending' = Sending /\ Sent' = Sent /\ Shedding' = Shedding /\ Aged' = Aged
      /\ received' = received /\ dropped' = dropped /\ shed' = shed
      /\ Delivered' = Delivered /\ ShedInAll' = ShedInAll /\ Processed' = Processed
  BY DEF Receive, producers, metrics, history, Sending, Sent, Shedding, Aged, Delivered, ShedInAll, Processed
<1>5. /\ Delivered \in Nat /\ Queued \in Nat /\ Batched \in Nat /\ Processed \in Nat
      /\ Cardinality(Sent) \in Nat
  BY Sums, FiniteCounts DEF StateInv
<1> QED
  BY <1>2, <1>3, <1>4, <1>5 DEF MetricsBalance

\* A batch is processed.
LEMMA FlushBalance ==
    ASSUME StateInv, PlaceInv, MetricsBalance, NEW w \in Workers, Flush(w),
           UNCHANGED <<pc, queue, metrics>>
    PROVE  MetricsBalance'
<1>1. Aged' = Aged
  <2>1. Unsettled(Range(pending[w]))
    BY RangeIsToSet DEF PlaceInv, PartsDisjoint, Unsettled, InBatch
  <2> QED
    BY <2>1, AgedCounts DEF Flush, Ways, Workers
<1>2. \A n \in Nat : n + Batched' + Processed' = n + Batched + Processed
  <2>1. /\ pending \in [Workers -> Seq(Item)] /\ eventsProcessed \in [Workers -> Nat]
        /\ pending' = [pending EXCEPT ![w] = <<>>]
        /\ eventsProcessed' = [eventsProcessed EXCEPT ![w] = eventsProcessed[w] + Len(pending[w])]
    BY DEF StateInv, TypeOK, Flush
  <2>2. \A v \in Workers :
            /\ Len(pending[v]) \in Nat /\ eventsProcessed[v] \in Nat
            /\ Len(pending'[v]) = IF v = w THEN 0 ELSE Len(pending[v])
            /\ eventsProcessed'[v] = IF v = w THEN eventsProcessed[v] + Len(pending[v])
                                            ELSE eventsProcessed[v]
    BY <2>1
  <2>3. PICK a, b, c, d \in Nat :
            /\ Batched = a + b /\ Processed = c + d
            /\ \/ Batched' = 0 + b /\ Processed' = (c + a) + d
               \/ Batched' = a + 0 /\ Processed' = c + (d + b)
    BY <2>2 DEF Batched, Processed, Workers
  <2> QED
    BY <2>3
<1>3. /\ Sending' = Sending /\ Sent' = Sent /\ Shedding' = Shedding
      /\ received' = received /\ dropped' = dropped /\ shed' = shed
      /\ Delivered' = Delivered /\ ShedInAll' = ShedInAll /\ Queued' = Queued
  BY DEF metrics, Sending, Sent, Shedding, Delivered, ShedInAll, Queued
<1> QED
  BY <1>1, <1>2, <1>3, Sums DEF MetricsBalance, StateInv

LEMMA HeartbeatBalance ==
    ASSUME StateInv, PlaceInv, MetricsBalance, HeartbeatWakes
    PROVE  MetricsBalance'
<1>1. /\ Cardinality(Sending') = Cardinality(Sending) + 1 /\ Sent' = Sent
        /\ Shedding' = Shedding
  BY ThreadCounts, ThreadsAreFinite DEF HeartbeatWakes
<1>2. /\ received' = received + 1 /\ dropped' = dropped /\ shed' = shed /\ Aged' = Aged
      /\ Delivered' = Delivered /\ ShedInAll' = ShedInAll /\ Queued' = Queued
      /\ Batched' = Batched /\ Processed' = Processed
  BY DEF HeartbeatWakes, workers, history, Aged, Delivered, ShedInAll, Queued, Batched, Processed
<1>3. Delivered \in Nat /\ ShedInAll \in Nat /\ Cardinality(Sending) \in Nat
  BY Sums, FiniteCounts DEF StateInv
<1> QED
  BY <1>1, <1>2, <1>3 DEF MetricsBalance

LEMMA NextBalance == StateInv /\ PlaceInv /\ MetricsBalance /\ [Next]_vars => MetricsBalance'
<1> SUFFICES ASSUME StateInv, PlaceInv, MetricsBalance, [Next]_vars PROVE MetricsBalance'
  OBVIOUS
<1>1. CASE \E t \in Threads : RouteStep(t)
  BY <1>1, RouteBalance
<1>2. CASE \E w \in Workers : WorkerStep(w)
  <2>1. PICK w \in Workers : WorkerStep(w)
    BY <1>2
  <2>2. CASE Receive(w)
    BY <2>2, ReceiveBalance
  <2>3. CASE Process(w) \/ EndWorker(w)
    BY <2>3, FlushBalance DEF Process, EndWorker, producers
  <2>4. CASE Tick(w) \/ NextChannel(w) \/ EndDrain(w)
    BY <2>4, StillBalance DEF Tick, NextChannel, EndDrain, producers, history, Sending, Sent, Shedding, Aged
  <2> QED
    BY <2>1, <2>2, <2>3, <2>4 DEF WorkerStep
<1>3. CASE HeartbeatWakes
  BY <1>3, HeartbeatBalance
<1>4. CASE Crash
  BY <1>4, CrashBalance
<1>5. CASE Reroute
  <2>1. Sending' = Sending /\ Sent' = Sent /\ Shedding' = Shedding
    BY <1>5, ThreadCounts, ThreadsAreFinite DEF Reroute
  <2> QED
    BY <1>5, <2>1, StillBalance DEF Reroute, workers, history, Aged
<1>6. CASE \E t \in Producers, e \in Events : Emit(t, e)
  <2>1. Sending' = Sending /\ Sent' = Sent /\ Shedding' = Shedding
    BY <1>6, ThreadCounts DEF Emit, Threads
  <2> QED
    BY <1>6, <2>1, StillBalance DEF Emit, workers, Aged
<1>7. CASE \/ Open \/ NewReturns \/ Start \/ HeartbeatEnds \/ BeginShutdown \/ SignalWorker
           \/ EndShutdown \/ UNCHANGED vars
  BY <1>7, StillBalance DEF Open, NewReturns, Start, HeartbeatEnds, BeginShutdown, SignalWorker,
     EndShutdown, vars, producers, workers, history, Sending, Sent, Shedding, Aged
<1> QED
  BY <1>1, <1>2, <1>3, <1>4, <1>5, <1>6, <1>7 DEF Next

(* Of the counters that route, the workers and the heartbeat update one by    *)
(* one around their sends: at every point of every interleaving they add up   *)
(* but for what each thread has in hand, so that what health() reads is off   *)
(* by one event at most for each thread between two of its updates.           *)
THEOREM CountersAddUp == Spec => []MetricsBalance
BY InitBalance, NextBalance, InvariantHolds, PTL DEF Spec
=============================================================================
