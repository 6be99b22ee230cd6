------------------------------ MODULE EventBus ------------------------------
(***************************************************************************)
(* The telemetry event bus (telemetry/mod.rs), its SQLite journal          *)
(* (telemetry/journal.rs) and the storage actor (telemetry/storage.rs).    *)
(*                                                                         *)
(* Emitting sends the event to the journal's channel and then, under the   *)
(* lock of the subscriber list, tries the bounded channel of every         *)
(* subscriber in turn.  A worker writes the journal in batches, the        *)
(* storage actor fills the tables in batches.  At start-up the main thread *)
(* broadcasts the rows past the watermark while the other threads start    *)
(* and subscribe on their own.                                             *)
(*                                                                         *)
(* A delivery is known by its ticket: its place in the order in which the  *)
(* lock was taken.  A row's seq_id is its place in the table; the process  *)
(* may die at any time, and the two databases keep what was committed.     *)
(***************************************************************************)
EXTENDS Naturals, Sequences, SequencesExt, FiniteSets

CONSTANTS Emitters,      \* threads that call emit
          Main,          \* the thread that replays the journal
          Subscribers,   \* threads that subscribe and receive
          Storage,       \* the storage actor
          Events,        \* what the emitters emit, each once
          Free,          \* nobody holds the lock
          Capacity,      \* of a subscriber's channel
          JournalBatch,  \* most events the journal worker writes at once
          StorageBatch,  \* events at which the storage actor flushes
          MaxSessions    \* bound: times the program starts

ASSUME BusAssumption ==
    /\ Main \notin Emitters /\ Free \notin Emitters \cup {Main}
    /\ Storage \in Subscribers
    /\ Capacity \in Nat \ {0} /\ JournalBatch \in Nat \ {0} /\ StorageBatch \in Nat \ {0}
    /\ MaxSessions \in Nat

Threads == Emitters \cup {Main}

VARIABLES
    up, sessions,
    subscribed,             \* the subscriber list, in the order of subscription
    lock,                   \* who holds the mutex of the list
    pc, hand,               \* where each thread is in emit or broadcast, and with what
    ticket, next,           \* of each thread's delivery: its number, the subscriber it is at
    channel,                \* the channel of each subscriber: tickets
    order,                  \* the events delivered in this session, by ticket
    lastTaken               \* the ticket each subscriber received last

\* The journal: channel, worker, table, watermark, and the replay of the main thread.
VARIABLES
    journalChannel, journalWorker, journalBatch,
    rows, watermark,
    replay, replayNext, replayUntil

\* The storage actor and its tables.
VARIABLES
    storagePc, batch,
    written                 \* the tickets whose events it wrote in this session

\* History.
VARIABLES
    emitted,                \* events given to emit
    unjournaled,            \* of these, the events that never reach the table
    replayed,               \* rows that some replay has broadcast
    stored,                 \* how often each event was written to the tables
    due,                    \* tickets taken in this session with storage in the list
    missed                  \* tickets storage had no room for or failed to write

bus == <<subscribed, lock, pc, hand, ticket, next, channel, order, due>>
journal == <<journalChannel, journalWorker, journalBatch, rows, unjournaled>>
replaying == <<watermark, replay, replayNext, replayUntil>>
storing == <<storagePc, batch, written, stored>>
vars == <<up, sessions, bus, lastTaken, journal, replaying, storing, emitted, replayed, missed>>

NoEvents == [t \in Threads |-> Free]
Zeros == [t \in Threads |-> 0]

Init ==
    /\ up = FALSE /\ sessions = 0
    /\ subscribed = <<>> /\ lock = Free
    /\ pc = [t \in Threads |-> "idle"] /\ hand = NoEvents
    /\ ticket = Zeros /\ next = Zeros
    /\ channel = [s \in Subscribers |-> <<>>] /\ order = <<>> /\ due = {}
    /\ lastTaken = [s \in Subscribers |-> 0]
    /\ journalChannel = <<>> /\ journalBatch = <<>> /\ journalWorker = "absent"
    /\ replay = "before" /\ replayNext = 0 /\ replayUntil = 0
    /\ storagePc = "receive" /\ batch = <<>> /\ written = {} /\ missed = {}
    /\ rows = <<>> /\ watermark = 0
    /\ emitted = {} /\ unjournaled = {} /\ replayed = {}
    /\ stored = [e \in Events |-> 0]
-----------------------------------------------------------------------------
(* initialize_platform() builds the bus and spawns the threads, which open   *)
(* their databases and subscribe in their own time.                          *)

InitializePlatform ==
    /\ ~up /\ sessions < MaxSessions
    /\ up' = TRUE /\ sessions' = sessions + 1
    /\ journalWorker' = "starting"
    /\ UNCHANGED <<bus, lastTaken, journalChannel, journalBatch, rows, unjournaled, replaying,
                   storing, emitted, replayed, missed>>

Subscribe(s) ==
    /\ up /\ s \notin ToSet(subscribed) /\ lock = Free
    /\ subscribed' = Append(subscribed, s)
    /\ UNCHANGED <<up, sessions, lock, pc, hand, ticket, next, channel, order, due, lastTaken, journal,
                   replaying, storing, emitted, replayed, missed>>

\* The unbounded journal channel refuses only when its receiver is gone.
Emit(t, e) ==
    /\ up /\ pc[t] = "idle" /\ e \notin emitted
    /\ emitted' = emitted \cup {e}
    /\ IF journalWorker = "ended"
       THEN unjournaled' = unjournaled \cup {e} /\ UNCHANGED journalChannel
       ELSE journalChannel' = Append(journalChannel, e) /\ UNCHANGED unjournaled
    /\ pc' = [pc EXCEPT ![t] = "lock"] /\ hand' = [hand EXCEPT ![t] = e]
    /\ UNCHANGED <<up, sessions, subscribed, lock, ticket, next, channel, order, due, lastTaken,
                   journalWorker, journalBatch, rows, replaying, storing, replayed, missed>>

\* Mutant: the list is walked without its lock.
LockWithoutWaiting(t) ==
    /\ pc[t] = "lock"
    /\ lock' = t
    /\ order' = Append(order, hand[t])
    /\ due' = IF Storage \in ToSet(subscribed) THEN due \cup {Len(order) + 1} ELSE due
    /\ ticket' = [ticket EXCEPT ![t] = Len(order) + 1]
    /\ next' = [next EXCEPT ![t] = 1]
    /\ pc' = [pc EXCEPT ![t] = "deliver"]
    /\ UNCHANGED <<up, sessions, subscribed, hand, channel, lastTaken, journal, replaying, storing,
                   emitted, replayed, missed>>

Lock(t) ==
    /\ pc[t] = "lock" /\ lock = Free
    /\ lock' = t
    /\ order' = Append(order, hand[t])
    /\ due' = IF Storage \in ToSet(subscribed) THEN due \cup {Len(order) + 1} ELSE due
    /\ ticket' = [ticket EXCEPT ![t] = Len(order) + 1]
    /\ next' = [next EXCEPT ![t] = 1]
    /\ pc' = [pc EXCEPT ![t] = "deliver"]
    /\ UNCHANGED <<up, sessions, subscribed, hand, channel, lastTaken, journal, replaying, storing,
                   emitted, replayed, missed>>

\* Mutant: a full channel ends the walk.
DeliverUntilFull(t) ==
    /\ pc[t] = "deliver" /\ next[t] <= Len(subscribed)
    /\ LET s == subscribed[next[t]]
       IN  IF Len(channel[s]) < Capacity
           THEN /\ channel' = [channel EXCEPT ![s] = Append(@, ticket[t])]
                /\ next' = [next EXCEPT ![t] = @ + 1]
                /\ UNCHANGED missed
           ELSE /\ missed' = IF s = Storage THEN missed \cup {ticket[t]} ELSE missed
                /\ next' = [next EXCEPT ![t] = Len(subscribed) + 1]
                /\ UNCHANGED channel
    /\ UNCHANGED <<up, sessions, subscribed, lock, pc, hand, ticket, order, due, lastTaken, journal,
                   replaying, storing, emitted, replayed>>

\* try_send: a full channel loses the newest event, whatever the policy's name.
Deliver(t) ==
    /\ pc[t] = "deliver" /\ next[t] <= Len(subscribed)
    /\ LET s == subscribed[next[t]]
       IN  IF Len(channel[s]) < Capacity
           THEN /\ channel' = [channel EXCEPT ![s] = Append(@, ticket[t])]
                /\ UNCHANGED missed
           ELSE /\ missed' = IF s = Storage THEN missed \cup {ticket[t]} ELSE missed
                /\ UNCHANGED channel
    /\ next' = [next EXCEPT ![t] = @ + 1]
    /\ UNCHANGED <<up, sessions, subscribed, lock, pc, hand, ticket, order, due, lastTaken, journal,
                   replaying, storing, emitted, replayed>>

Unlock(t) ==
    /\ pc[t] = "deliver" /\ next[t] > Len(subscribed)
    /\ lock' = Free
    /\ pc' = [pc EXCEPT ![t] = "idle"] /\ hand' = [hand EXCEPT ![t] = Free]
    /\ ticket' = [ticket EXCEPT ![t] = 0] /\ next' = [next EXCEPT ![t] = 0]
    /\ replayed' = IF t = Main THEN replayed \cup {replayNext - 1} ELSE replayed
    /\ UNCHANGED <<up, sessions, subscribed, channel, order, due, lastTaken, journal, replaying, storing,
                   emitted, missed>>

\* Any subscriber but storage: it receives and goes on.
Receive(s) ==
    /\ s # Storage /\ channel[s] # <<>>
    /\ lastTaken' = [lastTaken EXCEPT ![s] = Head(channel[s])]
    /\ channel' = [channel EXCEPT ![s] = Tail(@)]
    /\ UNCHANGED <<up, sessions, subscribed, lock, pc, hand, ticket, next, order, due, journal, replaying,
                   storing, emitted, replayed, missed>>
-----------------------------------------------------------------------------
(* The journal worker: one blocking receive, then what is there up to the    *)
(* batch size, then one transaction.  A worker that cannot open its database *)
(* ends, and its channel with it.                                            *)

JournalOpens ==
    /\ journalWorker = "starting"
    /\ \/ journalWorker' = "receive" /\ UNCHANGED <<journalChannel, unjournaled>>
       \/ /\ journalWorker' = "ended" /\ journalChannel' = <<>>
          /\ unjournaled' = unjournaled \cup ToSet(journalChannel)
    /\ UNCHANGED <<up, sessions, bus, lastTaken, journalBatch, rows, replaying, storing, emitted,
                   replayed, missed>>

JournalReceive ==
    /\ journalWorker = "receive"
    /\ journalChannel # <<>> /\ Len(journalBatch) < JournalBatch
    /\ journalBatch' = Append(journalBatch, Head(journalChannel))
    /\ journalChannel' = Tail(journalChannel)
    /\ UNCHANGED <<up, sessions, bus, lastTaken, journalWorker, rows, unjournaled, replaying, storing,
                   emitted, replayed, missed>>

\* Mutant: a batch that is not full waits for more.
JournalBatchFills ==
    /\ journalWorker = "receive"
    /\ journalBatch # <<>> /\ Len(journalBatch) >= JournalBatch
    /\ journalWorker' = "append"
    /\ UNCHANGED <<up, sessions, bus, lastTaken, journalChannel, journalBatch, rows, unjournaled,
                   replaying, storing, emitted, replayed, missed>>

JournalBatchEnds ==
    /\ journalWorker = "receive"
    /\ journalBatch # <<>> /\ (journalChannel = <<>> \/ Len(journalBatch) >= JournalBatch)
    /\ journalWorker' = "append"
    /\ UNCHANGED <<up, sessions, bus, lastTaken, journalChannel, journalBatch, rows, unjournaled,
                   replaying, storing, emitted, replayed, missed>>

\* A transaction that fails is logged and its batch forgotten.
AppendBatch ==
    /\ journalWorker = "append"
    /\ \/ rows' = rows \o journalBatch /\ UNCHANGED unjournaled
       \/ unjournaled' = unjournaled \cup ToSet(journalBatch) /\ UNCHANGED rows
    /\ journalBatch' = <<>> /\ journalWorker' = "receive"
    /\ UNCHANGED <<up, sessions, bus, lastTaken, journalChannel, replaying, storing, emitted, replayed,
                   missed>>
-----------------------------------------------------------------------------
(* replay_journal(), on the main thread, through a connection of its own.    *)

\* Mutant: off by one.
OpenReplayOnePast ==
    /\ up /\ replay = "before"
    /\ \/ \E read \in {0, watermark} :
             /\ Len(rows) > read
             /\ replay' = "broadcast"
             /\ replayNext' = read + 1 /\ replayUntil' = Len(rows) + 1
       \/ replay' = "done" /\ UNCHANGED <<replayNext, replayUntil>>
    /\ UNCHANGED <<up, sessions, bus, lastTaken, journal, watermark, storing, emitted, replayed,
                   missed>>

\* The database may be unreadable, or hold nothing past the watermark; a
\* watermark that cannot be read counts as 0.
OpenReplay ==
    /\ up /\ replay = "before"
    /\ \/ \E read \in {0, watermark} :
             /\ Len(rows) > read
             /\ replay' = "broadcast"
             /\ replayNext' = read + 1 /\ replayUntil' = Len(rows)
       \/ replay' = "done" /\ UNCHANGED <<replayNext, replayUntil>>
    /\ UNCHANGED <<up, sessions, bus, lastTaken, journal, watermark, storing, emitted, replayed,
                   missed>>

\* Mutant: the row is emitted, and so journaled again.
ReplayRowEmits ==
    /\ replay = "broadcast" /\ pc[Main] = "idle" /\ replayNext <= replayUntil
    /\ hand' = [hand EXCEPT ![Main] = rows[replayNext]]
    /\ pc' = [pc EXCEPT ![Main] = "lock"]
    /\ replayNext' = replayNext + 1
    /\ journalChannel' = Append(journalChannel, rows[replayNext])
    /\ UNCHANGED <<up, sessions, subscribed, lock, ticket, next, channel, order, due, lastTaken,
                   journalWorker, journalBatch, rows, unjournaled, watermark, replay, replayUntil,
                   storing, emitted, replayed, missed>>

ReplayRow ==
    /\ replay = "broadcast" /\ pc[Main] = "idle" /\ replayNext <= replayUntil
    /\ hand' = [hand EXCEPT ![Main] = rows[replayNext]]
    /\ pc' = [pc EXCEPT ![Main] = "lock"]
    /\ replayNext' = replayNext + 1
    /\ UNCHANGED <<up, sessions, subscribed, lock, ticket, next, channel, order, due, lastTaken, journal,
                   watermark, replay, replayUntil, storing, emitted, replayed, missed>>

\* Mutant: the watermark goes to the last row of the table.
SetWatermarkToLast ==
    /\ replay = "broadcast" /\ pc[Main] = "idle" /\ replayNext > replayUntil
    /\ watermark' \in {watermark, Len(rows)}
    /\ replay' = "done"
    /\ UNCHANGED <<up, sessions, bus, lastTaken, journal, replayNext, replayUntil, storing, emitted,
                   replayed, missed>>

\* An update that fails is logged: the next session replays the same rows.
SetWatermark ==
    /\ replay = "broadcast" /\ pc[Main] = "idle" /\ replayNext > replayUntil
    /\ watermark' \in {watermark, replayUntil}
    /\ replay' = "done"
    /\ UNCHANGED <<up, sessions, bus, lastTaken, journal, replayNext, replayUntil, storing, emitted,
                   replayed, missed>>
-----------------------------------------------------------------------------
(* The storage actor: a batch is flushed when it is full, or when nothing    *)
(* came for five seconds.                                                    *)

StorageReceive ==
    /\ storagePc = "receive" /\ channel[Storage] # <<>>
    /\ batch' = Append(batch, Head(channel[Storage]))
    /\ lastTaken' = [lastTaken EXCEPT ![Storage] = Head(channel[Storage])]
    /\ channel' = [channel EXCEPT ![Storage] = Tail(@)]
    /\ storagePc' = IF Len(batch) + 1 >= StorageBatch THEN "flush" ELSE "receive"
    /\ UNCHANGED <<up, sessions, subscribed, lock, pc, hand, ticket, next, order, due, journal, replaying,
                   written, stored, emitted, replayed, missed>>

\* Mutant: the timeout leaves the batch to fill.
StorageTimeoutWaits ==
    /\ storagePc = "receive" /\ channel[Storage] = <<>> /\ Len(batch) >= StorageBatch
    /\ storagePc' = "flush"
    /\ UNCHANGED <<up, sessions, bus, lastTaken, journal, replaying, batch, written, stored, emitted,
                   replayed, missed>>

StorageTimeout ==
    /\ storagePc = "receive" /\ channel[Storage] = <<>> /\ batch # <<>>
    /\ storagePc' = "flush"
    /\ UNCHANGED <<up, sessions, bus, lastTaken, journal, replaying, batch, written, stored, emitted,
                   replayed, missed>>

\* The transaction may fail as a whole, or any of its insertions alone; either
\* way the batch is gone.
FlushBatch ==
    /\ storagePc = "flush"
    /\ \E S \in SUBSET ToSet(batch) :
          /\ written' = written \cup S
          /\ stored' = [e \in Events |-> stored[e] + Cardinality({n \in S : order[n] = e})]
          /\ missed' = missed \cup (ToSet(batch) \ S)
    /\ batch' = <<>> /\ storagePc' = "receive"
    /\ UNCHANGED <<up, sessions, bus, lastTaken, journal, replaying, emitted, replayed>>
-----------------------------------------------------------------------------
\* The process ends, in whatever way: the databases stay.
Crash ==
    /\ up /\ up' = FALSE
    /\ subscribed' = <<>> /\ lock' = Free
    /\ pc' = [t \in Threads |-> "idle"] /\ hand' = NoEvents
    /\ ticket' = Zeros /\ next' = Zeros
    /\ channel' = [s \in Subscribers |-> <<>>] /\ order' = <<>> /\ due' = {}
    /\ lastTaken' = [s \in Subscribers |-> 0]
    /\ journalChannel' = <<>> /\ journalBatch' = <<>> /\ journalWorker' = "absent"
    /\ replay' = "before" /\ replayNext' = 0 /\ replayUntil' = 0
    /\ storagePc' = "receive" /\ batch' = <<>> /\ written' = {} /\ missed' = {}
    /\ unjournaled' = unjournaled \cup ToSet(journalChannel) \cup ToSet(journalBatch)
    /\ UNCHANGED <<sessions, rows, watermark, emitted, replayed, stored>>

BusStep(t) == Lock(t) \/ Deliver(t) \/ Unlock(t)
JournalStep == JournalOpens \/ JournalReceive \/ JournalBatchEnds \/ AppendBatch
ReplayStep == OpenReplay \/ ReplayRow \/ SetWatermark
StorageStep == StorageReceive \/ StorageTimeout \/ FlushBatch

Next ==
    \/ InitializePlatform \/ Crash
    \/ \E s \in Subscribers : Subscribe(s) \/ Receive(s)
    \/ \E t \in Emitters, e \in Events : Emit(t, e)
    \/ \E t \in Threads : BusStep(t)
    \/ JournalStep \/ ReplayStep \/ StorageStep

Spec == Init /\ [][Next]_vars

\* The worker, the actor and the threads inside the bus run on.
Fairness ==
    /\ \A t \in Threads : WF_vars(BusStep(t))
    /\ WF_vars(JournalStep) /\ WF_vars(StorageStep) /\ WF_vars(ReplayStep)

FairSpec == Spec /\ Fairness
-----------------------------------------------------------------------------
BusTypeOK ==
    /\ up \in BOOLEAN /\ sessions \in 0..MaxSessions
    /\ subscribed \in Seq(Subscribers) /\ lock \in Threads \cup {Free}
    /\ pc \in [Threads -> {"idle", "lock", "deliver"}]
    /\ hand \in [Threads -> Events \cup {Free}]
    /\ ticket \in [Threads -> 0..Len(order)] /\ next \in [Threads -> Nat]
    /\ order \in Seq(Events) /\ due \subseteq 1..Len(order)
    /\ channel \in [Subscribers -> Seq(1..Len(order))]
    /\ lastTaken \in [Subscribers -> 0..Len(order)]

JournalTypeOK ==
    /\ journalChannel \in Seq(Events) /\ journalBatch \in Seq(Events)
    /\ journalWorker \in {"absent", "starting", "receive", "append", "ended"}
    /\ rows \in Seq(Events) /\ watermark \in 0..Len(rows)
    /\ replay \in {"before", "broadcast", "done"}
    /\ replayNext \in Nat /\ replayUntil \in 0..Len(rows)
    /\ emitted \subseteq Events /\ unjournaled \subseteq Events
    /\ replayed \subseteq 1..Len(rows)

StorageTypeOK ==
    /\ storagePc \in {"receive", "flush"}
    /\ batch \in Seq(1..Len(order)) /\ written \subseteq 1..Len(order)
    /\ stored \in [Events -> Nat] /\ missed \subseteq 1..Len(order)

TypeOK == BusTypeOK /\ JournalTypeOK /\ StorageTypeOK

Increasing(q) == \A i, j \in DOMAIN q : i < j => q[i] < q[j]

(* Emitters and the replay deliver to one subscriber after the other: what    *)
(* the subscribers receive, whoever sends it and whatever full channels drop, *)
(* is in one order common to all, and no delivery is received twice.          *)
OneOrder ==
    \A s \in Subscribers : Increasing(<<lastTaken[s]>> \o channel[s])

Occurrences(q, e) == Cardinality({i \in DOMAIN q : q[i] = e})

(* Every emitted event is journaled once, or known not to be: it is in the    *)
(* worker's channel, in its batch or in one row.  A replay, which broadcasts  *)
(* the row while the worker writes, never adds a row.                         *)
JournaledOnce ==
    \A e \in Events :
        Occurrences(journalChannel \o journalBatch \o rows, e) + (IF e \in unjournaled THEN 1 ELSE 0)
            = IF e \in emitted THEN 1 ELSE 0

(* The watermark never passes a row that no replay has broadcast: not one     *)
(* appended while the replay ran, not one a crash interrupted it before.      *)
WatermarkCovers == 1..watermark \subseteq replayed

\* The subscriber is at or behind the place that t's walk has reached.
Awaits(s, t) == pc[t] = "deliver" /\ \E j \in DOMAIN subscribed : next[t] <= j /\ subscribed[j] = s

(* Every event whose emitter took the lock after the storage actor had        *)
(* subscribed is accounted for: on its way there, in the actor's channel or   *)
(* batch, written, or known to have been dropped or not written.  What waits  *)
(* is in the order of the bus and after all that is written; what was missed  *)
(* is neither written nor waiting.                                            *)
StorageExact ==
    LET waiting == batch \o channel[Storage]
        coming == {ticket[t] : t \in {u \in Threads : Awaits(Storage, u)}}
    IN  /\ Increasing(waiting)
        /\ \A n \in written, i \in DOMAIN waiting : n < waiting[i]
        /\ missed \cap (written \cup ToSet(waiting)) = {}
        /\ due = coming \cup ToSet(waiting) \cup written \cup missed

(* Though the storage actor waits for a full batch, an event it was sent does *)
(* not wait for ever, for want of later events or otherwise.                  *)
StorageFlushes ==
    \A e \in Events :
        (\E n \in ToSet(channel[Storage] \o batch) : order[n] = e) ~>
            ~(\E n \in ToSet(channel[Storage] \o batch) : order[n] = e)

(* An event sent to the journal's channel gets its row, unless its            *)
(* transaction fails or the process dies first.                               *)
JournalCatchesUp ==
    \A e \in Events :
        e \in ToSet(journalChannel) ~> (e \in unjournaled \/ e \in ToSet(rows))

(* The journal replays unprocessed events: none that is stored already.       *)
StoredOnce == \A e \in Events : stored[e] <= 1

(* A replayed row reaches the storage actor: it is stored, in its hands, or   *)
(* known to have been dropped.                                                *)
ReplayReachesStorage ==
    up /\ replay = "done" =>
        \A i \in 1..watermark :
            \/ stored[rows[i]] > 0
            \/ \E n \in ToSet(channel[Storage] \o batch) \cup missed : order[n] = rows[i]
=============================================================================
