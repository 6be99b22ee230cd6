# IntegrityMonitor: specifications and proofs

IntegrityMonitor is a Windows integrity monitor: a kernel driver and several
user-mode sources report events, which a Tauri/Rust back end journals, routes,
stores, correlates and shows. This directory holds TLA+ modules translated from
that code, the TLC configurations that check them, and theorems about them that
TLAPS checks. `PROJECT.json` maps every definition to the lines it stands for and
lists the runs, findings, hazards and theorems.

Paths below are relative to `src-tauri/src/` of the repository unless they start
with `kernel/`.

## 1. Inventory

| Component | State it keeps | Operations | Correct when |
|---|---|---|---|
| Replay journal, `telemetry/pipeline/journal.rs` | one file, a `BufWriter` behind a mutex, relaxed counters `bytes_written`, `records_written`, `checkpoint_pos` | `open`, `append`, `replay`, `checkpoint`, `rotate_journal`, `sync_data` | an acknowledged record survives any crash and is replayed; counters never point past the file |
| Ingestion pipeline, `telemetry/pipeline/{coordinator,router,queues,worker}.rs` | four bounded channels, filter counters, `PipelineMetrics`, two worker tasks and their batches, heartbeat task | `new`, `start`, `emit`, `shutdown`, `route`, `dispatch`, `run_worker` | an event is in one place at a time; counters add up; a blocked sender proceeds; nothing is lost by a crash |
| Kernel driver list and pollers, `kernel/IntegrityMonitor.c`, `kernel/telemetry.rs` | a linked list and a count under a spin lock; two services with a handle and a batch each | `AddEventToList`, `ReadEvents`, `ClearEvents`, `DriverEntry`, `DriverUnload`, `poll_and_emit` | the count is the length; no event is reported twice; order is kept; a polled list empties |
| Event bus, `telemetry/mod.rs` | subscribers with bounded channels, an unbounded journal channel, `emit_count` | `emit`, `broadcast`, `subscribe` | all subscribers see one order; the journal gets every emitted event |
| SQLite event journal, `telemetry/journal.rs` | `event_journal` rows, a watermark, a worker's batch | `append_batch`, `replay_from`, `set_watermark`, `replay_journal` | no row at or below the watermark was never replayed |
| Storage actor, `telemetry/storage.rs` | a batch, SQLite tables | `run`, `flush_batch`, `insert_event` | what it received is written once; liveness of the 5 s flush |
| Event fabric, `telemetry/{fabric,envelope}.rs` | subscriber map with bounded channels, a coordinator that nobody starts, `emitted`, `total_dropped` | `emit`, `legacy_emit`, `subscribe`, the conversions | what a view lacks is what the counter says |
| Graph intelligence, `telemetry/graph_intelligence.rs` | node and edge maps, adjacency lists, counters | `ingest_event`, eviction, `traverse` | a walk finds every neighbour that is still held |
| Investigations and sessions, `investigation/` | concurrent maps of investigations, timelines, evidence, sessions | create, route, add, copy for the UI, open and close a session | a timeline has every event since its investigation; a copy is consistent |
| Correlation actor, `telemetry/correlation.rs` | four windows of 300 s, a graph in SQLite, `last_node_for_pid` | ingest, prune, detect, `get_chains` | a chain goes on to what the process did next |
| Frontend router and streamer, `telemetry/{router,stream}.rs` | subscribers with filter, policy and channel, counters, batches | subscribe, `route`, stream, shut down | the frontend is shown in order what it asked for, and the counters say what it was not |
| ETW consumer and trust worker, `telemetry/{etw,trust}.rs` | process table, verification queue, cache with a time-to-live | the record callback, verify, publish | every load gets a verdict, or one of its image is there |
| Background loop, `core/mod.rs` | known pids, tick, reports | start, tick, stop | every channel tells the same story of a process |
| File monitor, `core/file_monitor.rs` | shared vectors, cancel flags, watcher threads, recent events | start, stop, drain | what is seen of a directory has no hole |
| Forensic engines, `forensic/{timeline,graph,correlation,anti_forensic}.rs` | kept events with three indices, creations and deletions, a graph with an index map, chains, snapshots | ingest, query, correlate, analyse, clear | queries agree with the events; both detectors agree; the map knows the nodes |
| Change journal reader and monitor, `forensic/usn.rs` | a window over the data, a watermark | `next_record`, `read_new_records` | no record is skipped or returned twice by the reader; the monitor skips none |
| File table, transaction log and rules, `forensic/{mft,logfile,detection}.rs` | what was parsed | read, parse, match, judge | ghosts are what the journal lacks; two ways to match agree |
| Process lifecycle, `core/lifecycle.rs` | live table, dead cache with limits | transitions, prune, ancestry | used by its tests only; not modelled |
| Supervisor, `core/supervisor.rs` | counters of the last round | sample | not modelled |
| Detection and scoring, `detection_rules.rs`, `core/scoring.rs`, `telemetry/anti_cheat.rs` | none | evaluate | tables of names and weights; not modelled |
| Scanners, commands, frontend | none between calls | queries | not modelled |

How they interact. The driver's callbacks add to its list; two threads (one in
`lib.rs`, one in the loop of `core/mod.rs`) poll it and broadcast on the event
bus. ETW, file and network sources emit on the same bus. The bus sends each event
to the SQLite journal's channel and tries every subscriber's channel in turn
under one lock: storage actor, correlation actors, the bridge thread, the
frontend. The bridge turns it into a canonical event and emits it on the fabric,
which gives it to the ingestion coordinator (file journal, router, four
channels) and to its subscribers: the frontend's, and a consumer that keeps the graph of
live entities and the timelines of the investigations. The forensic engines work on what
an analyst gives them and share nothing with the live part but types.

What is hard. Many threads share lists, counters and channels with locks held
over less than the operation; two journals are written by one thread and read by
the next session; a Critical send blocks; a crash may fall anywhere; and start-up
replays into structures whose consumers may not exist yet. In production
(`lib.rs:38-40`) the coordinator inside the fabric is built but `start()` and
`shutdown()` are never called on it: they are called by its tests and documented
in `pipeline/mod.rs`. The pipeline is therefore modelled both with and without its
workers started.

`PROJECT.json` lists the hazards at their lines, and which property covers each.

## 2. Modules

| Module | Models | Composition |
|---|---|---|
| `RecoverableLog` | what a crash-recovery log promises: an accepted event is returned by the next recovery | abstract specification |
| `ReplayJournal` | `journal.rs`: open, append by several threads, checkpoint, fsync, replay and truncation, write and sync errors, process crash, power loss | implements `RecoverableLog` (`ImplementsLog`) |
| `EventRouting` | route table and trust override of `router.rs` | pure operators |
| `IngestionPipeline` | coordinator, router, queues, workers, heartbeat | extends `EventRouting`; its journal is an instance of `RecoverableLog` |
| `KernelEventList` | the driver's list and the two pollers | |
| `EventBus` | event bus, SQLite journal with its worker and replay, storage actor | one module: they share the channels and the crash |
| `ReplayJournalProofs`, `KernelEventListProofs`, `EventBusProofs`, `IngestionPipelineProofs` | theorems | each extends its module, `SequenceFacts` and TLAPS |
| `LiveEventsProofs`, `ForensicProofs` | theorems of `Platform` and `FrontendRouter`, and of `FilesystemHistory` and `VolumeForensics` | each extends its modules and `SequenceFacts` |
| `Selections` | elements of a sequence picked by a condition, in order | used by the forensic modules, the correlation actor and the live graph |
| `EndpointProofs` | theorems of the other machines of `Endpoint`, and of their composition | extends both |
| `SequenceFacts` | lemmas: appending, concatenating and cutting sequences, sequences in order, finite sets | used by all of them |
| `FilesystemEvents`, `ForensicTimeline`, `ForensicGraph`, `ForensicFindings` | an event of the change journal; the three engines of `forensic/` | `FilesystemHistory` drives them over one stream |
| `UsnJournal` | the streaming reader and the live monitor of `forensic/usn.rs` | |
| `MasterFileTable`, `LogFile`, `ForensicRules` | parsing and matching of the file table, the transaction log, the ten rules | `VolumeForensics` examines a volume with them |
| `LiveEvents` | event kinds, severities, priorities, filters | used by the five below |
| `EventFabric`, `GraphIntelligence`, `Investigations` | fan-out, live graph, timelines and sessions | `Platform`: the consumer of `lib.rs` and the commands of the UI |
| `CorrelationActor`, `FrontendRouter` | the actor on the bus; router and streamers | |
| `TraceConsumer`, `ProcessTracking`, `FileMonitor` | ETW callback and trust worker; the background loop; the watchers | |
| `Endpoint` | the machines from `FilesystemHistory` to `FileMonitor`, side by side | |
| `MCReplayJournal`, `MCIngestionPipeline`, `MCEventBus`, `MCEndpoint` | small instances for TLC | `KernelEventList` needs none |

### ReplayJournal

The file after its header is a sequence of items: an event (a record whose CRC
matches), `CHKP` (a checkpoint marker) or `TORN` (part of a record). `synced` items
are on stable storage. A marker is 12 bytes, its four letters and a position. `append` is `StartAppend`, `WriteRecord` (the block under the
mutex), `Count` (the two counters, updated after it), the optional `LoadPos` and
`WriteMarker` of the periodic checkpoint, and `SyncData`, which acknowledges.
`WriteFails`, `MarkerFails` and `SyncFails` are the `?` returns: a failed flush leaves
the record in the `BufWriter`, where the next flush writes it; a record larger than
the buffer may be torn. `open` is `Create` and `WriteHeader`, or `OpenExisting`;
`Replay` reads up to the first item that is not a record and cuts the file at the
start of the last record it read.

Consequences worth knowing: replay removes the last record it read from the file and
leaves the others, which the next session replays again (delivery is at-least-once, and
the last event is lost by a crash before it is processed); the offset `append`
returns may not be the record's position, since another thread may have written in
between; a crash between creating the file and writing its header leaves a file
that `open` rejects for ever, a state in which the model has no step (the reason
for `CHECK_DEADLOCK FALSE`).

Abstractions: every record and marker is one unit long and the header zero; an
event is appended once; truncation is durable at once; a power loss keeps the
synced items and any prefix of the rest. `rotate_journal` (beyond 512 MB) and
`replay_from_checkpoint` (no caller) are not modelled.

### EventRouting and IngestionPipeline

`Emit` journals an event (or fails to, which the code only logs) and starts
`route`. Each thread then steps through `Filtered`, `TooOld`, `Dispatch`, `Send` and
`CountDelivered`, or `Shed` and `CountDropped`, the order of the code: the filter counts, the age is
looked at, `events_received` is counted, the channel takes the event, the
delivered counter follows. A shed event is counted by its channel (`Shed`) and then by the
metrics (`CountDropped`), two relaxed atomics between which any other thread may step;
`MetricsBalance` counts the threads that are in between (`Shedding`). A Critical send has no
`Shed`: it waits. The log is `records`; `Journal` appends to it or fails (at most
`MaxFailures` times), and a failed append may leave its record all the same, as
`ReplayJournal` shows. `new()` is
`Open` (which returns all of `records` and cuts off the last, as `KeptLen` of
`ReplayJournal` does), one `Reroute` per replayed event through the same steps, and `NewReturns`.
A worker is `Tick`, `Receive` and `NextChannel` over its subscribed channels,
`EndDrain`, `Process`, and `EndWorker` for the shutdown branch of its `select!`. The
heartbeat dispatches without the router. `shutdown()` is `BeginShutdown`,
`SignalWorker` per worker (no wait: the handle sends and returns) and
`EndShutdown`. `Crash` ends the process anywhere and keeps only the log.
`start` and `shutdown` take `&mut self`, so no `emit` is in progress when they begin.

Abstractions: time is the nondeterministic choice of a filter window's end and of
an event's age; a filter's reset and count are one step (a mutex is held over the
reset, and any interleaving of the increments gives the counts the model
reaches). Trust scoring, byte counts, peak depths and the batch statistics are
left out.

### KernelEventList

`Allocate` reads the count without the lock and allocates; `Insert` takes the lock.
`ReadEvents` is the driver's one critical section for a poller's request,
`Broadcast` the loop that publishes, `ClearAfterRead` the request that frees
whatever is in the list by then. Removing a notify routine waits for callbacks in
progress, and a driver with an open handle is not unloaded; both are guards. The
driver may deny a request, which `clear_events` ignores. `reconnect()` has no caller,
so a service that found no driver stays disconnected until the program restarts.
Events carry no content: the driver's timestamps are replaced when user mode
normalises them. The list may exceed `MAX_EVENTS` by one less than the callbacks
that run at once (`Overshoot`), since each reads the count before it takes the lock.

### EventBus

A delivery is known by its ticket, its place in the order in which the mutex of the
subscriber list was taken; the sequence `order` says which event each ticket
carries. `emit` is `Emit` (the send to the journal's channel, before the lock),
`Lock`, one `Deliver` per subscriber (`try_send`) and `Unlock`. `broadcast`, which the
replay calls, is the same without the first step. The list only grows, and
`subscribe` waits for the same lock. A subscriber other than storage takes from its
channel whenever it likes (`Receive`).

The journal worker is `JournalOpens` (or ends, and its channel with it),
`JournalReceive`, `JournalBatchEnds` when the channel is empty or the batch is full,
and `AppendBatch`, whose transaction commits or is forgotten. `replay_journal` runs on
the main thread through its own connection: `OpenReplay` reads the watermark (0 when
it cannot) and the rows past it, `ReplayRow` broadcasts the next, `SetWatermark` ends,
with an update that may fail. The storage actor is `StorageReceive`, `StorageTimeout`
and `FlushBatch`, in which any subset of the batch is written: a failed transaction
writes none, a failed insertion misses one. `initialize_platform` only spawns the
threads: each subscribes when it gets there, and nothing makes the replay wait.
`Crash` is the end of the process, orderly or not, and keeps the two databases. The
history `due` collects the tickets of every walk begun after the storage actor subscribed,
so that `StorageExact` can say of each where it is: still to be sent, waiting, written or
missed.

Consequences worth knowing: the journal's order need not be the bus's order, and an
event may be stored before it is journaled (the comment at `telemetry/journal.rs:7` says
"persisted here before broadcast"); the watermark moves only during a replay, so
that a restart replays all of the last session.

Abstractions: an event is emitted once; the type, content and table of an event, the
counter `emit_count` and the two policies `subscribe` never sets are left out; every row
deserializes; a power loss, after which `synchronous=NORMAL` may lose committed
transactions, is not modelled; `prune_before` and `count` have no caller.

### Endpoint

`Endpoint` puts ten machines that share types and no state into one specification: the
variable `subject` says which of them a behaviour is about, the others stay as they start.
Nothing is claimed about their interleaving, which the code does not have: the live parts
meet on the bus and the fabric (`EventBus`, `Platform`), and nobody drives two forensic
engines at once. `lib.rs` starts the platform, the correlation actor and the trace
consumer; the background loop, the file monitor and the frontend router are complete and
compiled, and nothing starts them.

### Forensic engines: FilesystemHistory

`Ingest` is `ingest_one` of the timeline with its eviction and the rebuilding of its
indices, and `ingest_events` of the graph, which makes room by removing its oldest node.
`RunRules` is `correlate`, `analyze_all` with its snapshot, and what they add to the graph.
Queries (`FileLifecycle`, `AttackChains`, `DirectoryStateAt`, `SubgraphForFile`) are
operators, compared with what was ingested. Names are model values whose traits
(executable, temporary, in a user's directory) are what the rules look for. Time is in
ticks, `TicksPerSecond` of them a second, and ages are cut to whole seconds as in the code.
`analyze_all` calls a timestomping detector that finds nothing, since no event is ever given
`mft_timestamps`, and the slack detector, whose sampling of another component's table is the
choice `residual` of its one possible finding.

Consequences worth knowing: eviction renumbers the graph's vector but not the map's
indices, so that a lookup after it may return another node (`MapKnowsTheNodes` says what
still holds, `SubgraphIsNear` stops at the first eviction); creations, deletions and renames
are never evicted; a creation and its deletion in different batches are a rapid deletion
for the timeline and none for the correlation rules (`DetectorsAgree` has one direction
only); a chain shows the creation found when it is asked for, which may be later than the
deletion (`ChainsAreReal` is about which files are reported); the volume information the reader
gives to `analyze_journal` is a static zero, so that the journal looks wiped at every
analysis and can never look recreated; the graph's edges from a chain start at an
identifier that is never a node.

### UsnJournal

The data is a sequence of records and gaps, in cells of 8 bytes, the step of the search.
It is assumed that nothing but the beginning of a record looks like one: `try_valid_at` accepts
any aligned cell with a plausible length and version, and bytes inside a record or a gap that
look like a header would be taken for one; the model has no such data.
`Fill`, `Take`, `SkipGap` and `EndOfData` are the branches of `next_record`. The monitor's
`ReadNewRecords` asks the volume from its watermark on, and reads the answer with the
same reader. The data's items have positions, so that nothing is cut off or re-read by
construction.

Consequences worth knowing: a search that finds no record keeps the last 256 bytes, more
than the 64 below which the buffer is filled again, so that the same cells are searched for
ever, whatever follows them in the file (theorem `FailedSearchIsFinal`; the counter
`skipped_gaps` grows, capped by `MaxGaps`). The reader therefore ends only on data in which every
window but a remainder under 64 bytes begins with a whole record. The watermark is the last
record's own USN, so that each poll returns that record again.

### VolumeForensics

`ReadJournal` and `ParseLogFile` give the journal's records and the log's ghosts. Then three
loops read the file table, one record a step: `ListNext` is `read_all` for the rules, `KnowNext`
the `read_all` inside `correlate_with_usn`, `MatchNext` its loop over the events with a
`read_record` each; `EndLoop` goes on to the next and `Judge` runs the rules. The volume is
live (it is opened with `FILE_SHARE_WRITE`): between any two reads `Rewrite` may change a
record, and any read may fail (`Reads`). The history `disturbed` has the numbers of the
records this happened to, and the properties speak of the others. The parser, the matching
and `correlate_with_usn` have no caller but tests; the order of the stages is the one that
fills a `RuleContext`.

A page of the transaction log is given by what the walk of `process_rcrd_page` meets on it:
log records with or without journal data (`redo`, `other`), bare journal records, and lengths
the walk stops at (`Stop`). The walk takes a bare record's length for a log record's and goes
over it; only what lies behind a stop is slack. A name is bounded without the record's
position in the data (`overhangs`), so that one of a later record may run past the end: the
parser panics, the examination ends there (`"panicked"`), and nothing is claimed of it. A
restart page may name any offset that carries a record page, also between pages (`inner`).

The table's byte offset is stored in `mft_size`, and used both as the size that bounds the
record number and as the start of every read (`TotalRecords`, `ReadRecord`): on the modelled
disks both count slots. A record's name is that of its first link and its parent that of its
last. Pages a restart page refers to are parsed twice, and their ghosts listed twice. Times
are whole seconds here. No property is about the rules' results: `Judge` is the last step of an
examination and stands for `evaluate_all`, one handler that runs and sorts all ten.

### Platform: EventFabric, GraphIntelligence, Investigations

`Emit` is `legacy_emit` up to the fan-out: it counts, sends to the bridge nobody reads, and
puts the event into the queue of its priority, which nothing empties. A Critical event that
finds its queue full never returns: `Emit` is then disabled for it, and, since the caller is
the only bridge, a behaviour in which it is next ends there. `TrySend` tries each
subscriber of the map in any order. The consumer ingests into the graph (`IngestLive`) and
passes over the investigations (`BeginRouting`, `AddTimelineEntry`, `AddEvidence`,
`EndRouting`), one step per access to a concurrent map; an investigation created meanwhile
may be met by the pass or not. `OpenDetail` and `CopyNext` copy evidence and timeline one
after the other. `joined`, `since` and `consumed` are history.

`IngestLive` is one step although `ingest_event` touches several concurrent maps in turn:
the consumer is their only writer, and the property is about the graph between two events;
a query in the middle of one may see a node without its edge.

The graph's tables are kept in the order last seen, of which a full table loses the first
quarter; adjacency lists and counters are never pruned. The entity of an investigation
has an identifier that no node has, so that its graph is always empty;
`update_session` inserts what it was given, also a session closed meanwhile.

### CorrelationActor and FrontendRouter

An event is appended to its window, the window is pruned, the rules for its kind look at
the windows, and what they find is emitted on the same bus and received later
(`FromItself`). Time passes by `Pass`, a long one only when nothing waits. The graph's
writes may fail one by one (`Persist`). Events of the other actor that `lib.rs` starts on
the same bus come as `FromOthers`; that both write the same database is not modelled.
`Recent` compares ages as the code does; names and addresses are model values with traits.

`RouteTo` is one subscriber of a route, under the lock that `SubscribeTo` needs; it sends, and
`CountRouted` counts what became of it, while the streamer may have the envelope already
(`StreamExact` allows for the one count still due). A `Block`
subscriber with a full channel disables it (`Waits`); the other policies both `try_send`,
so that `DropOldest` drops the newest. A streamer is `StreamTakes`, `StreamIdles` and
`StreamEnds`; a stopped one leaves its subscription behind, which counts drops for ever.

### TraceConsumer, ProcessTracking, FileMonitor

`TraceConsumer`: the kernel's records come in order; a load is submitted, then emitted; the
worker takes a job, verifies (from the cache, when the verdict is fresh) and emits the load
again. The verdict may be on the bus before the load. `ProcessTracking`: nothing asks whether
a loop runs, so that each `StartMonitoring` makes a loop with pids and ticks of its own; a tick
holds the state's lock (`reporting`) from `BeginTick` to `EndTick`. It finds what there is to
report, findings before creations before terminations, and `Tell` sends each report to its
channels one after the other, in the order of the code for its kind (`Outlets`). What runs only
every fifth or tenth tick does so in the model. Nothing in the repository calls
`start_background_monitoring`, or writes `monitoring_active` (`Deactivate` is an outside step);
the loop's own poll of the driver (`KernelEventList`'s second poller) exists only in a program
that starts it. A process that starts and ends between two ticks, or a pid used again between
them, is in no report, and no property can catch that.
`FileMonitor`: each start has its own vector and flag; `BeginStop` and `Join` hold the
monitor, as `&mut self` does, and wait for ever for a watcher of an earlier start whose flag
nobody raised.

## 3. Runs

| Run | Checks | Shows |
|---|---|---|
| `ReplayJournal` | `TypeOK`, `AckedIsRecoverable`, `CounterNeverAhead`, `ImplementsLog` | durability through failed writes, crashes and power loss, and refinement of the log |
| `ReplayJournalMarker` (violation) | `AckedIsReadable` | the periodic checkpoint marker hides every later record from replay |
| `IngestionPipeline` | `OnePlace`, `MetricsBalance`, `QueueDiscipline`, `SurvivesOneCrash` | two producers of Critical events, both workers, a shutdown or crash anywhere, a second session that replays; and rate-limited events that compete with the heartbeat for the Low channel |
| `IngestionPipelineLive` | `SendersProceed`, `EverythingSettles` | with its workers running no sender waits for ever and no event stays |
| `IngestionPipelineNew` (violation) | `ConstructorReturns` | replay into a full Critical channel blocks `new()` before any worker exists |
| `IngestionPipelineReplay` (violation) | `UnprocessedIsReplayed` | replay cuts off the last record before it is processed: a second crash loses its event |
| `KernelEventList` | `TypeOK`, `ListDiscipline`, `OneHolder`, `EachPollerKeepsOrder`, `ListIsEmptied` | two callbacks, two pollers, loads, unloads and restarts |
| `EventBus` | `TypeOK`, `OneOrder`, `JournaledOnce`, `WatermarkCovers`, `StorageExact` | two emitters and the replay share the bus while worker and storage actor batch, fail and die |
| `EventBusLive` | `StorageFlushes`, `JournalCatchesUp` | neither batch keeps an event for ever |
| `Endpoint` | 18 invariants, below | each of the ten machines from the common initial state |
| `EventBusReplay` (violation) | `StoredOnce` | a restart stores the events of the last session a second time |
| `EventBusSubscribers` (violation) | `ReplayReachesStorage` | a replay faster than the storage actor's start moves the watermark past rows nobody received |

The invariants of `Endpoint`:

| Invariant | Says |
|---|---|
| `QueriesAgree` | the timeline's queries, through its indices, answer with exactly the kept events |
| `ChainsAreReal` | a file is reported as short-lived exactly when some deletion followed its creation within the window |
| `DetectorsAgree` | what the correlation rules call a rapid deletion the timeline does too (one direction only) |
| `MapKnowsTheNodes` | the graph's map has the identifiers of its vector, and no index past its end |
| `SubgraphIsNear` | before an eviction, a file's subgraph has the file and only nodes within the depth |
| `NoRecordLost` | the reader returns the first records of the data in order, and all of them when it ends |
| `MonitorSkipsNothing` | polls return every record up to the watermark, repeating only the one at it |
| `GhostsAreWhatIsMissing` | the ghosts are what the log holds where the parser looks, and the journal does not, once for each time a page is come by |
| `AnomaliesAreOrphans` | the two ways to match journal and file table agree on every record left alone meanwhile |
| `ViewsDifferByDrops` | the events some view of the fabric lacks are as many as `total_dropped` |
| `TimelineIsComplete` | an investigation's timeline and evidence are what the consumer took since it was there |
| `DetailsAreConsistent` | a copy for the UI has the timeline entry of everything in its evidence |
| `TraversalFindsNeighbours` | whatever was evicted, a walk finds the held nodes within its depth and the edges that leave them |
| `ChainHoldsTheRest` | a chain goes on to what its process did next, unless the link was lost or lies behind too many children |
| `StreamExact` | the frontend is shown in order what it asked for, and the counters say what it was not, but for the count still due |
| `LoadsAreVerified` | loads and verdicts match, whichever comes first |
| `KnownPidsReplay` | each loop tells every channel the same, alternating story of a process, which gives its known pids |
| `RecentHasNoHoles` | what is seen of a directory is a gapless run of its events, up to the latest |

Bounds. `ReplayJournal`: two threads, three events, a checkpoint every two records,
two crashes, one failed call, one explicit checkpoint: enough for a marker between
records of two threads, a record left in the buffer and written by the other
thread, and a crash during the recovery from a crash. `IngestionPipeline`: channels
of one place, two events, batches of two, two failed appends (`MaxFailures`), two sessions
(three for the run about a second crash): a full channel, both workers at one channel, a
shutdown with events left. `IngestionPipeline` has four events, one heartbeat and a rate limit of one; its constraint
`Scenario` keeps apart the session with rate-limited events and the two sessions with
Critical ones. `KernelEventList`: a list of two, a buffer of two, four events: the overshoot,
a partial read, a clear that frees unread events. `EventBus`: two emitters beside the
replaying thread, storage and one other subscriber, channels of one place, batches of
two, two events, two sessions: two threads at the lock, a full channel, a partial
flush, rows appended during a replay, a crash before and after the watermark;
emitters and events are symmetric. Its liveness run has one emitter, storage alone
and no symmetry. Every capacity of the code is a
constant of the module, so that the bound is reached.

`Endpoint`: four filesystem events from eight templates, three ticks to a second and pauses of 91 of
them (two make 60 2/3 s, of which the division leaves 60, the window), a timeline of two and a graph of
four nodes, so that both evict, and batches cut anywhere; every layout of up to four
records and gaps, some longer than the overlap, and four records of a live volume with
three polls; three disks, three logs, two journal records, and one record of the table that is
rewritten or not read (`MaxDisturbed`; in three ways, `Rewrites`), so that each pass may meet it
another way; three events on the
fabric with channels of one place and queues of two, two investigations, one session; six
events of eight kinds in a live graph of four nodes and four edges (two evictions); four
events of the actor with pauses within and past a window, fan-out two; three envelopes,
two subscribers with different filters and policies; three trace records of two
processes; two loops of two ticks each beside each other, two processes, one of them started
later, one kind of finding (`FindingKinds`: one told to two channels in another order than a
process's reports is enough to put something between these); two starts of two watchers with four
changes and room for two. The constraint `Scenario` bounds what is combined with what: a
session is opened before anything happens, the streamer and investigations are not in one
behaviour, one lost write or one pause or one restart of the actor, subscribers of the router
that come within one envelope of each other.

`CHECK_DEADLOCK FALSE` is set where the system may stop: a bound used up (`Endpoint` too), a
bridge blocked for ever on a full queue, an examination that is over, a
constructor blocked for ever, the rejected journal file, the last session of the
event bus. `KernelEventList` never
stops, and its deadlock check is on.

Fairness. `IngestionPipeline!FairSpec`: threads and tasks that can take a step take
it (weak fairness: the threads are the operating system's, the tasks tokio's). A
worker whose signal was sent does end (strong fairness on `EndWorker`: `select!`
polls its branches in random order, and the timer branch is not ready on every
poll). Nobody is obliged to emit, start, stop or crash. `KernelEventList!FairSpec`:
a callback that has allocated goes on to insert, a polling thread polls.
`EventBus!FairSpec`: a thread inside the bus, the journal worker, the storage actor and
the replay go on, each a thread of the operating system (weak fairness); nobody is
obliged to emit, to subscribe, to start or to crash.

`Endpoint` has safety properties only and needs no fairness.

States: `IngestionPipeline` 1.7 million distinct, `EventBus` 1.4, `Endpoint` 1.5, each in about two
minutes with two workers; `EventBusLive` 120,000, `IngestionPipelineLive` 58,000.

Comments that the code contradicts, found while modelling and not given a run each; the models
do what the code does:

- `investigation/timeline.rs:6` "Auto-create timeline entries from events for all matching
  investigations": line 13 adds every event to every investigation, whatever its entity
  (`TimelineIsComplete` states this).
- `forensic/logfile.rs:168` "Also check page slack (unused space at end of page)": the walk over
  log records takes the length field of a journal record for a log record's and goes over it; the
  slack begins behind it, and the record is no ghost. Only what follows a length below 8 or past
  the page is searched.
- `forensic/mft.rs:514` "Returns orphan entries (present in USN but not in MFT)": `total_records`
  is the table's offset in records (line 202), so that later records are never listed and their
  events are orphans.
- `forensic/detection.rs:205` "Check SI vs FN timestamp mismatch": the name's standard time, which
  the parser always sets to 0 (`mft.rs:449`), is compared instead of its own, so that a file whose
  two creation times agree is reported.

Known behaviours without a run of their own: `shutdown()` signals the workers and
returns, and a worker that takes the signal leaves what is in its channels; the
driver's list overshoots its limit as above (`ListDiscipline` states the bound that
holds); a worker handles some 1,000 events a second (256 per tick of 250 ms) against the
10,000 its queues are described for, a rate that a model without a clock does not see; a
driver started after the services were built is never polled (`reconnect()` has no caller);
the exit of a thread is reported as the end of its process
(`kernel/IntegrityMonitor.c:692`); the walk over ancestors in `core/lifecycle.rs:208` does
not end when two processes name each other; the bridge channel of `telemetry/fabric.rs:94`
grows for ever; a hash asked for before the trust (`core/process_monitor.rs:55`) caches an
unsigned verdict; `forensic/storage.rs` stores chains one by one outside a transaction.

## 4. Proofs

TLAPS checks, for every value of the constants:

- `ReplayJournalProofs`: `TypeCorrect` (`[]TypeOK`), `Durability`
  (`[]AckedIsRecoverable`) and `Refinement` (`Spec => ImplementsLog`). `AckedIsRecoverable`
  alone is not inductive: `SyncData` acknowledges an event, and nothing in it says that
  the event is in the file. The invariant adds `Ownership` (an event in flight belongs to
  one thread and is not yet acknowledged), `WrittenIsReadable` (past the write, its record
  is in the file behind records only, or the event is shadowed) and `HeaderFirst` (nothing
  is acknowledged before the header is durable). That readable items stay so when the
  file grows is a lemma about concatenation. In the refinement, `SyncData` is `Accept`
  (or, for a shadowed event, a stutter),
  `Replay` is the recovery, whose result must hold every accepted event that is not
  shadowed, and the other steps stutter.
- `KernelEventListProofs`: `TypeCorrect` and `CountedAndBounded`
  (`[]ListDiscipline`). The bound holds because every source that has passed the
  check holds an entry: the list and the entries together never exceed `MAX_EVENTS`
  by more than the number of other sources. `IsFiniteSet(Sources)` is the assumption
  (processors are finitely many).

- `EventBusProofs`: `TypeCorrect`, `SubscribersAgree` (`[]OneOrder`), `NoRowIsSkipped`
  (`[]WatermarkCovers`) and `StorageKeepsEach` (`[]StorageExact`), from the assumptions of
  `BusAssumption` alone. `OneOrder` is not inductive: that the ticket appended to a
  channel is the greatest there follows from `LockHeld` (whoever walks the list holds
  the lock and has the newest ticket, and no subscriber is in the list twice) and
  `TicketIsNew` (a subscriber the walk has still to reach has seen older tickets
  only). `WatermarkCovers` needs `ReplayProgress`: every row behind the replay has been
  broadcast, but for the one in its hands. `StorageExact` needs `StorageInOrder`, written
  tickets precede those of the batch, which precede the channel's, and `Accounted`: what was due
  is still to be sent (`Coming`), or in one of the places, where each step moves it from one to
  the next.
  `EachEventJournaledOnce` (`[]JournaledOnce`) rests on `JournalInv`: the worker's channel, its
  batch and the table each hold an event once, share none with each other or with
  `unjournaled`, and with it hold all that was emitted.
- `ReplayJournalProofs!CounterBehindFile` (`[]CounterNeverAhead`). The counters are updated
  after the mutex is released; `CounterInv` adds that a thread is idle unless the journal is up,
  and every record beyond the counters has a thread at `"count"`. Threads are finitely many
  (`ThreadsAssumption`).
- `KernelEventListProofs!EachEventOnce` (`[]OneHolder`) and `PollersKeepOrder`
  (`[]EachPollerKeepsOrder`). `PlaceInv` says that the parts (callbacks' hands, list, pollers'
  batches, broadcast, refused, lost) hold no event twice, are disjoint, and together hold what was
  raised; `Resting`, that an unloaded driver and a sleeping poller hold nothing. For the order,
  `OrderInv` adds that what any poller ever got precedes in `arrivals` all that is still listed:
  a request takes from the head, and `ClearEvents` only removes.
- `IngestionPipelineProofs`: `TypeCorrect` (`StateInv`: types, what each thread has in hand at each
  step, nothing running while down), `ChannelsKeepTheirRules` (`[]QueueDiscipline`, from
  `ChannelInv`: a channel holds what the router sends to it, up to its bound),
  `EachEventOnce` (`[]OnePlace`), `OneCrashLosesNothing` (`[]SurvivesOneCrash`) and
  `CountersAddUp` (`[]MetricsBalance`). `PlaceInv` is the driver's argument again over
  backlog, hands, four channels and two batches; `FirstCrash` adds that the first session
  replays nothing and the second all that the first had accepted. The balance of counters is proved
  step by step of `route`, whose program counter says which of them were already updated; a thread
  between the two counters of a shed event is in `Shedding`.
  `IsFiniteSet(Producers)` is assumed: threads are counted.
- `LiveEventsProofs!StreamsAreExact` (`[]StreamExact`, of `InitRouter /\ [][NextRouter]_routerVars`).
  `RouterInv`: envelopes carry their numbers, and are routed in that order; for each subscriber, what it
  accepted and what it missed make up what it wanted of those routed; and the router's three counters
  are the sizes of the sets they stand for, also in the middle of a route (`turn`).
- `LiveEventsProofs`: `ViewsAreExact` (`[]ViewsDifferByDrops`, from `FabricInv`: the row of each view,
  and `DropsCounted` for a fan-out in progress), `TimelinesAreComplete` (`[]TimelineIsComplete`) and
  `DetailsConsistent` (`[]DetailsAreConsistent`). `CasesInv` is what they need: `PassRules` and `CaseRows`
  say how far the consumer's pass is in each timeline, and `CopyRules` that the evidence copied first is
  a beginning of what the timeline copied later deserves, since an entry precedes its evidence.
- `ForensicProofs`: `QueriesAreExact` (`[]QueriesAgree`), `ReportedFilesWereShortLived` (`[]ChainsAreReal`),
  `EnginesAgree` (`[]DetectorsAgree`) and `GraphKnowsItsNodes` (`[]MapKnowsTheNodes`), of
  `InitHistory /\ [][NextHistory]_historyVars`. `HistoryInv` says what the engines' data are, as sets of
  positions put in order (`InOrder`): each index holds the positions of the kept events of its key
  (`IndexInv`, through any eviction and renumbering); the vectors of creations and deletions are those of
  the whole stream, and a deletion's record says how long after the last creation it came
  (`KeptForGood`); the rules' batch is a rest of the stream; a reported rapid deletion is one of the stream
  (`ChainsHold`: `DetectorsAgree` alone is not inductive, since the store outlives the batch it came from);
  map and vector of the graph agree (`GoodGraph`), through the findings, of which each adds up to two nodes.
  That `directory_state_at_time` ends with the names whose last event left them there is an induction over
  the positions of one recursive function, by a least position at which it would fail (`LeastIs`).
- `ForensicProofs`: `GhostsAreExact` (`[]GhostsAreWhatIsMissing`) and `MatchesAgree` (`[]AnomaliesAreOrphans`), of
  `InitVolume /\ [][NextVolume]_volumeVars`, for a volume rewritten and read in any way. `VolumeInv` says
  that the log is what `Parse` makes of the file and the journal, that what was listed or is known
  of a record left alone is what reading it still gives (`EntriesAreRead`, `KnownAreRead`), that the second
  pass has met every such record behind it (`ReadAreKnown`), and what the matches say of theirs
  (`MatchedIsExact`); `Undisturbed` carries it over a rewrite. `ParseFinds` is an induction over the pages,
  with one over the references of a restart page: the ghosts are as many as the visits to record pages have
  found so far, and are their missing records, before a stop or behind one.
- `ForensicProofs!SubgraphsStayNear` (`[]SubgraphIsNear`, and the same for every depth, `SubgraphsAreNear`). The
  walk is a function over its pops, and the invariant of a pop is `IsNearWalk`: an entry of the stack holds a
  node at most as many edges away as the depth it was pushed with, and every visited node is within the greatest
  depth, since what is near stays near as the depth grows (`NearGrows`). That the map gives each node the
  position it has in the vector, the property's premise, is used at every push.
- `EndpointProofs`: `LoadsAreAllVerified` (`[]LoadsAreVerified`; `TraceInv`: loads emitted and in hand are as
  many as verdicts emitted, being made and waiting, per process and image; a cached verdict has been or is
  about to be emitted), `ChannelsKnowThePids` (`[]KnownPidsReplay`; `TrackingInv`: of each loop every channel was
  told the same of a process, in turns, but for the report in hand, and the loop's reports to come turn that
  into its `known_pids`; only the loop that holds the lock has reports),
  `RecentIsContiguous` (`[]RecentHasNoHoles`, inductive with its types and `StartedOnly`), `NoRecordIsLost`
  (`[]NoRecordLost`), `MonitorDeliversAll` (`[]MonitorSkipsNothing`) and the action property
  `FailedSearchIsFinal`. `ReaderInv` says that the window lies behind all that was returned and before
  every other record, unless the search has failed for good; `MonitorInv`, that the reader is
  on an answer from some record on, and that callers have all records up to it.
  `ChainsHoldTheRest` (`[]ChainHoldsTheRest`) rests on `CorrInv`: a temporal link leads to the next event of the
  same process in the same life, because `last_node_for_pid` holds the latest (`IsLatest`), and every link leads
  forwards. That the walk comes by what follows its root is an induction over its steps: the j-th of them is
  visited before step k or stands j - k + 1 from the head of the queue (`FollowersAreVisited`), and there are no more of
  them than links.
  `TraversalsFindAll` (`[]TraversalFindsNeighbours`, and the same for every depth and every start,
  `TraversalsFindNeighbours`) rests on `GoodLayer`: an edge of the table is listed at both its ends, whatever was
  evicted before. The walk, a function over its pops, keeps `IsBreadth`: there is a `D`, the depth at which each node
  was visited, such that the queue stands in the order of its depths, which differ by at most one and are no less than
  any visited node's, and what is listed at a walked node less than `max` deep is visited no deeper than one more, or
  waits at that depth. `Left`, what is queued and what is listed at nodes not yet walked, falls with every pop, so that
  the queue is empty after one pop more than there are entries in the adjacency lists. That each node within `k` edges
  was then visited no deeper than `k` is an induction over `k`.
  `PartsKeepTheirRules` states the theorems of the router, the platform, the history and the volume for `Spec` of
  `Endpoint`, the specification TLC runs: `PartsOfAStep` shows that a step of `Next` is a step of one machine
  and a stutter of the others, and `EndpointInv` conjoins the invariants of the ten machines.

What is assumed of the constants is in the named assumptions of the modules, which TLC evaluates
in every run: sizes and limits are positive, sentinels (`NoEvent`, `Free`, pid 0, image 0) are none of the
values, a second has ticks (`TicksAssumption`), sets of threads, sources, files and processes are finite, a record names a file, a directory, a name and reasons (`HistoryAssumption`), the kinds of findings are those the loop
reports (`TrackingAssumption`), a disk has an offset and slots, logs are of pages and items, and events refer to a file by numbers
(`VolumeAssumption`), and layouts of a change journal are of aligned records that do not overlap
(`UsnAssumption`: the overlap is at least the 64 bytes of the shortest search, 256 in the code).

The least element of a set of numbers (the first record found, the first difference of two
sequences) is obtained from `WFMin` and the well-foundedness of `<` (lemmas `LeastIs`, `GreatestIs`).

Only model-checked: the liveness properties `ListIsEmptied`, `StorageFlushes`, `JournalCatchesUp`, `SendersProceed`
and `EverythingSettles`, since fairness and ENABLED are beyond the prover. Every invariant and every refinement
that a passing run checks is also proved.

## 5. Plan

Done: every module of section 2 and the theorems of section 4. Left: rotation in
`ReplayJournal`; two correlation actors on one database.

## 6. Not modelled, and why

- Reads of the operating system (memory, handles, threads, PE files, network tables, YARA) and
  the decoding of ETW records and NTFS bytes: what they return is an input of the models.
- `core/lifecycle.rs`, `forensic/storage.rs`, `forensic/export.rs`: nothing calls them.
- `core/supervisor.rs`: every 15 s it compares counters with thresholds over the uptime
  and reports what stands still; it restarts nothing.
- `detection_rules.rs`, `core/scoring.rs`, `telemetry/anti_cheat.rs`, `core/correlation_engine.rs`:
  tables of names and weights, no state and nothing for a model to interleave.
- `rotate_journal` (past 512 MB) and `replay_from_checkpoint` (no caller).
- SQL text, Tauri commands and the frontend: forwarding. The content of events, the wording
  of alerts and timeline entries: data no property here tells apart.
