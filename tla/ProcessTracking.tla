--------------------------- MODULE ProcessTracking ---------------------------
(***************************************************************************)
(* core/mod.rs: the background loop compares the processes of every tick   *)
(* with those of the last and reports the difference, and whatever its     *)
(* detectors find, on the event bus, in the timeline and to the search     *)
(* index.  Every start makes a loop of its own; a tick holds the lock of   *)
(* the state from its beginning to its end.                                *)
(***************************************************************************)
EXTENDS Integers, FiniteSets, Sequences, SequencesExt

CONSTANTS MonitoredPids,
          FindingKinds,      \* what the detectors may find, of the kinds in KindOrder
          MaxTicks, MaxSpawned,
          MaxMonitors        \* how often the loop is started

Monitors == 1..MaxMonitors
Channels == {"bus", "timeline", "index"}

\* The kinds of reports in the order the loop makes them, and what each is sent to.
KindOrder == <<"injection", "rootkit", "region", "transition", "header", "anomaly", "detection">>
Outlets == [injection |-> <<"timeline", "bus">>, rootkit |-> <<"timeline">>, region |-> <<"bus">>,
            transition |-> <<"bus", "timeline">>, header |-> <<"bus">>, anomaly |-> <<"timeline">>,
            detection |-> <<"timeline", "bus", "index">>,
            created |-> <<"bus", "timeline", "index">>, terminated |-> <<"bus", "timeline", "index">>]

\* Some detectors run every tenth tick only.  Memory is scanned every fifth, but that of
\* a suspicious process every time.
Period == [injection |-> 1, rootkit |-> 10, region |-> 1, transition |-> 1, header |-> 10,
           anomaly |-> 1, detection |-> 1]

\* A report that is not about a process is about 0.
ASSUME TrackingAssumption ==
    /\ IsFiniteSet(MonitoredPids) /\ 0 \notin MonitoredPids
    /\ FindingKinds \subseteq ToSet(KindOrder) /\ MaxMonitors \in Nat

VARIABLES existing,          \* of the system: the running processes
          spawned,           \* how many it ever started
          monitoringActive,  \* monitoring_active
          loops,             \* each start's loop: "new", "running" or "off"
          knownPids, ticks,  \* of each loop: known_pids and tick
          reporting,         \* the loop whose tick holds the lock, or 0
          reports,           \* of this tick, those still to be made
          told,              \* how many channels were told the first of them
          sent               \* what each channel was sent

trackingVars == <<existing, spawned, monitoringActive, loops, knownPids, ticks, reporting, reports, told, sent>>

InitTracking ==
    /\ existing \in SUBSET MonitoredPids /\ spawned = 0
    /\ monitoringActive = TRUE /\ loops = [n \in Monitors |-> "new"]
    /\ knownPids = [n \in Monitors |-> {}] /\ ticks = [n \in Monitors |-> 0]
    /\ reporting = 0 /\ reports = <<>> /\ told = 0
    /\ sent = [c \in Channels |-> <<>>]

\* The system starts and ends processes, and a process number is used again.
Spawn(pid) ==
    /\ pid \notin existing /\ spawned < MaxSpawned
    /\ existing' = existing \cup {pid} /\ spawned' = spawned + 1
    /\ UNCHANGED <<monitoringActive, loops, knownPids, ticks, reporting, reports, told, sent>>

Exit(pid) ==
    /\ pid \in existing
    /\ existing' = existing \ {pid}
    /\ UNCHANGED <<spawned, monitoringActive, loops, knownPids, ticks, reporting, reports, told, sent>>

\* start_background_monitoring asks nobody whether a loop runs.
StartMonitoring(n) ==
    /\ loops[n] = "new"
    /\ loops' = [loops EXCEPT ![n] = "running"]
    /\ UNCHANGED <<existing, spawned, monitoringActive, knownPids, ticks, reporting, reports, told, sent>>

\* Whoever has the state may set the flag, between two ticks.
Deactivate ==
    /\ monitoringActive /\ reporting = 0
    /\ monitoringActive' = FALSE
    /\ UNCHANGED <<existing, spawned, loops, knownPids, ticks, reporting, reports, told, sent>>

StopsMonitoring(n) ==
    /\ loops[n] = "running" /\ reporting = 0 /\ ~monitoringActive
    /\ loops' = [loops EXCEPT ![n] = "off"]
    /\ UNCHANGED <<existing, spawned, monitoringActive, knownPids, ticks, reporting, reports, told, sent>>

\* The detectors run one after the other.
InKindOrder(kinds) ==
    \A i, j \in DOMAIN kinds : i < j =>
        \E m, k \in DOMAIN KindOrder : m < k /\ KindOrder[m] = kinds[i] /\ KindOrder[k] = kinds[j]

\* What is found is not followed by process: 0.  Which loop reports is history.
About(n, kinds) == [i \in DOMAIN kinds |-> [kind |-> kinds[i], pid |-> 0, by |-> n]]
Each(n, kind, pids) ==
    [i \in 1..Cardinality(pids) |-> [kind |-> kind, pid |-> SetToSeq(pids)[i], by |-> n]]

\* Mutant: the processes that are gone remain known.
KnowAll(known, current) == known \cup current

KnowCurrent(known, current) == current

\* refresh_process_list, and what there is to report of it: the findings come first.
BeginTick(n) ==
    /\ loops[n] = "running" /\ reporting = 0 /\ monitoringActive /\ ticks[n] < MaxTicks
    /\ \E found \in SUBSET FindingKinds : \E kinds \in SetToSeqs(found) :
          /\ InKindOrder(kinds) /\ \A kind \in found : ticks[n] % Period[kind] = 0
          /\ reports' = About(n, kinds) \o Each(n, "created", existing \ knownPids[n])
                                        \o Each(n, "terminated", knownPids[n] \ existing)
    /\ knownPids' = [knownPids EXCEPT ![n] = KnowCurrent(@, existing)]
    /\ reporting' = n
    /\ UNCHANGED <<existing, spawned, monitoringActive, loops, ticks, told, sent>>

\* The first report goes to the next of its channels.
Tell ==
    /\ reports # <<>> /\ told < Len(Outlets[Head(reports).kind])
    /\ LET c == Outlets[Head(reports).kind][told + 1]
       IN  sent' = [sent EXCEPT ![c] = Append(@, Head(reports))]
    /\ told' = told + 1
    /\ UNCHANGED <<existing, spawned, monitoringActive, loops, knownPids, ticks, reporting, reports>>

NextReport ==
    /\ reports # <<>> /\ told = Len(Outlets[Head(reports).kind])
    /\ reports' = Tail(reports) /\ told' = 0
    /\ UNCHANGED <<existing, spawned, monitoringActive, loops, knownPids, ticks, reporting, sent>>

EndTick ==
    /\ reporting # 0 /\ reports = <<>>
    /\ reporting' = 0 /\ ticks' = [ticks EXCEPT ![reporting] = @ + 1]
    /\ UNCHANGED <<existing, spawned, monitoringActive, loops, knownPids, reports, told, sent>>

NextTracking ==
    \/ \E pid \in MonitoredPids : Spawn(pid) \/ Exit(pid)
    \/ \E n \in Monitors : StartMonitoring(n) \/ StopsMonitoring(n) \/ BeginTick(n)
    \/ Deactivate \/ Tell \/ NextReport \/ EndTick
-----------------------------------------------------------------------------
\* Where in channel c the n-th loop speaks of a process.
Said(c, n, pid) == {i \in DOMAIN sent[c] : sent[c][i].by = n /\ sent[c][i].pid = pid}
IsOdd(number) == number % 2 = 1

(* However many loops run beside each other, and whatever is reported in       *)
(* between: of a process each loop says its creation first and then in turns,  *)
(* every channel is told the same, one report at most after another, and who   *)
(* follows one loop in one channel knows, between two of its ticks, the        *)
(* processes of its last tick.                                                 *)
KnownPidsReplay ==
    \A pid \in MonitoredPids, n \in Monitors, c \in Channels :
        LET said == Said(c, n, pid)
            number == Cardinality(said)
        IN  /\ \A i \in said :
                  sent[c][i].kind = IF IsOdd(Cardinality({j \in said : j < i})) THEN "terminated" ELSE "created"
            /\ told = 0 => number = Cardinality(Said("timeline", n, pid))
            /\ number - Cardinality(Said("timeline", n, pid)) \in -1..1
            /\ reporting # n => (pid \in knownPids[n] <=> IsOdd(number))
=============================================================================
