-------------------------- MODULE CorrelationActor --------------------------
(***************************************************************************)
(* telemetry/correlation.rs: the actor that watches the bus through four   *)
(* windows of 300 seconds, emits a detection on the same bus when a rule   *)
(* matches, and keeps a graph of the events in a database that outlives    *)
(* it.  A chain is what the graph holds downstream of one event.           *)
(***************************************************************************)
EXTENDS LiveEvents, Selections, SequencesExt

CONSTANTS CorrSamples,       \* events of the other producers of the bus
          CorrTraits,        \* what the rules see in a name, path or address
          Stem,              \* a file's or a program's name without its extension
          CorrPauses, MaxCorr, MaxCorrTime,
          FanOut,            \* edges followed from a node: 20
          ChainRoots,        \* events a chain is built from: the latest 100
          Beacons            \* connections to one address that are still normal: 10
ASSUME CorrAssumption == FanOut \in Nat

VARIABLES windows,           \* the four windows, oldest entry first
          corrNow,           \* the clock, in seconds
          detections,        \* emitted on the bus and not yet received back
          processTable,      \* proc_table, kept by the trace consumer: pid -> name
          stored, links,     \* graph_nodes by node_id, and graph_edges
          lastNode,          \* last_node_for_pid
          life,              \* history: which run of the actor
          received           \* events ingested

corrVars == <<windows, corrNow, detections, processTable, stored, links, lastNode, life, received>>

Windowed == {"ProcessCreated", "ImageLoaded", "FileChanged", "NetworkConnection"}
Stored == Windowed \cup {"SuspiciousActivity", "IntegrityAlert", "SystemHealth"}
EmptyWindows == [k \in Windowed |-> <<>>]

InitCorrelation ==
    /\ windows = EmptyWindows /\ corrNow = 0 /\ detections = <<>> /\ processTable = <<>>
    /\ stored = <<>> /\ links = {} /\ lastNode = <<>> /\ life = 1 /\ received = 0

Age(x) == corrNow - x.at
Recent(w, kind, seconds) == SelectSeq(w[kind], LAMBDA x : Age(x) < seconds)

\* prune_window
Prune(entries, now) ==
    LET old == {i \in DOMAIN entries : \A j \in 1..i : now - entries[j].at > 300}
    IN  SubSeq(entries, Cardinality(old) + 1, Len(entries))

IsSuch(x, trait) == trait \in CorrTraits[x.e.what]
Some(entries, trait) == \E i \in DOMAIN entries : IsSuch(entries[i], trait)
Detection(rule, severity, pid) == Event("SuspiciousActivity", pid, 0, rule, severity)
DetectWhen(condition, detection) == IF condition THEN <<detection>> ELSE <<>>

CheckProcess(w) ==
    LET recent == Recent(w, "ProcessCreated", 60)
        network == w["NetworkConnection"]
        latest == Last(w["ProcessCreated"]).e
        spawned == /\ "lolbin" \in CorrTraits[latest.what]
                   /\ latest.ppid \in DOMAIN processTable
                   /\ "host" \in CorrTraits[processTable[latest.ppid]]
    IN  DetectWhen(/\ Len(recent) >= 3 /\ Some(recent, "office") /\ Some(recent, "shell")
             /\ network # <<>> /\ Age(Last(network)) < 30,
             Detection("office_macro_execution", "high", 0))
        \o DetectWhen(spawned, Detection("lolbin_execution", "medium", latest.pid))

CheckImage(w) ==
    LET latest == Last(w["ImageLoaded"]).e
        foreign == /\ "temp" \in CorrTraits[latest.what]
                   /\ latest.pid \in DOMAIN processTable
                   /\ Stem[latest.what] # Stem[processTable[latest.pid]]
    IN  DetectWhen(foreign, Detection("temp_dll_injection", "high", latest.pid))
        \o DetectWhen(latest.said = "anomalies", Detection("pe_anomaly", "high", latest.pid))

\* Any file of the last two minutes with any process of them, whichever came first.
CheckFile(w) ==
    LET files == Recent(w, "FileChanged", 120)
        processes == Recent(w, "ProcessCreated", 120)
    IN  DetectWhen(\E i \in DOMAIN files, j \in DOMAIN processes :
                 IsSuch(files[i], "program") /\ Stem[files[i].e.what] = Stem[processes[j].e.what],
             Detection("file_execution_correlation", "medium", 0))

CheckNetwork(w) ==
    LET latest == Last(w["NetworkConnection"])
        same == SelectSeq(w["NetworkConnection"], LAMBDA x : x.e.what = latest.e.what /\ Age(x) <= 300)
    IN  DetectWhen(IsSuch(latest, "port"), Detection("suspicious_port", "medium", latest.e.pid))
        \o DetectWhen(IsSuch(latest, "web") /\ Len(same) > Beacons, Detection("potential_beaconing", "high", latest.e.pid))

\* The windows with the event in its own, and the detections that follow from them.
Watch(e) ==
    IF e.kind \notin Windowed THEN [windows |-> windows, found |-> <<>>]
    ELSE LET w == [windows EXCEPT ![e.kind] = Prune(Append(@, [at |-> corrNow, e |-> e]), corrNow)]
         IN  [windows |-> w,
              found |-> CASE e.kind = "ProcessCreated" -> CheckProcess(w)
                          [] e.kind = "ImageLoaded" -> CheckImage(w)
                          [] e.kind = "FileChanged" -> CheckFile(w)
                          [] e.kind = "NetworkConnection" -> CheckNetwork(w)]

CorrLink(src, dst, relation) == [src |-> src, dst |-> dst, relation |-> relation]

\* Mutant: the first event of a process remains its last.
RememberFirst(last, pid, node) ==
    [p \in DOMAIN last \cup {pid} |-> IF p \in DOMAIN last THEN last[p] ELSE node]

Remember(last, pid, node) ==
    [p \in DOMAIN last \cup {pid} |-> IF p = pid THEN node ELSE last[p]]

\* The event becomes a node, linked from the last of its process and, when it creates a
\* process, from the last of the parent; a link that fails is forgotten, and when the
\* insertion fails so is the event.
Persist(e) ==
    LET node == Len(stored) + 1
        temporal == {CorrLink(lastNode[e.pid], node, "temporal") : pid \in {e.pid} \cap DOMAIN lastNode}
        parents == IF e.kind = "ProcessCreated" /\ e.ppid > 0 THEN {e.ppid} \cap DOMAIN lastNode ELSE {}
        parental == {CorrLink(lastNode[pid], node, "parent_child") : pid \in parents}
    IN  \/ /\ stored' = Append(stored, [pid |-> e.pid, life |-> life])
           /\ \E made \in SUBSET (temporal \cup parental) : links' = links \cup made
           /\ lastNode' = Remember(lastNode, e.pid, node)
        \/ UNCHANGED <<stored, links, lastNode>>

IngestCorr(e, waiting) ==
    /\ received' = received + 1
    /\ IF e.kind \in Stored
       THEN /\ windows' = Watch(e).windows /\ detections' = waiting \o Watch(e).found
            /\ Persist(e)
       ELSE detections' = waiting /\ UNCHANGED <<windows, stored, links, lastNode>>
    /\ UNCHANGED life

\* The trace consumer enters the process before it emits its creation.
FromOthers(e) ==
    /\ received < MaxCorr
    /\ processTable' = IF e.kind = "ProcessCreated" THEN (e.pid :> e.what) @@ processTable ELSE processTable
    /\ IngestCorr(e, detections)
    /\ UNCHANGED corrNow

FromItself ==
    /\ detections # <<>> /\ received < MaxCorr
    /\ IngestCorr(Head(detections), Tail(detections))
    /\ UNCHANGED <<corrNow, processTable>>

\* recv_timeout prunes every window after a minute without an event.
Pass(pause) ==
    /\ corrNow + pause <= MaxCorrTime
    /\ pause > 60 => detections = <<>>
    /\ corrNow' = corrNow + pause
    /\ windows' = IF pause > 60 THEN [k \in Windowed |-> Prune(windows[k], corrNow')] ELSE windows
    /\ UNCHANGED <<detections, processTable, stored, links, lastNode, life, received>>

\* The program ends and is started again: the database is all that is left.
RestartCorr ==
    /\ life = 1
    /\ life' = 2
    /\ windows' = EmptyWindows /\ detections' = <<>> /\ processTable' = <<>> /\ lastNode' = <<>>
    /\ UNCHANGED <<corrNow, stored, links, received>>

NextCorrelation ==
    \/ \E e \in CorrSamples : FromOthers(e)
    \/ FromItself
    \/ \E pause \in CorrPauses : Pass(pause)
    \/ RestartCorr
-----------------------------------------------------------------------------
Weight(link) == IF link.relation = "parent_child" THEN 15 ELSE 10
Leaving(node) == {x \in links : x.src = node}

\* The heaviest edges first; of equals the database may return any.
Followed(node) ==
    {x \in Leaving(node) :
        Cardinality({y \in Leaving(node) : Weight(y) > Weight(x) \/ (Weight(y) = Weight(x) /\ y.dst < x.dst)})
            < FanOut}

\* get_chains: breadth-first from a node.  A step takes one entry of the queue, and no
\* edge is followed twice; what is visited does not depend on which is followed first.
VisitNext(walk) ==
    LET node == Head(walk.queue)
        next == InOrder({x.dst : x \in Followed(node)})
    IN  CASE walk.queue = <<>> -> walk
          [] walk.queue # <<>> /\ node \in walk.visited -> [walk EXCEPT !.queue = Tail(@)]
          [] OTHER -> [queue |-> Tail(walk.queue) \o next, visited |-> walk.visited \cup {node}]

CorrChain(root) ==
    LET steps == Cardinality(links) + 1
        walk[n \in 0..steps] ==
            IF n = 0 THEN [queue |-> <<root>>, visited |-> {}] ELSE VisitNext(walk[n - 1])
    IN  walk[steps].visited

Roots == {n \in DOMAIN stored : n > Len(stored) - ChainRoots}

Consecutive(n, m) ==
    /\ n < m /\ stored[n] = stored[m]
    /\ \A k \in n + 1..m - 1 : stored[k] # stored[n]

(* A chain from an event goes on to what the same process did next, as long as *)
(* the actor ran and the link between the two was stored: except that behind   *)
(* FanOut children, whose links weigh more, the process's own next event is    *)
(* lost.  And a chain never goes back in time.                                 *)
ChainHoldsTheRest ==
    /\ \A n, m \in DOMAIN stored :
          Consecutive(n, m) =>
              \/ \A x \in links : x.relation = "temporal" => x.dst # m
              \/ Cardinality(Leaving(n)) > FanOut
              \/ m \in CorrChain(n)
    /\ \A root \in Roots : \A n \in CorrChain(root) : root <= n
=============================================================================
