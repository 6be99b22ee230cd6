------------------------- MODULE FilesystemHistory -------------------------
(***************************************************************************)
(* The forensic engines over one stream of filesystem events: the timeline *)
(* and the graph take every event as it comes, the correlation rules and   *)
(* the anti-forensic checks run over what came since their last run, and   *)
(* the graph takes what they report.                                       *)
(***************************************************************************)
EXTENDS ForensicTimeline, ForensicGraph, ForensicFindings

CONSTANTS Templates,     \* what a record may say: an event without usn and time
          Pauses,        \* seconds that may lie between two records
          MaxEvents      \* bound on the length of the stream

ASSUME HistoryAssumption ==
    /\ IsFiniteSet(Files) /\ IsFiniteSet(Pids)
    /\ Templates \subseteq [frn : Files, parent : Directories, name : Names,
                           reason : SUBSET Reasons, pid : Pids \cup {NoPid}]
    /\ Pauses \subseteq Int

VARIABLES batch,         \* events the rules have not run over
          ingested,      \* every event of the stream so far
          findings       \* findings handed to the graph so far

historyVars == <<timelineVars, graphVars, findingsVars, batch, ingested, findings>>

InitHistory ==
    /\ InitTimeline /\ InitGraph /\ InitFindings
    /\ batch = <<>> /\ ingested = <<>> /\ findings = 0

Now == IF ingested = <<>> THEN 0 ELSE Last(ingested).time

\* One record: TimelineEngine::ingest_one and ForensicGraphEngine::ingest_events.
Ingest(t, pause) ==
    LET e == [frn |-> t.frn, parent |-> t.parent, name |-> t.name, reason |-> t.reason,
              pid |-> t.pid, usn |-> 2 * Len(ingested) + 1, time |-> Now + pause]
    IN  /\ Len(ingested) < MaxEvents
        /\ IngestOne(e)
        /\ Becomes(WithEvent(graph, e))
        /\ batch' = Append(batch, e) /\ ingested' = Append(ingested, e)
        /\ UNCHANGED <<findingsVars, findings>>

\* correlate, analyze_all, and their results as nodes and edges of the graph.
RunRules ==
    /\ batch # <<>>
    /\ Correlate(batch) /\ TakeSnapshot
    /\ \E residual \in BOOLEAN : LET found == AnalyzeAll(batch, residual) IN
           /\ Becomes(WithFindings(WithChains(graph, Evaluate(batch)), found, findings))
           /\ findings' = findings + Len(found)
    /\ batch' = <<>>
    /\ UNCHANGED <<timelineVars, ingested>>

Clear ==
    /\ nodes # <<>> /\ Len(ingested) = MaxEvents
    /\ ClearGraph
    /\ UNCHANGED <<timelineVars, findingsVars, batch, ingested, findings>>

NextHistory ==
    \/ \E t \in Templates, pause \in Pauses : Ingest(t, pause)
    \/ RunRules
    \/ Clear
-----------------------------------------------------------------------------
(* What a directory holds at a time: the names whose last event left them     *)
(* there.                                                                     *)
Adds == {"FILE_CREATE", "RENAME_NEW_NAME"}
Removes == {"FILE_DELETE", "RENAME_OLD_NAME"}
TouchesOf(d, n, t) ==
    {i \in DOMAIN events : /\ events[i].parent = d /\ events[i].name = n /\ events[i].time <= t
                           /\ events[i].reason \cap (Adds \cup Removes) # {}}
There(d, t) == {n \in Names : /\ TouchesOf(d, n, t) # {}
                              /\ events[Max(TouchesOf(d, n, t))].reason \cap Removes = {}}

(* ingest_one renumbers every event when it evicts (timeline.rs:98): the      *)
(* queries, which go through the three indices, answer with exactly the kept  *)
(* events of the path, directory or file asked for, in order: none of another *)
(* key, and none past the end of the vector.                                  *)
QueriesAgree ==
    LET Own(f) == Selected(events, LAMBDA e : e.frn = f)
        InRange(index) == \A k \in DOMAIN index : {index[k][i] : i \in DOMAIN index[k]} \subseteq DOMAIN events
    IN  /\ InRange(byFrn) /\ InRange(byParent) /\ InRange(byPath)
        /\ \A n \in Names : EventsForPath(n) = Selected(events, LAMBDA e : e.name = n)
        /\ \A d \in Directories, t \in {events[i].time : i \in DOMAIN events} :
              DirectoryStateAt(d, t) = There(d, t)
        /\ \A f \in Files :
              /\ FileLifecycle(f).modifications = SelectSeq(Own(f), Modifies)
              /\ FileLifecycle(f).filenames = {Own(f)[i].name : i \in DOMAIN Own(f)}

(* attack_chains over what was ever ingested: a file is reported exactly when *)
(* some deletion of it lay within the window after the last creation before   *)
(* it, whatever has been evicted since; its duration is that of the first.    *)
ChainsAreReal ==
    LET CreatedAt(j) == {i \in 1..j : ingested[i].frn = ingested[j].frn /\ Has(ingested[i], "FILE_CREATE")}
        Age(j) == Seconds(ingested[j].time - ingested[Max(CreatedAt(j))].time)
        Short(f) == {j \in DOMAIN ingested : /\ ingested[j].frn = f /\ Has(ingested[j], "FILE_DELETE")
                                             /\ CreatedAt(j) # {} /\ Age(j) \in 0..RapidWindow}
        reported == AttackChains(RapidWindow)
    IN  /\ {c.frn : c \in reported} = {f \in Files : Short(f) # {}}
        /\ \A c \in reported : c.duration = Age(Min(Short(c.frn)))

(* Two engines look for the same thing in different ways, one over batches    *)
(* with a map it consumes, one over vectors it keeps: what the correlation    *)
(* rule reports of a batch, the timeline reports too.                         *)
DetectorsAgree ==
    \A i \in DOMAIN chains :
        chains[i].rule = "rapid_create_delete" =>
            \E c \in AttackChains(RapidWindow) : c.frn = chains[i].events[1].frn

(* ensure_node and its eviction: the map knows the nodes of the vector and no *)
(* others, no identifier is there twice, and the bound holds.                 *)
MapKnowsTheNodes ==
    /\ DOMAIN nodeMap = {nodes[i] : i \in DOMAIN nodes}
    /\ IsInjective(nodes) /\ Len(nodes) <= MaxNodes
    /\ \A id \in DOMAIN nodeMap : nodeMap[id] \in DOMAIN nodes

(* Until a node has been evicted, the subgraph of a file holds the file and   *)
(* only nodes that lie within the depth asked for.                            *)
Adjacent(s) ==
    s \cup {id \in DOMAIN nodeMap : \E i \in DOMAIN edges :
               \/ edges[i].source = id /\ edges[i].target \in s
               \/ edges[i].target = id /\ edges[i].source \in s}
Near(f, depth) ==
    LET near[n \in 0..depth] == IF n = 0 THEN {NodeId("file", f)} ELSE Adjacent(near[n - 1])
    IN  near[depth]

SubgraphIsNear ==
    (\A i \in DOMAIN nodes : nodeMap[nodes[i]] = i) =>
        \A f \in Files : NodeId("file", f) \in DOMAIN nodeMap =>
            /\ NodeId("file", f) \in SubgraphForFile(f, 1)
            /\ SubgraphForFile(f, 1) \subseteq Near(f, 1)
=============================================================================
