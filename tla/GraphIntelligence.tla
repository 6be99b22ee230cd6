------------------------- MODULE GraphIntelligence -------------------------
(***************************************************************************)
(* telemetry/graph_intelligence.rs: the graph of live entities.  Nodes and *)
(* edges carry the time they were last seen; a full table gives up the     *)
(* quarter seen longest ago.  Both are kept here in the order last seen:   *)
(* no two updates of one consumer read the same clock.  That consumer is   *)
(* the only writer; an event goes in as one step here, and what is said of *)
(* the layer is said between two events.                                   *)
(***************************************************************************)
EXTENDS LiveEvents, Selections, SequencesExt

CONSTANTS MaxLiveNodes, MaxLiveEdges     \* max_nodes, max_edges
ASSUME LiveGraphAssumption == {MaxLiveNodes, MaxLiveEdges} \subseteq Nat \ {0}

VARIABLE live            \* the layer: nodes, edges, adjacency, nodeCount, edgeCount

LiveEdge(source, target, relation) == [source |-> source, target |-> target, relation |-> relation]

EmptyLayer ==
    [nodes |-> <<>>, edges |-> <<>>, adjacency |-> <<>>, nodeCount |-> 0, edgeCount |-> 0]

\* What was seen now is seen last.
Seen(order, x) == Append(Selected(order, LAMBDA y : y # x), x)

\* evict_oldest and evict_oldest_edge, before an insertion into a full table.
MakeRoom(order, max) ==
    IF Len(order) >= max THEN SubSeq(order, max \div 4 + 1, Len(order)) ELSE order

SeeNode(g, id) ==
    IF id \in ToSet(g.nodes) THEN [g EXCEPT !.nodes = Seen(@, id)]
    ELSE [g EXCEPT !.nodes = Append(MakeRoom(@, MaxLiveNodes), id), !.nodeCount = @ + 1]

\* Mutant: the edge is listed at its source only.
AddLiveEdgeOneWay(g, edge) ==
    IF edge \in ToSet(g.edges) THEN [g EXCEPT !.edges = Seen(@, edge)]
    ELSE [g EXCEPT !.edges = Append(MakeRoom(@, MaxLiveEdges), edge), !.edgeCount = @ + 1,
                   !.adjacency = Append(@, [at |-> edge.source, to |-> edge.target, relation |-> edge.relation])]

\* A new edge is listed at both ends; nothing removes it from there.
AddLiveEdge(g, edge) ==
    IF edge \in ToSet(g.edges) THEN [g EXCEPT !.edges = Seen(@, edge)]
    ELSE [g EXCEPT !.edges = Append(MakeRoom(@, MaxLiveEdges), edge), !.edgeCount = @ + 1,
                   !.adjacency = @ \o <<[at |-> edge.source, to |-> edge.target, relation |-> edge.relation],
                                        [at |-> edge.target, to |-> edge.source, relation |-> edge.relation]>>]

ProcessId(pid) == <<"process", pid>>

\* The node an event is about besides its process, and the edge between the two.  Of a
\* created process that is its parent: the process itself need not become a node.
Subject(e) ==
    CASE e.kind = "ProcessCreated" -> ProcessId(e.ppid)
      [] e.kind = "ImageLoaded" -> <<"module", e.what>>
      [] e.kind = "ThreadCreated" -> <<"thread", e.what>>
      [] e.kind = "FileChanged" -> <<"file", e.what>>
      [] e.kind = "NetworkConnection" -> <<"network", e.what>>
      [] e.kind = "RegistryModified" -> <<"registry", e.what>>
      [] e.kind = "SuspiciousActivity" -> <<"detection", e.what>>
      [] e.kind = "MemoryChanged" -> <<"memory", e.pid, e.what>>

SubjectEdge(e) ==
    IF e.kind \in {"ProcessCreated", "SuspiciousActivity"}
    THEN LiveEdge(Subject(e), ProcessId(e.pid), e.kind)
    ELSE LiveEdge(ProcessId(e.pid), Subject(e), e.kind)

\* ingest_event: a node for the event itself, whose identifier is new every time.
IngestLive(g, e, number) ==
    LET own == SeeNode(g, <<"entity", number, Category(e)>>)
    IN  CASE e.kind \in {"ProcessTerminated", "IntegrityAlert", "SystemHealth"} -> own
          [] e.kind = "RegistryModified" -> SeeNode(own, Subject(e))
          [] OTHER -> AddLiveEdge(SeeNode(own, Subject(e)), SubjectEdge(e))

Neighbours(g, id) == Selected(g.adjacency, LAMBDA x : x.at = id)

\* traverse: a breadth-first walk over a queue of (node, depth).  A node that is gone is
\* not walked through; what is listed at a node but gone from the table is.
Visit(walk, g, maxDepth) ==
    LET id == Head(walk.queue)[1]
        depth == Head(walk.queue)[2]
        listed == Neighbours(g, id)
        found == {x \in ToSet(g.edges) : \E i \in DOMAIN listed : x = LiveEdge(id, listed[i].to, listed[i].relation)}
    IN  CASE walk.queue = <<>> -> walk
          [] walk.queue # <<>> /\ (depth > maxDepth \/ id \in walk.visited) ->
                [walk EXCEPT !.queue = Tail(@)]
          [] walk.queue # <<>> /\ depth <= maxDepth /\ id \notin walk.visited /\ id \notin ToSet(g.nodes) ->
                [walk EXCEPT !.queue = Tail(@), !.visited = @ \cup {id}]
          [] OTHER ->
                [queue |-> Tail(walk.queue) \o [i \in DOMAIN listed |-> <<listed[i].to, depth + 1>>],
                 visited |-> walk.visited \cup {id},
                 nodes |-> walk.nodes \cup {id}, edges |-> walk.edges \cup found]

\* Every pop but the first is of an entry listed at a node.
Traverse(g, start, maxDepth) ==
    LET begin == [queue |-> << <<start, 0>> >>, visited |-> {}, nodes |-> {}, edges |-> {}]
        pops == Len(g.adjacency) + 1
        walk[n \in 0..pops] == IF n = 0 THEN begin ELSE Visit(walk[n - 1], g, maxDepth)
    IN  walk[pops]

ProcessSubgraph(pid) == Traverse(live, ProcessId(pid), 3)

InitLiveGraph == live = EmptyLayer
-----------------------------------------------------------------------------
\* The nodes at most depth edges of the table away from start, over nodes of the table.
Wider(near) ==
    near \cup {id \in ToSet(live.nodes) : \E x \in ToSet(live.edges) :
                  \/ x.source = id /\ x.target \in near
                  \/ x.target = id /\ x.source \in near}
Within(start, depth) ==
    LET near[n \in 0..depth] == IF n = 0 THEN {start} \cap ToSet(live.nodes) ELSE Wider(near[n - 1])
    IN  near[depth]

(* Adjacency is never pruned and the tables are: whatever was evicted, a walk *)
(* from a process still finds every node within its depth in either direction,*)
(* and of every node it finds all the edges that leave it and are still held. *)
TraversalFindsNeighbours ==
    \A id \in ToSet(live.nodes) :
        id[1] = "process" =>
            LET walk == Traverse(live, id, 2)
            IN  /\ Within(id, 2) \subseteq walk.nodes
                /\ walk.edges = {x \in ToSet(live.edges) : x.source \in walk.nodes}
=============================================================================
