--------------------------- MODULE ForensicGraph ---------------------------
(***************************************************************************)
(* forensic/graph.rs: the property graph of files, directories, processes  *)
(* and findings.  Nodes are a vector, found through a map from identifier  *)
(* to index; a full graph gives up its oldest node.                        *)
(***************************************************************************)
EXTENDS FilesystemEvents

CONSTANT MaxNodes        \* max_nodes
ASSUME MaxNodesAssumption == MaxNodes \in Nat \ {0}

VARIABLES nodes,         \* identifiers, oldest first
          nodeMap,       \* identifier -> index in nodes
          edges          \* every edge added and not removed

graphVars == <<nodes, nodeMap, edges>>
graph == [nodes |-> nodes, nodeMap |-> nodeMap, edges |-> edges]

NodeId(kind, key) == <<kind, key>>
Edge(source, target, type) == [source |-> source, target |-> target, type |-> type]

EmptyGraph == [nodes |-> <<>>, nodeMap |-> [id \in {} |-> 0], edges |-> <<>>]
InitGraph == nodes = <<>> /\ nodeMap = EmptyGraph.nodeMap /\ edges = <<>>

\* Mutant: the map keeps the removed node.
EvictOldestFromVector(g) ==
    LET removed == Head(g.nodes)
    IN  [nodes |-> Tail(g.nodes), nodeMap |-> g.nodeMap,
         edges |-> Selected(g.edges, LAMBDA x : removed \notin {x.source, x.target})]

\* The oldest node leaves with its edges; the indices of the others stay as they are.
EvictOldest(g) ==
    LET removed == Head(g.nodes)
    IN  [nodes |-> Tail(g.nodes), nodeMap |-> Restrict(g.nodeMap, DOMAIN g.nodeMap \ {removed}),
         edges |-> Selected(g.edges, LAMBDA x : removed \notin {x.source, x.target})]

Insert(g, id) ==
    LET index == [x \in DOMAIN g.nodeMap \cup {id} |->
                     IF x = id THEN Len(g.nodes) + 1 ELSE g.nodeMap[x]]
    IN  [g EXCEPT !.nodes = Append(@, id), !.nodeMap = index]

EnsureNode(g, id) ==
    IF id \in DOMAIN g.nodeMap THEN g
    ELSE Insert(IF Len(g.nodes) >= MaxNodes THEN EvictOldest(g) ELSE g, id)

AddEdge(g, edge) == [g EXCEPT !.edges = Append(@, edge)]

\* A node and the edge from it, as each relation of an event adds them.
Link(g, id, target, type) == AddEdge(EnsureNode(g, id), Edge(id, target, type))

\* ingest_events: the file, its directory, and a relation per reason.  A modification
\* refers to its process without ensuring a node for it.
WithEvent(g, e) ==
    LET file == NodeId("file", e.frn)
        process == NodeId("process", e.pid)
        known == e.pid # NoPid
        contained == Link(EnsureNode(g, file), NodeId("dir", e.parent), file, "Contains")
        created == IF Has(e, "FILE_CREATE") /\ known
                   THEN Link(contained, process, file, "CreatedBy") ELSE contained
        deleted == IF Has(e, "FILE_DELETE") /\ known
                   THEN Link(created, process, file, "DeletedBy") ELSE created
        renamed == IF Renames(e)
                   THEN Link(deleted, NodeId("prev", <<e.frn, e.usn - 1>>), file, "Renamed")
                   ELSE deleted
    IN  IF Modifies(e) /\ known THEN AddEdge(renamed, Edge(process, file, "ModifiedBy")) ELSE renamed

\* ingest_chains: only edges, from an identifier that never becomes a node.
WithChains(g, found) ==
    LET Links(chain) == [i \in DOMAIN chain.events |->
            Edge(NodeId("chain", chain.rule), NodeId("file", chain.events[i].frn), "Correlated")]
        after[n \in 0..Len(found)] == IF n = 0 THEN g.edges ELSE after[n - 1] \o Links(found[n])
    IN  [g EXCEPT !.edges = after[Len(found)]]

\* ingest_findings: a node with a fresh identifier, and the artifact it affects: of
\* each finding there is one.
WithFinding(g, number, affected) ==
    LET id == NodeId("finding", number)
        artifact == NodeId("artifact", affected)
    IN  AddEdge(EnsureNode(EnsureNode(g, id), artifact), Edge(id, artifact, "Correlated"))

WithFindings(g, found, known) ==
    LET after[n \in 0..Len(found)] ==
            IF n = 0 THEN g ELSE WithFinding(after[n - 1], known + n, found[n].affected)
    IN  after[Len(found)]

Becomes(g) == nodes' = g.nodes /\ nodeMap' = g.nodeMap /\ edges' = g.edges

ClearGraph == Becomes(EmptyGraph)
-----------------------------------------------------------------------------
\* Mutant: the walk goes one step further.
TooDeepByOne(at, depth) == at > depth + 1

TooDeep(at, depth) == at > depth

\* get_subgraph_for_file: a depth-first walk over a stack of (index, depth), through
\* the map both ways, taking every edge once.  A node is expanded at the depth at
\* which it is first popped.
WalkStep(walk, depth) ==
    LET top == Last(walk.stack)
        rest == Front(walk.stack)
        id == nodes[top[1]]
        fresh == {i \in DOMAIN edges \ walk.seen : id \in {edges[i].source, edges[i].target}}
        Other(i) == IF edges[i].source = id THEN edges[i].target ELSE edges[i].source
        next == InOrder({i \in fresh : Other(i) \in DOMAIN nodeMap})
        pushed == [k \in DOMAIN next |-> <<nodeMap[Other(next[k])], top[2] + 1>>]
    IN  CASE walk.stack = <<>> -> walk
          [] walk.stack # <<>> /\ (TooDeep(top[2], depth) \/ top[1] \in walk.visited) ->
                [walk EXCEPT !.stack = rest]
          [] OTHER -> [stack |-> rest \o pushed, visited |-> walk.visited \cup {top[1]},
                       seen |-> walk.seen \cup fresh]

\* Every pop but the first is of an entry that some edge pushed.
SubgraphForFile(f, depth) ==
    LET file == NodeId("file", f)
        start == [stack |-> << <<nodeMap[file], 0>> >>, visited |-> {}, seen |-> {}]
        pops == Len(edges) + 1
        walk[n \in 0..pops] == IF n = 0 THEN start ELSE WalkStep(walk[n - 1], depth)
    IN  IF file \in DOMAIN nodeMap THEN {nodes[i] : i \in walk[pops].visited} ELSE {}

ProcessFileGraph ==
    [nodes |-> SelectSeq(nodes, LAMBDA id : id[1] \in {"process", "file", "prev", "artifact"}),
     edges |-> SelectSeq(edges, LAMBDA x : x.type \in {"CreatedBy", "DeletedBy", "ModifiedBy"})]
=============================================================================
