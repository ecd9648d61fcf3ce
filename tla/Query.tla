-------------------------------- MODULE Query -------------------------------
(***************************************************************************)
(* One query of crates/query/src/lib.rs from Planner::plan to the response *)
(* budget of crates/api/src/lib.rs, over a graph that does not change      *)
(* while it runs (a snapshot, or a snapshot with a session's overlay).     *)
(*                                                                         *)
(* Loops over an index bucket take its members in any order: the order of  *)
(* a bucket is the order of past writes.  Identifiers are numbers, so that *)
(* the tie-break by identifier is theirs.  Elapsed time is a choice: every *)
(* test of the deadline may find that it has passed.                       *)
(***************************************************************************)
EXTENDS Integers, Sequences, FiniteSets, SequencesExt

CONSTANTS
    NodeIds,            \* node identifiers, natural numbers
    EdgeIds,            \* edge identifiers
    None,               \* an Option that is None
    Cases,              \* pairs of a graph and a request
    MaxResultLimit,     \* MAX_RESULT_LIMIT
    MaxResponseItems,   \* MAX_QUERY_RESPONSE_ITEMS
    MaxStreamItems      \* MAX_STREAM_QUERY_ITEMS

\* A graph as the storage engine keeps it: both ends of an edge are nodes.
IsGraph(g) ==
    /\ \A n \in NodeIds : g.nodes[n] # None => g.nodes[n].score \in Int
    /\ \A e \in EdgeIds : g.edges[e] # None =>
          \E m, n \in NodeIds :
             /\ g.nodes[m] # None /\ g.nodes[n] # None
             /\ g.edges[e] = [source |-> m, target |-> n, type |-> g.edges[e].type]

\* The fields of a request that are numbers, identifiers or directions.
IsRequest(r) ==
    /\ {r.limit, r.max_depth} \subseteq Nat
    /\ {r.source, r.target} \subseteq NodeIds \cup {None}
    /\ r.direction \in {"Outgoing", "Incoming", "Both"}

ASSUME QueryAssumption ==
    /\ NodeIds \subseteq Nat
    /\ IsFiniteSet(NodeIds) /\ IsFiniteSet(EdgeIds)
    /\ {MaxResultLimit, MaxStreamItems} \subseteq Nat
    /\ MaxResponseItems \in Nat \ {0}
    /\ \A case \in Cases : IsGraph(case[1]) /\ IsRequest(case[2])

\* None is neither a node nor an entry of a parent map nor a path.
ASSUME NoneAssumption ==
    /\ None \notin NodeIds
    /\ None \notin [previous : NodeIds \cup {None}, via_edge : EdgeIds \cup {None}]
    /\ None \notin [node_ids : Seq(NodeIds), edge_ids : Seq(EdgeIds)]

VARIABLES
    graph,          \* nodes and edges of the GraphView
    request,
    pc,
    queue,          \* queues of the two sides; a traversal uses "forward"
    parents,        \* forward_parents, backward_parents
    level,          \* entries of the queue that this frontier still expands
    expanding,      \* the node under expansion and what is left of it
    visited_nodes,
    visited_edges,
    candidates,     \* what a scan or a ranking has not looked at yet
    items,          \* the nodes and edges of the response, in order
    ranked,         \* heap, then ranked_results
    path,
    cut             \* a deadline or the limit stopped the search

vars == << graph, request, pc, queue, parents, level, expanding,
           visited_nodes, visited_edges, candidates, items, ranked, path, cut >>

Sides == {"forward", "backward"}
PathKind == "ShortestPath"
ScanKinds == {"GetNodeById", "FilterNodes", "SearchByLabel", "TimeRange"}
RankKinds == {"VectorSearch", "RankedRetrieval"}
Finished == {"done", "rejected", "refused"}

Idle == [side |-> "forward", node |-> None, depth |-> 0, left |-> {}]

-----------------------------------------------------------------------------
(* The view                                                                *)

contains_node(n) == n # None /\ graph.nodes[n] # None

edge_matches(e, n, direction) ==
    /\ graph.edges[e] # None
    /\ \/ direction # "Incoming" /\ graph.edges[e].source = n
       \/ direction # "Outgoing" /\ graph.edges[e].target = n

Neighbor(e, n, direction) ==
    CASE direction = "Outgoing" -> graph.edges[e].target
      [] direction = "Incoming" -> graph.edges[e].source
      [] OTHER -> IF graph.edges[e].source = n THEN graph.edges[e].target
                  ELSE graph.edges[e].source

\* An empty list of labels or edge types constrains nothing.
Admits(list, value) == list = {} \/ value \in list

\* merge_legacy_edge_type: the edge_type of a traversal joins its constraints.
EdgeTypes(r) ==
    r.edge_types \cup (IF r.edge_type = None THEN {} ELSE {r.edge_type})

\* The edges a search follows from n, each with the node it leads to.
expand_neighbors(n, direction) ==
    {<<e, Neighbor(e, n, direction)>> :
        e \in {x \in EdgeIds :
                 /\ edge_matches(x, n, direction)
                 /\ Admits(EdgeTypes(request), graph.edges[x].type)
                 /\ contains_node(Neighbor(x, n, direction))
                 /\ Admits(request.node_labels,
                           graph.nodes[Neighbor(x, n, direction)].label)}}

\* Mutant: the backward side follows edges forward.
SameDirection(d) == d

reverse_direction(d) ==
    CASE d = "Outgoing" -> "Incoming" [] d = "Incoming" -> "Outgoing"
      [] OTHER -> "Both"

Direction(side) ==
    IF side = "forward" THEN request.direction
    ELSE reverse_direction(request.direction)

Other(side) == IF side = "forward" THEN "backward" ELSE "forward"

-----------------------------------------------------------------------------
(* Planner::plan                                                           *)

resolve_required_result_limit(limit) == limit \in 1 .. MaxResultLimit

WithinOptionalTime(n) ==
    LET t == graph.nodes[n].timestamp
    IN  \/ request.from = None /\ request.to = None
        \/ /\ t # None
           /\ request.from # None => t >= request.from
           /\ request.to # None => t <= request.to

\* The validations of the plan; a scan by identifier has none.
Valid(r) ==
    \/ r.kind = "GetNodeById"
    \/ /\ resolve_required_result_limit(r.limit)
       /\ r.kind \in {"Traverse", PathKind} => r.max_depth # 0
       /\ r.from # None /\ r.to # None => r.from <= r.to
       /\ r.kind = "VectorSearch" => r.query_vector
       /\ r.kind = "RankedRetrieval" => r.query_vector \/ r.source # None
       /\ r.kind = "FilterNodes" => r.where.conditions # {}

Reject ==
    /\ pc = "plan"
    /\ ~Valid(request)
    /\ pc' = "rejected"
    /\ UNCHANGED << graph, request, queue, parents, level, expanding,
                    visited_nodes, visited_edges, candidates, items, ranked,
                    path, cut >>

-----------------------------------------------------------------------------
(* Scans                                                                   *)

\* One comparison of a property; no value and a value of another type do not
\* compare.
Holds(n, leaf) ==
    LET v == graph.nodes[n].value
    IN  /\ v # None
        /\ CASE leaf.op = "eq" -> v = leaf.value
             [] leaf.op = "gt" -> v > leaf.value
             [] leaf.op = "gte" -> v >= leaf.value
             [] leaf.op = "lt" -> v < leaf.value
             [] OTHER -> v <= leaf.value

\* And and Or over comparisons, one level of nesting.
node_matches_filter(n, where) ==
    IF where.op = "and" THEN \A leaf \in where.conditions : Holds(n, leaf)
    ELSE \E leaf \in where.conditions : Holds(n, leaf)

\* What the scan keeps of the candidates it looks at.
Matches(n) ==
    CASE request.kind = "FilterNodes" ->
            /\ request.label = None \/ graph.nodes[n].label = request.label
            /\ node_matches_filter(n, request.where)
      [] request.kind = "SearchByLabel" -> graph.nodes[n].label = request.label
      [] request.kind = "TimeRange" ->
            graph.nodes[n].timestamp # None /\ WithinOptionalTime(n)
      [] OTHER -> n = request.source

LiveNodes == {n \in NodeIds : contains_node(n)}

\* Mutant: both directions are read from the outgoing bucket.
NeighborEntriesOutgoing ==
    {<<"Outgoing", e>> : e \in {x \in EdgeIds :
        /\ edge_matches(x, request.source, "Outgoing")
        /\ Admits(EdgeTypes(request), graph.edges[x].type)}}

\* ListNeighbors walks the outgoing bucket of the index, then the incoming one:
\* a loop at the node is in both.  An overlay merges the two into one set.
NeighborEntries ==
    {entry \in (IF request.overlay THEN {request.direction}
                ELSE {"Outgoing", "Incoming"}) \X EdgeIds :
        /\ request.direction \in {entry[1], "Both"}
        /\ edge_matches(entry[2], request.source, entry[1])
        /\ Admits(EdgeTypes(request), graph.edges[entry[2]].type)}

StartScan ==
    /\ pc = "plan"
    /\ Valid(request)
    /\ request.kind \in ScanKinds \cup {"ListNeighbors"}
    /\ pc' = "scan"
    /\ candidates' = IF request.kind = "ListNeighbors" THEN NeighborEntries
                     ELSE LiveNodes
    /\ UNCHANGED << graph, request, queue, parents, level, expanding,
                    visited_nodes, visited_edges, items, ranked, path, cut >>

Emitted == {items[i] : i \in DOMAIN items}
Count(kind) == Cardinality({i \in DOMAIN items : items[i][1] = kind})

\* Mutant: nodes that do not match use up the limit.
LimitReachedByLooking ==
    IF request.kind = "ListNeighbors" THEN Count("edge") >= request.limit
    ELSE Cardinality(LiveNodes) - Cardinality(candidates) >= request.limit

\* The scan has yielded all it may.
LimitReached ==
    /\ request.kind # "GetNodeById"
    /\ Count(IF request.kind = "ListNeighbors" THEN "edge" ELSE "node")
         >= request.limit

\* The next candidate of a label, filter, time or identifier scan.
ScanNode ==
    /\ pc = "scan"
    /\ request.kind \in ScanKinds
    /\ ~LimitReached
    /\ \E n \in candidates :
          /\ candidates' = candidates \ {n}
          /\ items' = IF Matches(n) THEN Append(items, <<"node", n>>) ELSE items
    /\ UNCHANGED << graph, request, pc, queue, parents, level, expanding,
                    visited_nodes, visited_edges, ranked, path, cut >>

\* collect_neighbor_results, one entry: each neighbour once, every edge.
ScanNeighbor ==
    /\ pc = "scan"
    /\ request.kind = "ListNeighbors"
    /\ ~LimitReached
    /\ \E entry \in candidates :
          LET n == Neighbor(entry[2], request.source, request.direction)
          IN  /\ entry[1] = "Incoming" =>
                    \A other \in candidates : other[1] = "Incoming"
              /\ candidates' = candidates \ {entry}
              /\ visited_nodes' = visited_nodes \cup {n}
              /\ items' = items
                    \o (IF n \notin visited_nodes /\ contains_node(n)
                        THEN << <<"node", n>> >> ELSE << >>)
                    \o << <<"edge", entry[2]>> >>
    /\ UNCHANGED << graph, request, pc, queue, parents, level, expanding,
                    visited_edges, ranked, path, cut >>

\* Mutant: only the last candidate ends a scan.
EndScanExhausted ==
    /\ pc = "scan"
    /\ candidates = {}
    /\ pc' = "respond"
    /\ UNCHANGED << graph, request, queue, parents, level, expanding,
                    visited_nodes, visited_edges, candidates, items, ranked,
                    path, cut >>

EndScan ==
    /\ pc = "scan"
    /\ candidates = {} \/ LimitReached
    /\ pc' = "respond"
    /\ UNCHANGED << graph, request, queue, parents, level, expanding,
                    visited_nodes, visited_edges, candidates, items, ranked,
                    path, cut >>

-----------------------------------------------------------------------------
(* Traverse: TraversalExecutionIter                                        *)

StartTraversal ==
    /\ pc = "plan"
    /\ Valid(request)
    /\ request.kind = "Traverse"
    /\ pc' = "traverse"
    /\ IF contains_node(request.source)
       THEN /\ visited_nodes' = {request.source}
            /\ queue' = [queue EXCEPT !["forward"] = << <<request.source, 0>> >>]
            /\ items' = << <<"node", request.source>> >>
       ELSE UNCHANGED << visited_nodes, queue, items >>
    /\ UNCHANGED << graph, request, parents, level, expanding, visited_edges,
                    candidates, ranked, path, cut >>

\* The next queued node: the deadline, the depth and the limit are tested
\* once for it, and not again while it is expanded.
TraversePop ==
    /\ pc = "traverse"
    /\ expanding.left = {}
    /\ queue["forward"] # << >>
    /\ LET n == queue["forward"][1][1]
           depth == queue["forward"][1][2]
       IN \/ /\ pc' = "respond"
             /\ cut' = TRUE
             /\ UNCHANGED expanding
          \/ /\ IF depth = request.max_depth
                     \/ Cardinality(visited_nodes) >= request.limit
                THEN UNCHANGED expanding
                ELSE expanding' = [Idle EXCEPT
                        !.node = n, !.depth = depth,
                        !.left = expand_neighbors(n, request.direction)]
             /\ UNCHANGED << pc, cut >>
    /\ queue' = [queue EXCEPT !["forward"] = Tail(@)]
    /\ UNCHANGED << graph, request, parents, level, visited_nodes,
                    visited_edges, candidates, items, ranked, path >>

\* Mutant: the limit is compared before the node is counted.
NewNodeBeyondLimit(n) ==
    n \notin visited_nodes /\ Cardinality(visited_nodes) <= request.limit

\* Mutant: a node that was seen before is queued and emitted again.
NewNodeAgain(n) == Cardinality(visited_nodes) + 1 <= request.limit

\* visited_nodes.insert returns true and leaves no more than limit.
NewNode(n) ==
    n \notin visited_nodes /\ Cardinality(visited_nodes) + 1 <= request.limit

\* One edge of the node under expansion.
TraverseEdge ==
    /\ pc = "traverse"
    /\ \E next \in expanding.left :
          LET newEdge == /\ Cardinality(visited_edges) < request.limit
                         /\ next[1] \notin visited_edges
          IN  /\ expanding' = [expanding EXCEPT !.left = @ \ {next}]
              /\ visited_nodes' = visited_nodes \cup {next[2]}
              /\ visited_edges' = IF newEdge THEN visited_edges \cup {next[1]}
                                  ELSE visited_edges
              /\ queue' = IF NewNode(next[2])
                          THEN [queue EXCEPT !["forward"] =
                                  Append(@, <<next[2], expanding.depth + 1>>)]
                          ELSE queue
              /\ items' = items
                    \o (IF newEdge THEN << <<"edge", next[1]>> >> ELSE << >>)
                    \o (IF NewNode(next[2]) THEN << <<"node", next[2]>> >> ELSE << >>)
    /\ UNCHANGED << graph, request, pc, parents, level, candidates, ranked,
                    path, cut >>

EndTraversal ==
    /\ pc = "traverse"
    /\ expanding.left = {}
    /\ queue["forward"] = << >>
    /\ pc' = "respond"
    /\ UNCHANGED << graph, request, queue, parents, level, expanding,
                    visited_nodes, visited_edges, candidates, items, ranked,
                    path, cut >>

-----------------------------------------------------------------------------
(* ShortestPath: two breadth-first searches, a level of each in turn       *)

Found(side) == {n \in NodeIds : parents[side][n] # None}
Root == [previous |-> None, via_edge |-> None]

\* Both ends exist; the same node twice is a path of no hops.
StartPath ==
    /\ pc = "plan"
    /\ Valid(request)
    /\ request.kind = PathKind
    /\ LET s == request.source
           t == request.target
       IN \/ /\ contains_node(s) /\ contains_node(t) /\ s # t
             /\ pc' = "path"
             /\ queue' = [forward |-> << <<s, 0>> >>, backward |-> << <<t, 0>> >>]
             /\ parents' = [forward |-> [parents.forward EXCEPT ![s] = Root],
                            backward |-> [parents.backward EXCEPT ![t] = Root]]
             /\ UNCHANGED path
          \/ /\ contains_node(s) /\ s = t
             /\ pc' = "respond"
             /\ path' = [node_ids |-> << s >>, edge_ids |-> << >>]
             /\ UNCHANGED << queue, parents >>
          \/ /\ ~contains_node(s) \/ ~contains_node(t)
             /\ pc' = "respond"
             /\ UNCHANGED << queue, parents, path >>
    /\ UNCHANGED << graph, request, level, expanding, visited_nodes,
                    visited_edges, candidates, items, ranked, cut >>

\* expand_frontier: level_size.
LevelSize(side) == Len(queue[side])

\* The head of the loop: a passed deadline or too many nodes end the search
\* without a path; otherwise the forward side expands the level in its queue.
PathLoop ==
    /\ pc = "path"
    /\ \/ /\ queue.forward = << >> \/ queue.backward = << >>
          /\ pc' = "respond"
          /\ UNCHANGED << level, cut, expanding >>
       \/ /\ queue.forward # << >> /\ queue.backward # << >>
          /\ cut' = TRUE
          /\ pc' = "respond"
          /\ UNCHANGED << level, expanding >>
       \/ /\ queue.forward # << >> /\ queue.backward # << >>
          /\ Cardinality(Found("forward")) + Cardinality(Found("backward"))
                < request.limit
          /\ pc' = "frontier"
          /\ level' = LevelSize("forward")
          /\ expanding' = Idle
          /\ UNCHANGED cut
    /\ UNCHANGED << graph, request, queue, parents, visited_nodes,
                    visited_edges, candidates, items, ranked, path >>

\* expand_frontier takes the next node of the level from its side's queue.
FrontierPop ==
    /\ pc = "frontier"
    /\ expanding.left = {}
    /\ level > 0
    /\ LET side == expanding.side
           n == Head(queue[side])[1]
           depth == Head(queue[side])[2]
       IN  /\ queue' = [queue EXCEPT ![side] = Tail(@)]
           /\ level' = level - 1
           /\ expanding' = [side |-> side, node |-> n, depth |-> depth,
                            left |-> IF depth = request.max_depth THEN {}
                                     ELSE expand_neighbors(n, Direction(side))]
    /\ UNCHANGED << graph, request, pc, parents, visited_nodes, visited_edges,
                    candidates, items, ranked, path, cut >>

\* The chain of parents from a node up to the root of its side.
Chain(side, from) ==
    LET chain[i \in 0 .. Cardinality(NodeIds)] ==
            IF i = 0 THEN << from >>
            ELSE LET p == parents'[side][Last(chain[i - 1])]
                 IN  IF p.previous = None THEN chain[i - 1]
                     ELSE Append(chain[i - 1], p.previous)
    IN  chain[Cardinality(NodeIds)]

Edges(side, nodes) ==
    [i \in 1 .. Len(nodes) - 1 |-> parents'[side][nodes[i]].via_edge]

reconstruct_path(meet) ==
    LET left == Chain("forward", meet)
        right == Chain("backward", meet)
        nodes == Reverse(left) \o Tail(right)
    IN  IF Head(nodes) # request.source \/ Last(nodes) # request.target
        THEN None
        ELSE [node_ids |-> nodes,
              edge_ids |-> Reverse(Edges("forward", left))
                              \o Edges("backward", right)]

\* One neighbour of the node under expansion: seen before, met by the other
\* side, or queued for the next level.
FrontierEdge ==
    /\ pc = "frontier"
    /\ \E next \in expanding.left :
          LET side == expanding.side
              new == next[2] \notin Found(side)
              met == new /\ next[2] \in Found(Other(side))
          IN  /\ parents' = IF new
                    THEN [parents EXCEPT ![side][next[2]] =
                            [previous |-> expanding.node, via_edge |-> next[1]]]
                    ELSE parents
              /\ path' = IF met THEN reconstruct_path(next[2]) ELSE path
              /\ pc' = IF met THEN "respond" ELSE pc
              /\ queue' = IF new /\ ~met
                    THEN [queue EXCEPT ![side] =
                            Append(@, <<next[2], expanding.depth + 1>>)]
                    ELSE queue
              /\ expanding' = [expanding EXCEPT !.left = @ \ {next}]
    /\ UNCHANGED << graph, request, level, visited_nodes, visited_edges,
                    candidates, items, ranked, cut >>

\* A level is expanded: the backward side follows, or the loop starts again.
EndLevel ==
    /\ pc = "frontier"
    /\ expanding.left = {}
    /\ level = 0
    /\ \/ /\ expanding.side = "forward"
          /\ expanding' = [Idle EXCEPT !.side = "backward"]
          /\ level' = LevelSize("backward")
          /\ UNCHANGED pc
       \/ /\ expanding.side = "backward"
          /\ pc' = "path"
          /\ UNCHANGED << level, expanding >>
    /\ UNCHANGED << graph, request, queue, parents, visited_nodes,
                    visited_edges, candidates, items, ranked, path, cut >>

-----------------------------------------------------------------------------
(* VectorSearch and RankedRetrieval                                        *)

\* What is one undirected step away.
Beside(n) ==
    {Neighbor(e, n, "Both") :
        e \in {x \in EdgeIds :
                 /\ edge_matches(x, n, "Both")
                 /\ request.edge_type \in {None, graph.edges[x].type}}}

\* Everything within k undirected steps of a node.
Ball(start, k) ==
    LET within[i \in 0 .. k] ==
            IF i = 0 THEN {start}
            ELSE within[i - 1] \cup UNION {Beside(n) : n \in within[i - 1]}
    IN  within[k]

\* graph_distances: breadth first from the reference node, three steps.
graph_distances ==
    IF request.kind # "RankedRetrieval" \/ ~contains_node(request.source)
    THEN {} ELSE Ball(request.source, 3)

Distance(n) ==
    CHOOSE d \in 0 .. 3 :
        /\ n \in Ball(request.source, d)
        /\ \A k \in 0 .. d - 1 : n \notin Ball(request.source, k)

\* distance_to_score in twelfths, added to what the node itself scores.
Score(n) ==
    graph.nodes[n].score
        + (IF n \in graph_distances THEN 12 \div (1 + Distance(n)) ELSE 0)

\* Mutant: the type of a node is not looked at.
AllowedAny == LiveNodes

\* The nodes of the requested type.  In the index of a snapshot a type without
\* nodes has no bucket, and then nothing is filtered.
Allowed ==
    LET bucket == {n \in LiveNodes : graph.nodes[n].label = request.label}
    IN  IF request.label = None \/ (bucket = {} /\ ~request.overlay)
        THEN LiveNodes ELSE bucket

\* semantic_candidate_ids: every node with a vector, or those of them that the
\* approximate index of a snapshot returns.
SemanticCandidates(returned) ==
    {n \in Allowed : graph.nodes[n].vector} \cap
        (IF request.overlay THEN NodeIds ELSE returned)

\* vector_search ranks the semantic candidates.  ranked_retrieval_candidates
\* adds the reference's surroundings, or falls back to all nodes.
RankCandidates(semantic) ==
    IF request.kind = "VectorSearch" THEN semantic
    ELSE LET near == IF request.query_vector THEN semantic \cup graph_distances
                     ELSE {}
         IN  {n \in IF near # {} THEN near ELSE LiveNodes :
                 WithinOptionalTime(n)}

StartRanking ==
    /\ pc = "plan"
    /\ Valid(request)
    /\ request.kind \in RankKinds
    /\ \E returned \in SUBSET NodeIds :
          candidates' = RankCandidates(SemanticCandidates(returned))
    /\ visited_nodes' = candidates'
    /\ pc' = "rank"
    /\ UNCHANGED << graph, request, queue, parents, level, expanding,
                    visited_edges, items, ranked, path, cut >>

\* The order of RankedHeapEntry and of sort_ranked_results.
Before(m, n) == Score(m) > Score(n) \/ (Score(m) = Score(n) /\ m < n)

Worst == CHOOSE n \in ranked : \A m \in ranked : m = n \/ Before(m, n)

\* Mutant: a candidate that ties with the worst replaces it.
Replaces(n) == Score(n) >= Score(Worst)

\* push_top_ranked_result: should_replace.
should_replace(n) == Before(n, Worst)

\* push_top_ranked_result keeps at most limit results.
PushRanked ==
    /\ pc = "rank"
    /\ \E n \in candidates :
          /\ candidates' = candidates \ {n}
          /\ ranked' = IF Cardinality(ranked) < request.limit
                       THEN ranked \cup {n}
                       ELSE IF should_replace(n)
                            THEN (ranked \ {Worst}) \cup {n} ELSE ranked
    /\ UNCHANGED << graph, request, pc, queue, parents, level, expanding,
                    visited_nodes, visited_edges, items, path, cut >>

\* sort_ranked_results: the result with i - 1 results before it.
sort_ranked_results(i) ==
    CHOOSE n \in ranked : Cardinality({m \in ranked : Before(m, n)}) = i - 1

\* finalize_top_ranked_results; each result is also a node of the response.
EndRanking ==
    /\ pc = "rank"
    /\ candidates = {}
    /\ items' = [i \in 1 .. Cardinality(ranked) |->
                    <<"node", sort_ranked_results(i)>>]
    /\ pc' = "respond"
    /\ UNCHANGED << graph, request, queue, parents, level, expanding,
                    visited_nodes, visited_edges, candidates, ranked, path,
                    cut >>

-----------------------------------------------------------------------------
(* The response                                                            *)

PathItems ==
    IF path = None THEN 0 ELSE Len(path.node_ids) + Len(path.edge_ids)

\* The nodes and edges of a path are in the response beside the path.
StreamItems == Len(items) + 2 * PathItems
\* Mutant: a ranked result is counted once more.
ResponseItemsAgain == StreamItems + 2 * Cardinality(ranked)

\* A buffered response holds a ranked result and its node.
ResponseItems == StreamItems + Cardinality(ranked)

\* enforce_query_response_budget, or push_stream_frame on the stream routes.
Respond ==
    /\ pc = "respond"
    /\ pc' = IF \/ request.stream /\ StreamItems > MaxStreamItems
                \/ ~request.stream /\ ResponseItems > MaxResponseItems
             THEN "refused" ELSE "done"
    /\ UNCHANGED << graph, request, queue, parents, level, expanding,
                    visited_nodes, visited_edges, candidates, items, ranked,
                    path, cut >>

Init ==
    /\ \E case \in Cases : graph = case[1] /\ request = case[2]
    /\ pc = "plan"
    /\ queue = [side \in Sides |-> << >>]
    /\ parents = [side \in Sides |-> [n \in NodeIds |-> None]]
    /\ level = 0
    /\ expanding = Idle
    /\ visited_nodes = {}
    /\ visited_edges = {}
    /\ candidates = {}
    /\ items = << >>
    /\ ranked = {}
    /\ path = None
    /\ cut = FALSE

Next ==
    \/ Reject
    \/ StartScan \/ ScanNode \/ ScanNeighbor \/ EndScan
    \/ StartTraversal \/ TraversePop \/ TraverseEdge \/ EndTraversal
    \/ StartPath \/ PathLoop \/ FrontierPop \/ FrontierEdge \/ EndLevel
    \/ StartRanking \/ PushRanked \/ EndRanking
    \/ Respond

\* The thread of the request runs on.
Spec == Init /\ [][Next]_vars /\ WF_vars(Next)

-----------------------------------------------------------------------------
(* Properties                                                              *)

\* Reference: the edge leads from m to n in the direction of the request.
Leads(e, m, n) ==
    /\ graph.edges[e] # None
    /\ Admits(EdgeTypes(request), graph.edges[e].type)
    /\ \/ request.direction # "Incoming" /\ graph.edges[e] =
             [source |-> m, target |-> n, type |-> graph.edges[e].type]
       \/ request.direction # "Outgoing" /\ graph.edges[e] =
             [source |-> n, target |-> m, type |-> graph.edges[e].type]
Hop(m, n) == \E e \in EdgeIds : Leads(e, m, n)
Labelled(n) == contains_node(n) /\ Admits(request.node_labels, graph.nodes[n].label)

\* Reference: the labelled nodes that exactly k hops over labelled nodes reach.
Reached(k) ==
    LET after[i \in 0 .. k] ==
            IF i = 0 THEN {request.source}
            ELSE {n \in NodeIds :
                    Labelled(n) /\ \E m \in after[i - 1] : Hop(m, n)}
    IN  after[k]
ReachedWithin(k) == UNION {Reached(i) : i \in 0 .. k}
HopsTo(n) == CHOOSE k \in 0 .. Cardinality(NodeIds) :
                n \in Reached(k) /\ n \notin ReachedWithin(k - 1)

Answered(kinds) == pc \in {"done", "refused"} /\ request.kind \in kinds
NodeAt(i) == items[i][2]
NodePlaces == {i \in DOMAIN items : items[i][1] = "node"}
EdgePlaces == {i \in DOMAIN items : items[i][1] = "edge"}
NoRepeats(places) == \A i, j \in places : items[i] = items[j] => i = j

\* A traversal that no deadline stopped returns every node within max_hops,
\* or limit of them, and below the limit every edge it may follow there,
\* although the limit and the depth are tested at one place and the nodes are
\* counted at another.
TraversalExact ==
    Answered({"Traverse"}) /\ ~cut /\ contains_node(request.source) =>
        LET reach == ReachedWithin(request.max_depth)
            followed == {e \in EdgeIds :
                           \E m \in ReachedWithin(request.max_depth - 1),
                              n \in NodeIds : Labelled(n) /\ Leads(e, m, n)}
        IN  /\ {NodeAt(i) : i \in NodePlaces} \subseteq reach
            /\ \/ Cardinality(NodePlaces) = request.limit
               \/ {NodeAt(i) : i \in NodePlaces} = reach
            /\ {NodeAt(i) : i \in EdgePlaces} \subseteq followed
            /\ Cardinality(reach) < request.limit =>
                  \/ Cardinality(EdgePlaces) = request.limit
                  \/ {NodeAt(i) : i \in EdgePlaces} = followed

\* The items of a traversal come nearest first, each once, and no edge comes
\* before the node it was followed from, wherever the stream is cut off.
TraversalInOrder ==
    request.kind = "Traverse" =>
        /\ NoRepeats(DOMAIN items)
        /\ \A i, j \in NodePlaces :
              i < j => HopsTo(NodeAt(i)) <= HopsTo(NodeAt(j))
        /\ \A j \in EdgePlaces :
              \E i \in NodePlaces, n \in NodeIds :
                  i < j /\ Leads(NodeAt(j), NodeAt(i), n)

\* TraversalExecutionIter returns what the reference does, in breadth-first
\* order.
TraversalSound == TraversalExact /\ TraversalInOrder

\* Reference: a path of k hops whose inner nodes carry the labels; of two
\* neighbours one end must carry them.
HasPath(k) ==
    IF k = 1 THEN /\ Hop(request.source, request.target)
                  /\ Labelled(request.source) \/ Labelled(request.target)
    ELSE \E m \in Reached(k - 1) : Hop(m, request.target)

\* The two-sided search finds a path exactly when there is one of at most
\* twice max_depth hops, and then one with the fewest hops, made of edges that
\* may be followed; with a limit or a deadline it may also find none.  An edge
\* from the source to a target without the labels is followed from the target
\* only, whose other edges may come first: then the path has two hops.
ShortestPathExact ==
    Answered({PathKind}) /\ contains_node(request.source)
            /\ contains_node(request.target) /\ request.source # request.target =>
        LET hops == {k \in 1 .. 2 * request.max_depth : HasPath(k)}
        IN  /\ path = None => hops = {} \/ cut
            /\ path # None =>
                  /\ Len(path.node_ids) = Len(path.edge_ids) + 1
                  /\ \A i \in DOMAIN path.edge_ids :
                        Leads(path.edge_ids[i], path.node_ids[i],
                              path.node_ids[i + 1])
                  /\ Len(path.edge_ids) \in hops
                  /\ \A k \in hops :
                        \/ Len(path.edge_ids) <= k
                        \/ Len(path.edge_ids) = 2 /\ ~Labelled(request.target)

\* A scan returns limit nodes that match, or all of them, each once.
ScanExact ==
    Answered(ScanKinds) =>
        LET matching == {n \in LiveNodes : Matches(n)}
            found == {NodeAt(i) : i \in DOMAIN items}
        IN  /\ NoRepeats(DOMAIN items)
            /\ found \subseteq matching
            /\ found # matching => Len(items) = request.limit

\* ListNeighbors returns the far end of every edge it returns, each once; an
\* edge comes twice only when it is a loop, which also uses the limit twice.
NeighborsExact ==
    Answered({"ListNeighbors"}) =>
        LET far == {n \in NodeIds : \E i \in EdgePlaces :
                      Leads(NodeAt(i), request.source, n)}
        IN  /\ {NodeAt(i) : i \in NodePlaces} = far
            /\ NoRepeats(NodePlaces)
            /\ \A i, j \in EdgePlaces : items[i] = items[j] =>
                  i = j \/ Leads(NodeAt(i), request.source, request.source)
            /\ \/ Cardinality(EdgePlaces) = request.limit
               \/ \A e \in EdgeIds, n \in NodeIds :
                     Leads(e, request.source, n) => <<"edge", e>> \in Emitted

\* The lookups by label, filter, time range and node return what is there, up
\* to the limit.
LookupExact == ScanExact /\ NeighborsExact

\* The bounded heap keeps the best of all it was shown, best first, with ties
\* decided by identifier whatever the order of arrival.
RankingExact ==
    Answered(RankKinds) =>
        /\ Len(items) = Cardinality(ranked)
        /\ \A i, j \in DOMAIN items : i < j => Before(NodeAt(i), NodeAt(j))
        /\ \A n \in visited_nodes \ ranked :
              /\ Cardinality(ranked) = request.limit
              /\ \A m \in ranked : Before(m, n)

\* A vector search for a type returns nodes of that type, if the snapshot has
\* any node of the type.
TypedSearch ==
    /\ Answered({"VectorSearch"})
    /\ request.label # None
    /\ \/ request.overlay
       \/ request.label \in {graph.nodes[m].label : m \in LiveNodes}
    => \A n \in ranked : graph.nodes[n].label = request.label

\* Vector search and ranked retrieval return the best of the right nodes.
SearchExact == RankingExact /\ TypedSearch

\* The response budget refuses no request whose limit is at most half of the
\* budget; a path is counted twice with its nodes and edges, and needs a
\* quarter.
RefusedOnlyForLargeLimits ==
    pc = "refused" /\ ~request.stream =>
        MaxResponseItems < IF request.kind = PathKind THEN 4 * request.limit - 2
                           ELSE 2 * request.limit

\* Every query comes to an end, whatever cycles the graph has.
Terminates == <>(pc \in Finished)
=============================================================================
