------------------------------ MODULE MCQuery -------------------------------
(* Queries on every graph with up to three edges between four nodes (one    *)
(* of them unlabelled for the constraint), on a ladder that takes four hops *)
(* to cross, and on rankings with ties.                                     *)
EXTENDS Query

MCNodeIds == 1 .. 6
MCEdgeIds == 1 .. 7

Node(label, time, score) ==
    [label |-> label, timestamp |-> time, vector |-> time # 2, score |-> score,
     value |-> time]
Nodes(present) ==
    [n \in MCNodeIds |->
        IF n \notin present THEN None
        ELSE Node(IF n = 3 THEN "B" ELSE "A", IF n = 4 THEN None ELSE n % 3,
                  (n % 2) * 6)]
GraphOf(present, ends) ==
    [nodes |-> Nodes(present),
     edges |-> [e \in MCEdgeIds |->
        IF e \in DOMAIN ends
        THEN [source |-> ends[e][1], target |-> ends[e][2],
              type |-> IF e = 3 THEN "x" ELSE "y"]
        ELSE None]]

\* Every choice of at most three edges, loops and parallel edges included,
\* without naming the first two the other way round.
MCSmallGraphs ==
    LET pairs == (1 .. 4) \X (1 .. 4)
        code(p) == 4 * p[1] + p[2]
    IN  {GraphOf(1 .. 4, ends) :
           ends \in {s \in [1 .. 3 -> pairs] : code(s[1]) <= code(s[2])}}

\* A cycle of six nodes with a chord and a dead end; the ends are far apart.
MCLadder == GraphOf(1 .. 6,
    << <<1, 2>>, <<2, 3>>, <<3, 6>>, <<1, 4>>, <<4, 5>>, <<5, 6>>, <<2, 5>> >>)

Request ==
    [kind |-> "GetNodeById", source |-> 1, target |-> 1,
     direction |-> "Outgoing", max_depth |-> 1, limit |-> 4, from |-> None,
     to |-> None, label |-> None, edge_type |-> None, edge_types |-> {},
     node_labels |-> {}, query_vector |-> TRUE, overlay |-> FALSE,
     stream |-> FALSE, where |-> [op |-> "and", conditions |-> {}]]

Traversals ==
    {[Request EXCEPT !.kind = "Traverse", !.direction = d, !.max_depth = h,
                     !.limit = l] :
        d \in {"Outgoing", "Both"}, h \in {1, 2}, l \in {2, 4}}
    \cup {[Request EXCEPT !.kind = "Traverse", !.direction = d, !.max_depth = 2,
                          !.node_labels = {"B"}] : d \in {"Outgoing", "Both"}}
Paths ==
    {[Request EXCEPT !.kind = PathKind, !.target = 4, !.direction = d,
                     !.limit = 5, !.node_labels = labels] :
        d \in {"Outgoing", "Both"}, labels \in {{}, {"B"}}}
    \cup {[Request EXCEPT !.kind = PathKind, !.target = 3, !.limit = 5,
                          !.node_labels = {"A"}]}
Neighbors ==
    {[Request EXCEPT !.kind = "ListNeighbors", !.direction = d, !.limit = l,
                     !.overlay = o] :
        d \in {"Incoming", "Both"}, l \in {2, 4}, o \in BOOLEAN}
LadderRequests ==
    {[Request EXCEPT !.kind = k, !.target = 6, !.direction = d,
                     !.max_depth = h, !.limit = l, !.edge_type = t,
                     !.stream = s, !.source = n] :
        k \in {"Traverse", PathKind}, d \in {"Outgoing", "Incoming", "Both"},
        h \in 0 .. 2, l \in {3, 5}, t \in {None, "y"}, s \in BOOLEAN,
        n \in {1, 6}}
Leaf(op) == [op |-> op, value |-> 1]
Filters ==
    {[op |-> o, conditions |-> {Leaf(x) : x \in ops}] :
        o \in {"and", "or"},
        ops \in {{}, {"eq"}, {"gt", "lte"}, {"lt", "gte"}}}
Scans ==
    {[Request EXCEPT !.kind = "FilterNodes", !.where = w, !.label = t,
                     !.limit = l] : w \in Filters, t \in {None, "A"}, l \in {1, 6}}
    \cup {[Request EXCEPT !.kind = k, !.label = "A", !.from = f, !.to = 1,
                          !.limit = l] :
            k \in {"SearchByLabel", "TimeRange", "GetNodeById"},
            f \in {0, 2}, l \in {0, 2, 4, 9}}
Rankings ==
    {[Request EXCEPT !.kind = k, !.label = t, !.overlay = o, !.limit = l,
                     !.query_vector = q, !.from = f, !.source = n] :
        k \in RankKinds, t \in {None, "B", "C"}, o \in BOOLEAN,
        l \in {3, 5}, q \in BOOLEAN, f \in {None, 1}, n \in {1, None}}

MCCases ==
    (MCSmallGraphs \X (Traversals \cup Paths \cup Neighbors))
        \cup ({MCLadder} \X (LadderRequests \cup Scans \cup Rankings))
=============================================================================
