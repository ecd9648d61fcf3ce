---------------------------- MODULE QueryProofs -----------------------------
(* What a query returns, for every graph and every request.  The steps of  *)
(* one query depend on the kind of its request, so there is one inductive  *)
(* invariant for each kind: ScanInv for the scans, NeighborInv for         *)
(* ListNeighbors, RankInv for the rankings, TravInv for the traversal and  *)
(* PathInv for the shortest path; RefusalInv is about the response of all. *)
EXTENDS Query, FiniteSetTheorems, TLAPS

-----------------------------------------------------------------------------
(* Induction on the naturals                                               *)

\* A set of naturals has a smallest element.
LEMMA LeastNatural ==
    ASSUME NEW T \in SUBSET Nat, T # {}
    PROVE  \E x \in T : \A y \in T : x <= y
<1>1. \E x \in T : \A y \in T : ~(<<y, x>> \in OpToRel(<, Nat))
  <2>1. IsWellFoundedOn(OpToRel(<, Nat), Nat)
    BY NatLessThanWellFounded
  <2> QED BY <2>1, WFMin
<1>2. PICK x \in T : \A y \in T : ~(<<y, x>> \in OpToRel(<, Nat))
  BY <1>1
<1>3. ASSUME NEW y \in T PROVE x <= y
  <2>1. <<y, x>> \in Nat \X Nat
    OBVIOUS
  <2>2. ~(y < x)
    BY <2>1, <1>2 DEF OpToRel
  <2> QED BY <2>2
<1> QED BY <1>2, <1>3

\* Induction: a set with 0 and every successor holds all naturals.
LEMMA NaturalsBySuccessor ==
    ASSUME NEW T, 0 \in T, \A n \in Nat : n \in T => n + 1 \in T
    PROVE  Nat \subseteq T
<1> SUFFICES ASSUME Nat \ T # {} PROVE FALSE
  OBVIOUS
<1>1. PICK m \in Nat \ T : \A k \in Nat \ T : m <= k
  BY LeastNatural
<1>2. m # 0 /\ m - 1 \in Nat /\ ~(m <= m - 1)
  OBVIOUS
<1>3. m - 1 \in T
  BY <1>1, <1>2
<1> QED BY <1>2, <1>3

-----------------------------------------------------------------------------
(* The phases of a query                                                   *)

\* No step of the search was taken.
Fresh ==
    /\ queue = [side \in Sides |-> << >>]
    /\ parents = [side \in Sides |-> [n \in NodeIds |-> None]]
    /\ level = 0
    /\ expanding = Idle
    /\ visited_nodes = {}
    /\ visited_edges = {}
    /\ candidates = {}
    /\ items = << >>
    /\ ranked = {}
    /\ path = None
    /\ cut = FALSE

\* The kind of the request decides which steps a query takes; only a valid
\* request takes any.
Phase ==
    /\ pc \in {"plan", "rejected"} => Fresh
    /\ pc = "scan" => request.kind \in ScanKinds \cup {"ListNeighbors"}
    /\ pc = "traverse" => request.kind = "Traverse"
    /\ pc \in {"path", "frontier"} => request.kind = PathKind
    /\ pc = "rank" => request.kind \in RankKinds
    /\ pc \notin {"plan", "rejected"} => Valid(request)

Common == IsGraph(graph) /\ IsRequest(request) /\ Phase

LEMMA CommonInit ==
    ASSUME Init
    PROVE  Common /\ Fresh /\ pc = "plan"
<1>1. PICK case \in Cases : graph = case[1] /\ request = case[2]
  BY DEF Init
<1>2. IsGraph(graph) /\ IsRequest(request)
  BY <1>1, QueryAssumption
<1>3. Fresh /\ pc = "plan"
  BY DEF Init, Fresh
<1> QED BY <1>2, <1>3 DEF Common, Phase

\* The graph and the request of a query do not change.
LEMMA SnapshotStays ==
    ASSUME [Next]_vars
    PROVE  graph' = graph /\ request' = request
BY DEF Next, vars, Reject, StartScan, ScanNode, ScanNeighbor, EndScan,
       StartTraversal, TraversePop, TraverseEdge, EndTraversal, StartPath,
       PathLoop, FrontierPop, FrontierEdge, EndLevel, StartRanking, PushRanked,
       EndRanking, Respond

LEMMA CommonStep ==
    ASSUME Common, [Next]_vars
    PROVE  Common'
<1>1. graph' = graph /\ request' = request
  BY SnapshotStays
<1>2. IsGraph(graph)' /\ IsRequest(request)'
  BY <1>1 DEF Common
<1>3. Valid(request)' = Valid(request)
  BY <1>1
<1>4. Phase'
  <2>1. CASE UNCHANGED vars
    BY <2>1, <1>3 DEF Common, Phase, Fresh, vars
  <2>2. CASE Reject
    BY <2>2, <1>3 DEF Common, Phase, Fresh, Reject
  <2>3. CASE StartScan \/ ScanNode \/ ScanNeighbor \/ EndScan
    BY <2>3, <1>1, <1>3 DEF Common, Phase, StartScan, ScanNode, ScanNeighbor, EndScan
  <2>4. CASE StartTraversal \/ TraversePop \/ TraverseEdge \/ EndTraversal
    BY <2>4, <1>1, <1>3 DEF Common, Phase, StartTraversal, TraversePop, TraverseEdge,
          EndTraversal
  <2>5. CASE StartPath \/ PathLoop \/ FrontierPop \/ EndLevel
    BY <2>5, <1>1, <1>3 DEF Common, Phase, StartPath, PathLoop, FrontierPop, EndLevel
  <2>6. CASE FrontierEdge
    BY <2>6, <1>1, <1>3 DEF Common, Phase, FrontierEdge
  <2>7. CASE StartRanking \/ PushRanked \/ EndRanking
    BY <2>7, <1>1, <1>3 DEF Common, Phase, StartRanking, PushRanked, EndRanking
  <2>8. CASE Respond
    BY <2>8, <1>1, <1>3 DEF Common, Phase, Respond
  <2> QED BY <2>1, <2>2, <2>3, <2>4, <2>5, <2>6, <2>7, <2>8 DEF Next
<1> QED BY <1>2, <1>4 DEF Common

LEMMA CommonAlways == Spec => []Common
<1>1. Init => Common
  BY CommonInit
<1>2. Common /\ [Next]_vars => Common'
  BY CommonStep
<1> QED BY <1>1, <1>2, PTL DEF Spec

\* The steps of a scan, ...
LEMMA StepsOfScan ==
    ASSUME Common, [Next]_vars, request.kind \in ScanKinds
    PROVE  UNCHANGED vars \/ Reject \/ StartScan \/ ScanNode \/ EndScan \/ Respond
BY DEF Common, Phase, Next, ScanNeighbor, StartTraversal, TraversePop, TraverseEdge,
       EndTraversal, StartPath, PathLoop, FrontierPop, FrontierEdge, EndLevel,
       StartRanking, PushRanked, EndRanking, ScanKinds, RankKinds, PathKind

\* ... of ListNeighbors, ...
LEMMA StepsOfNeighbors ==
    ASSUME Common, [Next]_vars, request.kind = "ListNeighbors"
    PROVE  UNCHANGED vars \/ Reject \/ StartScan \/ ScanNeighbor \/ EndScan \/ Respond
BY DEF Common, Phase, Next, ScanNode, StartTraversal, TraversePop, TraverseEdge,
       EndTraversal, StartPath, PathLoop, FrontierPop, FrontierEdge, EndLevel,
       StartRanking, PushRanked, EndRanking, ScanKinds, RankKinds, PathKind

\* ... of a traversal, ...
LEMMA StepsOfTraversal ==
    ASSUME Common, [Next]_vars, request.kind = "Traverse"
    PROVE  \/ UNCHANGED vars \/ Reject
           \/ StartTraversal \/ TraversePop \/ TraverseEdge \/ EndTraversal
           \/ Respond
BY DEF Common, Phase, Next, StartScan, ScanNode, ScanNeighbor, EndScan, StartPath,
       PathLoop, FrontierPop, FrontierEdge, EndLevel, StartRanking, PushRanked,
       EndRanking, ScanKinds, RankKinds, PathKind

\* ... of a shortest path ...
LEMMA StepsOfPath ==
    ASSUME Common, [Next]_vars, request.kind = PathKind
    PROVE  \/ UNCHANGED vars \/ Reject
           \/ StartPath \/ PathLoop \/ FrontierPop \/ FrontierEdge \/ EndLevel
           \/ Respond
BY DEF Common, Phase, Next, StartScan, ScanNode, ScanNeighbor, EndScan,
       StartTraversal, TraversePop, TraverseEdge, EndTraversal, StartRanking,
       PushRanked, EndRanking, ScanKinds, RankKinds, PathKind

\* ... and of a ranking.
LEMMA StepsOfRanking ==
    ASSUME Common, [Next]_vars, request.kind \in RankKinds
    PROVE  \/ UNCHANGED vars \/ Reject
           \/ StartRanking \/ PushRanked \/ EndRanking \/ Respond
BY DEF Common, Phase, Next, StartScan, ScanNode, ScanNeighbor, EndScan,
       StartTraversal, TraversePop, TraverseEdge, EndTraversal, StartPath, PathLoop,
       FrontierPop, FrontierEdge, EndLevel, ScanKinds, RankKinds, PathKind

-----------------------------------------------------------------------------
(* The items of a response                                                 *)

Items == ({"node"} \X NodeIds) \cup ({"edge"} \X EdgeIds)

\* One more item takes the next place.
LEMMA AppendedItem ==
    ASSUME NEW s \in Seq(Items), NEW x \in Items
    PROVE  /\ Append(s, x) \in Seq(Items)
           /\ Len(Append(s, x)) = Len(s) + 1
           /\ DOMAIN Append(s, x) = (DOMAIN s) \cup {Len(s) + 1}
           /\ Len(s) + 1 \notin DOMAIN s
           /\ \A i \in DOMAIN s : i \in Nat /\ i < Len(s) + 1 /\ Append(s, x)[i] = s[i]
           /\ Append(s, x)[Len(s) + 1] = x
OBVIOUS

\* Where every item is a node, the nodes are counted by the length.
LEMMA OnlyNodes ==
    ASSUME items \in Seq(Items), NEW S, \A i \in DOMAIN items : items[i] \in {"node"} \X S
    PROVE  Count("node") = Len(items)
<1>1. Len(items) \in Nat /\ DOMAIN items = 1 .. Len(items)
  OBVIOUS
<1>2. \A i \in DOMAIN items : items[i][1] = "node"
  OBVIOUS
<1>3. {i \in DOMAIN items : items[i][1] = "node"} = 1 .. Len(items)
  BY <1>1, <1>2
<1>4. Cardinality(1 .. Len(items)) = Len(items)
  BY <1>1, FS_Interval
<1> QED BY <1>3, <1>4 DEF Count

LEMMA JoinedItem ==
    ASSUME NEW s \in Seq(Items), NEW x \in Items
    PROVE  s \o << x >> = Append(s, x) /\ s \o << >> = s
<1>1. << x >> \in Seq(Items)
  OBVIOUS
<1> QED BY <1>1

-----------------------------------------------------------------------------
(* Scans                                                                   *)

\* What a scan has found so far: the matching nodes among those it has looked
\* at, each once.
ScanInv ==
    request.kind \in ScanKinds =>
        /\ items \in Seq(Items)
        /\ \A i \in DOMAIN items : items[i] \in {"node"} \X LiveNodes
        /\ NoRepeats(DOMAIN items)
        /\ {NodeAt(i) : i \in DOMAIN items} \subseteq {n \in LiveNodes : Matches(n)}
        /\ request.kind # "GetNodeById" => Len(items) <= request.limit
        /\ pc = "scan" =>
              /\ candidates \subseteq LiveNodes
              /\ {NodeAt(i) : i \in DOMAIN items}
                    = {n \in LiveNodes \ candidates : Matches(n)}
        /\ pc \in {"respond", "done", "refused"} =>
              \/ {NodeAt(i) : i \in DOMAIN items} = {n \in LiveNodes : Matches(n)}
              \/ Len(items) = request.limit
        /\ ranked = {} /\ path = None

LEMMA ScanStart ==
    ASSUME Fresh, IsRequest(request), pc \in {"plan", "rejected"}
    PROVE  ScanInv
<1>1. items = << >> /\ DOMAIN items = {} /\ Len(items) = 0 /\ items \in Seq(Items)
  BY DEF Fresh
<1> QED BY <1>1 DEF ScanInv, NoRepeats, IsRequest, Fresh

\* The references that a step compares with depend on the snapshot alone.
LEMMA ScanReferencesStay ==
    ASSUME graph' = graph, request' = request
    PROVE  LiveNodes' = LiveNodes /\ \A n : Matches(n)' = Matches(n)
<1>1. LiveNodes' = LiveNodes
  BY DEF LiveNodes, contains_node
<1>2. ASSUME NEW n PROVE Matches(n)' = Matches(n)
  BY DEF Matches, WithinOptionalTime, node_matches_filter, Holds
<1> QED BY <1>1, <1>2

LEMMA ScanStep ==
    ASSUME Common, ScanInv, [Next]_vars
    PROVE  ScanInv'
<1> SUFFICES ASSUME request.kind \in ScanKinds PROVE ScanInv'
  BY SnapshotStays DEF ScanInv
<1>1. graph' = graph /\ request' = request
  BY SnapshotStays
<1>2. LiveNodes' = LiveNodes /\ \A n : Matches(n)' = Matches(n)
  BY <1>1, ScanReferencesStay
<1>3. request.limit \in Nat
  BY DEF Common, IsRequest
<1>4. LiveNodes \subseteq NodeIds
  BY DEF LiveNodes
<1> USE DEF NodeAt, NoRepeats
<1>5. CASE UNCHANGED vars
  BY <1>1, <1>2, <1>5 DEF ScanInv, vars
<1>6. CASE Reject
  BY <1>1, <1>2, <1>6 DEF ScanInv, Reject
<1>7. CASE StartScan
  <2>1. Fresh /\ items' = items /\ ranked' = ranked /\ path' = path /\ pc' = "scan"
    BY <1>7 DEF Common, Phase, StartScan
  <2>2. candidates' = LiveNodes
    BY <1>7 DEF StartScan, ScanKinds
  <2>3. items = << >> /\ DOMAIN items = {}
    BY <2>1 DEF Fresh
  <2> QED BY <1>1, <1>2, <2>1, <2>2, <2>3 DEF ScanInv
<1>8. CASE ScanNode
  <2>1. PICK n \in candidates :
            /\ candidates' = candidates \ {n}
            /\ items' = IF Matches(n) THEN Append(items, <<"node", n>>) ELSE items
    BY <1>8 DEF ScanNode
  <2>2. pc = "scan" /\ pc' = "scan" /\ ~LimitReached /\ ranked' = ranked /\ path' = path
    BY <1>8 DEF ScanNode
  <2>3. n \in LiveNodes /\ <<"node", n>> \in Items
    BY <1>4, <2>1, <2>2 DEF ScanInv, Items
  <2>4. CASE ~Matches(n)
    BY <1>1, <1>2, <2>1, <2>2, <2>4 DEF ScanInv
  <2>5. CASE Matches(n)
    <3> DEFINE x == <<"node", n>>
    <3>1. items' = Append(items, x)
      BY <2>1, <2>5
    <3>2. items \in Seq(Items) /\ x[1] = "node" /\ x[2] = n
      BY DEF ScanInv
    <3>3. /\ items' \in Seq(Items) /\ Len(items') = Len(items) + 1
          /\ DOMAIN items' = (DOMAIN items) \cup {Len(items) + 1}
          /\ Len(items) + 1 \notin DOMAIN items
          /\ \A i \in DOMAIN items : items'[i] = items[i]
          /\ items'[Len(items) + 1] = x
      BY <2>3, <3>1, <3>2, AppendedItem
    <3>4. \A i \in DOMAIN items : items[i][2] # n
      BY <2>1, <2>2 DEF ScanInv
    <3>5. request.kind # "GetNodeById" => Len(items) < request.limit
      <4> SUFFICES ASSUME request.kind # "GetNodeById" PROVE Len(items) < request.limit
        OBVIOUS
      <4>3. Count("node") = Len(items)
        BY OnlyNodes DEF ScanInv
      <4>4. request.kind # "ListNeighbors"
        BY DEF ScanKinds
      <4> QED BY <1>3, <2>2, <3>2, <4>3, <4>4 DEF LimitReached
    <3> HIDE DEF x
    <3>6. \A i \in DOMAIN items' : items'[i] \in {"node"} \X LiveNodes
      BY <2>3, <3>3 DEF ScanInv, x
    <3>7. \A i, j \in DOMAIN items' : items'[i] = items'[j] => i = j
      BY <3>2, <3>3, <3>4 DEF ScanInv
    <3>8. {items'[i][2] : i \in DOMAIN items'} = {items[i][2] : i \in DOMAIN items} \cup {n}
      BY <3>2, <3>3
    <3>9. {items'[i][2] : i \in DOMAIN items'} = {m \in LiveNodes \ candidates' : Matches(m)}
      BY <2>1, <2>2, <2>3, <2>5, <3>8 DEF ScanInv
    <3>10. candidates' \subseteq LiveNodes
      BY <2>1, <2>2 DEF ScanInv
    <3>11. request.kind # "GetNodeById" => Len(items') <= request.limit
      BY <1>3, <3>2, <3>3, <3>5
    <3>12. ranked' = {} /\ path' = None
      BY <2>2 DEF ScanInv
    <3>13. {items'[i][2] : i \in DOMAIN items'} \subseteq {m \in LiveNodes : Matches(m)}
      BY <3>9
    <3> QED
      BY <1>1, <1>2, <2>2, <3>3, <3>6, <3>7, <3>9, <3>10, <3>11, <3>12, <3>13 DEF ScanInv
  <2> QED BY <2>4, <2>5
<1>9. CASE EndScan
  <2>1. pc = "scan" /\ pc' = "respond" /\ items' = items /\ ranked' = ranked /\ path' = path
    BY <1>9 DEF EndScan
  <2>2. CASE candidates = {}
    BY <1>1, <1>2, <2>1, <2>2 DEF ScanInv
  <2>3. CASE LimitReached
    <3>1. items \in Seq(Items)
      BY DEF ScanInv
    <3>4. Count("node") = Len(items)
      BY OnlyNodes DEF ScanInv
    <3>5. request.kind \notin {"ListNeighbors", "GetNodeById"}
      BY <2>3 DEF ScanKinds, LimitReached
    <3>6. Len(items) >= request.limit /\ Len(items) <= request.limit
      BY <2>3, <3>4, <3>5 DEF LimitReached, ScanInv
    <3>7. Len(items) = request.limit
      BY <1>3, <3>1, <3>6
    <3> QED BY <1>1, <1>2, <2>1, <3>7 DEF ScanInv
  <2> QED BY <1>9, <2>2, <2>3 DEF EndScan
<1>10. CASE Respond
  BY <1>1, <1>2, <1>10 DEF ScanInv, Respond
<1> QED BY <1>5, <1>6, <1>7, <1>8, <1>9, <1>10, StepsOfScan

LEMMA ScanAlways == Spec => []ScanInv
<1>1. Init => ScanInv
  BY CommonInit, ScanStart DEF Common
<1>2. Common /\ ScanInv /\ [Next]_vars => ScanInv'
  BY ScanStep
<1> QED BY <1>1, <1>2, CommonAlways, PTL DEF Spec

-----------------------------------------------------------------------------
(* The edges a search follows                                              *)

\* Both ends of an edge are nodes of the graph.
LEMMA EdgeEnds ==
    ASSUME IsGraph(graph), NEW e \in EdgeIds, graph.edges[e] # None
    PROVE  /\ graph.edges[e].source \in LiveNodes
           /\ graph.edges[e].target \in LiveNodes
           /\ \A m, n : graph.edges[e] = [source |-> m, target |-> n,
                                          type |-> graph.edges[e].type]
                <=> graph.edges[e].source = m /\ graph.edges[e].target = n
<1>1. PICK a \in NodeIds, b \in NodeIds :
          /\ graph.nodes[a] # None /\ graph.nodes[b] # None
          /\ graph.edges[e] = [source |-> a, target |-> b, type |-> graph.edges[e].type]
  BY DEF IsGraph
<1>2. graph.edges[e].source = a /\ graph.edges[e].target = b
  BY <1>1
<1>3. a \in LiveNodes /\ b \in LiveNodes
  BY <1>1, NoneAssumption DEF LiveNodes, contains_node
<1>4. ASSUME NEW m, NEW n
      PROVE  graph.edges[e] = [source |-> m, target |-> n, type |-> graph.edges[e].type]
                <=> graph.edges[e].source = m /\ graph.edges[e].target = n
  BY <1>1
<1> QED BY <1>2, <1>3, <1>4

\* The reference agrees with edge_matches and the neighbour it gives, ...
LEMMA LeadsForward ==
    ASSUME IsGraph(graph), IsRequest(request), NEW e \in EdgeIds, NEW m, NEW n
    PROVE  Leads(e, m, n) <=> /\ edge_matches(e, m, request.direction)
                              /\ Admits(EdgeTypes(request), graph.edges[e].type)
                              /\ n = Neighbor(e, m, request.direction)
<1>1. CASE graph.edges[e] = None
  BY <1>1 DEF Leads, edge_matches
<1>2. CASE graph.edges[e] # None
  <2>1. \A a, b : graph.edges[e] = [source |-> a, target |-> b, type |-> graph.edges[e].type]
                <=> graph.edges[e].source = a /\ graph.edges[e].target = b
    BY <1>2, EdgeEnds
  <2>2. request.direction \in {"Outgoing", "Incoming", "Both"}
    BY DEF IsRequest
  <2> QED BY <1>2, <2>1, <2>2 DEF Leads, edge_matches, Neighbor
<1> QED BY <1>1, <1>2

\* ... and against the direction with those of the reverse direction.
LEMMA LeadsBackward ==
    ASSUME IsGraph(graph), IsRequest(request), NEW e \in EdgeIds, NEW m, NEW n
    PROVE  Leads(e, n, m)
              <=> /\ edge_matches(e, m, reverse_direction(request.direction))
                  /\ Admits(EdgeTypes(request), graph.edges[e].type)
                  /\ n = Neighbor(e, m, reverse_direction(request.direction))
<1>1. CASE graph.edges[e] = None
  BY <1>1 DEF Leads, edge_matches
<1>2. CASE graph.edges[e] # None
  <2>1. \A a, b : graph.edges[e] = [source |-> a, target |-> b, type |-> graph.edges[e].type]
                <=> graph.edges[e].source = a /\ graph.edges[e].target = b
    BY <1>2, EdgeEnds
  <2>2. request.direction \in {"Outgoing", "Incoming", "Both"}
    BY DEF IsRequest
  <2>3. CASE request.direction = "Outgoing"
    BY <1>2, <2>1, <2>3 DEF Leads, edge_matches, Neighbor, reverse_direction
  <2>4. CASE request.direction = "Incoming"
    BY <1>2, <2>1, <2>4 DEF Leads, edge_matches, Neighbor, reverse_direction
  <2>5. CASE request.direction = "Both"
    BY <1>2, <2>1, <2>5 DEF Leads, edge_matches, Neighbor, reverse_direction
  <2> QED BY <2>2, <2>3, <2>4, <2>5
<1> QED BY <1>1, <1>2

\* An edge leads from a node of the graph to one.
LEMMA LeadsEnds ==
    ASSUME IsGraph(graph), NEW e \in EdgeIds, NEW m, NEW n, Leads(e, m, n)
    PROVE  m \in LiveNodes /\ n \in LiveNodes
BY EdgeEnds DEF Leads

LEMMA LeadsStays ==
    ASSUME graph' = graph, request' = request
    PROVE  \A e, m, n : Leads(e, m, n)' = Leads(e, m, n)
BY DEF Leads, EdgeTypes, Admits

-----------------------------------------------------------------------------
(* The places of a kind of items                                           *)

Places(s, kind) == {i \in DOMAIN s : s[i][1] = kind}
Shown(s, kind) == {s[i][2] : i \in Places(s, kind)}
Distinct(s, kind) == \A i, j \in Places(s, kind) : s[i][2] = s[j][2] => i = j

LEMMA PlacesFinite ==
    ASSUME NEW s \in Seq(Items), NEW kind
    PROVE  IsFiniteSet(Places(s, kind)) /\ Cardinality(Places(s, kind)) \in Nat
<1>1. IsFiniteSet(1 .. Len(s)) /\ Places(s, kind) \in SUBSET (1 .. Len(s))
  BY FS_Interval DEF Places
<1> QED BY <1>1, FS_Subset, FS_CardinalityType

LEMMA AppendedPlaces ==
    ASSUME NEW s \in Seq(Items), NEW x \in Items
    PROVE  LET t == Append(s, x)
               kind == x[1]
           IN  /\ Places(t, kind) = Places(s, kind) \cup {Len(s) + 1}
               /\ Cardinality(Places(t, kind)) = Cardinality(Places(s, kind)) + 1
               /\ Shown(t, kind) = Shown(s, kind) \cup {x[2]}
               /\ x[2] \notin Shown(s, kind) /\ Distinct(s, kind) => Distinct(t, kind)
<1> DEFINE t == Append(s, x)
           kind == x[1]
           v == x[2]
<1>1. /\ DOMAIN t = (DOMAIN s) \cup {Len(s) + 1}
      /\ Len(s) + 1 \notin DOMAIN s
      /\ \A i \in DOMAIN s : t[i] = s[i]
      /\ t[Len(s) + 1] = x
  BY AppendedItem
<1>2. x[1] = kind /\ x[2] = v
  OBVIOUS
<1> HIDE DEF t, kind, v
<1>3. Places(t, kind) = Places(s, kind) \cup {Len(s) + 1} /\ Len(s) + 1 \notin Places(s, kind)
  BY <1>1, <1>2 DEF Places
<1>4. Cardinality(Places(t, kind)) = Cardinality(Places(s, kind)) + 1
  BY <1>3, PlacesFinite, FS_AddElement
<1>5. Shown(t, kind) = Shown(s, kind) \cup {v}
  BY <1>1, <1>2 DEF Places, Shown
<1>6. ASSUME v \notin Shown(s, kind), Distinct(s, kind) PROVE Distinct(t, kind)
  <2>1. \A i \in Places(s, kind) : t[i] = s[i] /\ s[i][2] # v
    BY <1>1, <1>6 DEF Places, Shown
  <2>2. t[Len(s) + 1][2] = v
    BY <1>1, <1>2
  <2> SUFFICES ASSUME NEW i \in Places(t, kind), NEW j \in Places(t, kind), t[i][2] = t[j][2]
               PROVE  i = j
    BY DEF Distinct
  <2>3. CASE i \in Places(s, kind) /\ j \in Places(s, kind)
    BY <1>6, <2>1, <2>3 DEF Distinct
  <2> QED BY <1>3, <2>1, <2>2, <2>3
<1> QED BY <1>3, <1>4, <1>5, <1>6 DEF t, kind, v

LEMMA AppendedOther ==
    ASSUME NEW s \in Seq(Items), NEW x \in Items, NEW other, other # x[1]
    PROVE  LET t == Append(s, x)
           IN  /\ Places(t, other) = Places(s, other)
               /\ Shown(t, other) = Shown(s, other)
               /\ Distinct(t, other) <=> Distinct(s, other)
<1> DEFINE t == Append(s, x)
<1>1. /\ DOMAIN t = (DOMAIN s) \cup {Len(s) + 1}
      /\ \A i \in DOMAIN s : t[i] = s[i]
      /\ t[Len(s) + 1] = x
  BY AppendedItem
<1> HIDE DEF t
<1>2. Places(t, other) = Places(s, other)
  BY <1>1 DEF Places
<1>3. \A i \in Places(s, other) : t[i] = s[i]
  BY <1>1 DEF Places
<1>4. Shown(t, other) = Shown(s, other)
  BY <1>2, <1>3 DEF Shown
<1>5. Distinct(t, other) <=> Distinct(s, other)
  BY <1>2, <1>3 DEF Distinct
<1> QED BY <1>2, <1>4, <1>5 DEF t

LEMMA AppendedNode ==
    ASSUME NEW s \in Seq(Items), NEW n \in NodeIds, NEW t, t = Append(s, <<"node", n>>)
    PROVE  /\ t \in Seq(Items)
           /\ Places(t, "node") = Places(s, "node") \cup {Len(s) + 1}
           /\ Cardinality(Places(t, "node")) = Cardinality(Places(s, "node")) + 1
           /\ Shown(t, "node") = Shown(s, "node") \cup {n}
           /\ n \notin Shown(s, "node") /\ Distinct(s, "node") => Distinct(t, "node")
           /\ Places(t, "edge") = Places(s, "edge")
           /\ Shown(t, "edge") = Shown(s, "edge")
           /\ Distinct(t, "edge") <=> Distinct(s, "edge")
<1> DEFINE x == <<"node", n>>
<1>1. x \in Items /\ "node" = x[1] /\ n = x[2] /\ t = Append(s, x)
  BY DEF Items
<1> HIDE DEF x
<1>2. t \in Seq(Items)
  BY <1>1, AppendedItem
<1>3. /\ Places(t, x[1]) = Places(s, x[1]) \cup {Len(s) + 1}
      /\ Cardinality(Places(t, x[1])) = Cardinality(Places(s, x[1])) + 1
      /\ Shown(t, x[1]) = Shown(s, x[1]) \cup {x[2]}
      /\ x[2] \notin Shown(s, x[1]) /\ Distinct(s, x[1]) => Distinct(t, x[1])
  BY <1>1, AppendedPlaces, Zenon
<1>4. "edge" # x[1]
  BY <1>1
<1>5. /\ Places(t, "edge") = Places(s, "edge")
      /\ Shown(t, "edge") = Shown(s, "edge")
      /\ Distinct(t, "edge") <=> Distinct(s, "edge")
  BY <1>1, <1>4, AppendedOther, Zenon
<1> QED BY <1>1, <1>2, <1>3, <1>5

LEMMA AppendedEdge ==
    ASSUME NEW s \in Seq(Items), NEW e \in EdgeIds, NEW t, t = Append(s, <<"edge", e>>)
    PROVE  /\ t \in Seq(Items)
           /\ Places(t, "edge") = Places(s, "edge") \cup {Len(s) + 1}
           /\ Cardinality(Places(t, "edge")) = Cardinality(Places(s, "edge")) + 1
           /\ Shown(t, "edge") = Shown(s, "edge") \cup {e}
           /\ e \notin Shown(s, "edge") /\ Distinct(s, "edge") => Distinct(t, "edge")
           /\ Places(t, "node") = Places(s, "node")
           /\ Shown(t, "node") = Shown(s, "node")
           /\ Distinct(t, "node") <=> Distinct(s, "node")
<1> DEFINE x == <<"edge", e>>
<1>1. x \in Items /\ "edge" = x[1] /\ e = x[2] /\ t = Append(s, x)
  BY DEF Items
<1> HIDE DEF x
<1>2. t \in Seq(Items)
  BY <1>1, AppendedItem
<1>3. /\ Places(t, x[1]) = Places(s, x[1]) \cup {Len(s) + 1}
      /\ Cardinality(Places(t, x[1])) = Cardinality(Places(s, x[1])) + 1
      /\ Shown(t, x[1]) = Shown(s, x[1]) \cup {x[2]}
      /\ x[2] \notin Shown(s, x[1]) /\ Distinct(s, x[1]) => Distinct(t, x[1])
  BY <1>1, AppendedPlaces, Zenon
<1>4. "node" # x[1]
  BY <1>1
<1>5. /\ Places(t, "node") = Places(s, "node")
      /\ Shown(t, "node") = Shown(s, "node")
      /\ Distinct(t, "node") <=> Distinct(s, "node")
  BY <1>1, <1>4, AppendedOther, Zenon
<1> QED BY <1>1, <1>2, <1>3, <1>5

\* Every place is one of a node or of an edge.
LEMMA PlacesAddUp ==
    ASSUME NEW s \in Seq(Items)
    PROVE  /\ Len(s) = Cardinality(Places(s, "node")) + Cardinality(Places(s, "edge"))
           /\ DOMAIN s = Places(s, "node") \cup Places(s, "edge")
<1>1. DOMAIN s = 1 .. Len(s) /\ Len(s) \in Nat
  OBVIOUS
<1>2. \A i \in DOMAIN s : s[i][1] \in {"node", "edge"}
  BY DEF Items
<1>3. DOMAIN s = Places(s, "node") \cup Places(s, "edge")
  BY <1>2 DEF Places
<1>4. Places(s, "node") \cap Places(s, "edge") = {}
  BY DEF Places
<1>5. Cardinality(DOMAIN s) = Cardinality(Places(s, "node")) + Cardinality(Places(s, "edge"))
  <2>1. Cardinality(Places(s, "node") \cap Places(s, "edge")) = 0
    BY <1>4, FS_EmptySet
  <2>2. /\ IsFiniteSet(Places(s, "node")) /\ Cardinality(Places(s, "node")) \in Nat
        /\ IsFiniteSet(Places(s, "edge")) /\ Cardinality(Places(s, "edge")) \in Nat
    BY PlacesFinite
  <2>3. Cardinality(Places(s, "node") \cup Places(s, "edge"))
          = Cardinality(Places(s, "node")) + Cardinality(Places(s, "edge"))
              - Cardinality(Places(s, "node") \cap Places(s, "edge"))
    BY <2>2, FS_Union
  <2> QED BY <1>3, <2>1, <2>2, <2>3
<1>6. Cardinality(DOMAIN s) = Len(s)
  BY <1>1, FS_Interval
<1> QED BY <1>3, <1>5, <1>6

-----------------------------------------------------------------------------
(* ListNeighbors                                                           *)

FarEnd(e) == Neighbor(e, request.source, request.direction)

\* What the buckets hold is what the reference follows from the node.
LEMMA EntryLeads ==
    ASSUME IsGraph(graph), IsRequest(request), NEW entry \in NeighborEntries
    PROVE  /\ entry[1] \in {"Outgoing", "Incoming", "Both"} /\ entry[2] \in EdgeIds
           /\ entry = <<entry[1], entry[2]>>
           /\ Leads(entry[2], request.source, FarEnd(entry[2]))
<1>1. request.direction \in {"Outgoing", "Incoming", "Both"}
  BY DEF IsRequest
<1>2. entry \in {"Outgoing", "Incoming", "Both"} \X EdgeIds
  BY <1>1 DEF NeighborEntries
<1>3. edge_matches(entry[2], request.source, request.direction)
  BY <1>1, <1>2 DEF NeighborEntries, edge_matches
<1>4. Admits(EdgeTypes(request), graph.edges[entry[2]].type)
  BY DEF NeighborEntries
<1> QED BY <1>2, <1>3, <1>4, LeadsForward DEF FarEnd

LEMMA LeadsEntry ==
    ASSUME IsGraph(graph), IsRequest(request), NEW e \in EdgeIds, NEW n,
           Leads(e, request.source, n)
    PROVE  n = FarEnd(e) /\ \E entry \in NeighborEntries : entry[2] = e
<1>1. /\ edge_matches(e, request.source, request.direction)
      /\ Admits(EdgeTypes(request), graph.edges[e].type)
      /\ n = FarEnd(e)
  BY LeadsForward DEF FarEnd
<1>2. request.direction \in {"Outgoing", "Incoming", "Both"}
  BY DEF IsRequest
<1> DEFINE bucket == IF request.overlay \/ request.direction # "Both" THEN request.direction
                     ELSE IF graph.edges[e].source = request.source THEN "Outgoing"
                     ELSE "Incoming"
<1>3. <<bucket, e>> \in NeighborEntries
  BY <1>1, <1>2 DEF NeighborEntries, edge_matches
<1>4. <<bucket, e>>[2] = e
  OBVIOUS
<1> QED BY <1>1, <1>3, <1>4

\* The same edge in two buckets is a loop.
LEMMA EntryTwice ==
    ASSUME IsGraph(graph), IsRequest(request),
           NEW x \in NeighborEntries, NEW y \in NeighborEntries, x # y, x[2] = y[2]
    PROVE  Leads(x[2], request.source, request.source)
<1>1. /\ x = <<x[1], x[2]>> /\ x[2] \in EdgeIds /\ y = <<y[1], y[2]>>
      /\ Leads(x[2], request.source, FarEnd(x[2]))
  BY EntryLeads
<1>2. x[1] # y[1]
  BY <1>1
<1>3. /\ graph.edges[x[2]].source = request.source
      /\ graph.edges[x[2]].target = request.source
  BY <1>2 DEF NeighborEntries, edge_matches
<1>4. graph.edges[x[2]] # None
  BY <1>1 DEF Leads
<1>5. graph.edges[x[2]] = [source |-> request.source, target |-> request.source,
                           type |-> graph.edges[x[2]].type]
  BY <1>1, <1>3, <1>4, EdgeEnds
<1> QED BY <1>1, <1>5 DEF Leads

Looked == NeighborEntries \ candidates

\* What ListNeighbors has returned so far: the edges of the entries it has
\* looked at, and their far ends, each once.
NeighborInv ==
    request.kind = "ListNeighbors" =>
        /\ items \in Seq(Items)
        /\ ranked = {} /\ path = None
        /\ pc \notin {"plan", "rejected"} =>
              /\ candidates \subseteq NeighborEntries
              /\ Shown(items, "edge") = {entry[2] : entry \in Looked}
              /\ visited_nodes = {FarEnd(entry[2]) : entry \in Looked}
              /\ Shown(items, "node") = visited_nodes
              /\ Distinct(items, "node")
              /\ \A i, j \in Places(items, "edge") : items[i][2] = items[j][2] =>
                    i = j \/ Leads(items[i][2], request.source, request.source)
              /\ Cardinality(Places(items, "edge")) <= request.limit
              /\ Cardinality(Places(items, "node")) <= Cardinality(Places(items, "edge"))
        /\ pc \in {"respond", "done", "refused"} =>
              candidates = {} \/ Cardinality(Places(items, "edge")) = request.limit

LEMMA EntriesStay ==
    ASSUME graph' = graph, request' = request
    PROVE  NeighborEntries' = NeighborEntries /\ \A e : FarEnd(e)' = FarEnd(e)
<1>1. NeighborEntries' = NeighborEntries
  BY DEF NeighborEntries, edge_matches, Admits, EdgeTypes
<1>2. \A e : FarEnd(e)' = FarEnd(e)
  BY DEF FarEnd, Neighbor
<1> QED BY <1>1, <1>2

LEMMA NeighborStep ==
    ASSUME Common, NeighborInv, [Next]_vars
    PROVE  NeighborInv'
<1> SUFFICES ASSUME request.kind = "ListNeighbors" PROVE NeighborInv'
  BY SnapshotStays DEF NeighborInv
<1>1. graph' = graph /\ request' = request
  BY SnapshotStays
<1>2. NeighborEntries' = NeighborEntries /\ \A e : FarEnd(e)' = FarEnd(e)
  BY <1>1, EntriesStay
<1>3. \A e, m, n : Leads(e, m, n)' = Leads(e, m, n)
  BY <1>1, LeadsStays
<1>4. request.limit \in Nat /\ IsGraph(graph) /\ IsRequest(request)
  BY DEF Common, IsRequest
<1>5. CASE UNCHANGED vars
  BY <1>1, <1>2, <1>3, <1>5 DEF NeighborInv, Looked, Places, Shown, Distinct, vars
<1>6. CASE Reject
  BY <1>1, <1>6 DEF NeighborInv, Reject
<1>7. CASE StartScan
  <2>1. /\ Fresh /\ items' = items /\ ranked' = ranked /\ path' = path /\ pc' = "scan"
        /\ visited_nodes' = visited_nodes
    BY <1>7 DEF Common, Phase, StartScan
  <2>2. candidates' = NeighborEntries
    BY <1>7 DEF StartScan
  <2>3. items = << >> /\ DOMAIN items = {} /\ visited_nodes = {}
    BY <2>1 DEF Fresh
  <2>4. Looked' = {}
    BY <1>2, <2>2 DEF Looked
  <2>5. \A kind : Places(items', kind) = {} /\ Cardinality(Places(items', kind)) = 0
    BY <2>1, <2>3, FS_EmptySet DEF Places
  <2>6. Shown(items', "node") = {} /\ Shown(items', "edge") = {} /\ Distinct(items', "node")
    BY <2>5 DEF Shown, Distinct
  <2>7. items' \in Seq(Items) /\ ranked' = {} /\ path' = None
    BY <2>1 DEF NeighborInv
  <2> QED BY <1>1, <1>2, <1>4, <2>1, <2>2, <2>3, <2>4, <2>5, <2>6, <2>7 DEF NeighborInv
<1>8. CASE ScanNeighbor
  <2> DEFINE far(entry) == Neighbor(entry[2], request.source, request.direction)
  <2>1. PICK entry \in candidates :
            /\ candidates' = candidates \ {entry}
            /\ visited_nodes' = visited_nodes \cup {far(entry)}
            /\ items' = items
                  \o (IF far(entry) \notin visited_nodes /\ contains_node(far(entry))
                      THEN << <<"node", far(entry)>> >> ELSE << >>)
                  \o << <<"edge", entry[2]>> >>
    BY <1>8 DEF ScanNeighbor
  <2>2. /\ pc = "scan" /\ pc' = "scan" /\ ~LimitReached
        /\ ranked' = ranked /\ path' = path
    BY <1>8 DEF ScanNeighbor
  <2> DEFINE e == entry[2]
             n == FarEnd(e)
             mid == IF n \in visited_nodes THEN items ELSE Append(items, <<"node", n>>)
  <2>3. entry \in NeighborEntries /\ entry \notin Looked
    BY <2>1, <2>2 DEF NeighborInv, Looked
  <2>4. /\ entry = <<entry[1], e>> /\ e \in EdgeIds
        /\ Leads(e, request.source, n) /\ n \in LiveNodes
    BY <1>4, <2>3, EntryLeads, LeadsEnds
  <2>5. n \in NodeIds /\ contains_node(n) /\ far(entry) = n
    BY <2>4 DEF LiveNodes, FarEnd
  <2> HIDE DEF far
  <2>6. <<"node", n>> \in Items /\ <<"edge", e>> \in Items /\ items \in Seq(Items)
    BY <2>4, <2>5 DEF Items, NeighborInv
  <2> HIDE DEF e, n
  <2>7. mid \in Seq(Items)
    BY <2>6, AppendedItem
  <2>8. mid = items \o (IF n \notin visited_nodes /\ contains_node(n)
                        THEN << <<"node", n>> >> ELSE << >>)
    BY <2>5, <2>6, JoinedItem
  <2>9. items' = Append(mid, <<"edge", e>>)
    <3> HIDE DEF mid
    <3>1. items' = mid \o << <<"edge", e>> >>
      BY <2>1, <2>5, <2>8 DEF e
    <3> QED BY <2>6, <2>7, <3>1, JoinedItem
  <2>10. items' \in Seq(Items)
    BY <2>6, <2>7, <2>9, AppendedItem
  <2>11. /\ candidates \subseteq NeighborEntries
         /\ Shown(items, "edge") = {y[2] : y \in Looked}
         /\ visited_nodes = {FarEnd(y[2]) : y \in Looked}
         /\ Shown(items, "node") = visited_nodes
         /\ Distinct(items, "node")
         /\ \A i, j \in Places(items, "edge") : items[i][2] = items[j][2] =>
               i = j \/ Leads(items[i][2], request.source, request.source)
         /\ Cardinality(Places(items, "edge")) <= request.limit
         /\ Cardinality(Places(items, "node")) <= Cardinality(Places(items, "edge"))
    BY <2>2 DEF NeighborInv
  \* The node, when it is new, ...
  <2>12. /\ Shown(mid, "node") = visited_nodes \cup {n}
         /\ Distinct(mid, "node")
         /\ Places(mid, "edge") = Places(items, "edge")
         /\ \A i \in Places(items, "edge") : mid[i] = items[i]
         /\ Cardinality(Places(mid, "node")) <= Cardinality(Places(items, "node")) + 1
    <3>1. CASE n \in visited_nodes
      <4>1. mid = items
        BY <3>1
      <4>2. Cardinality(Places(items, "node")) \in Nat
        BY <2>6, PlacesFinite
      <4> HIDE DEF mid
      <4> QED BY <2>11, <3>1, <4>1, <4>2
    <3>2. CASE n \notin visited_nodes
      <4>1. mid = Append(items, <<"node", n>>)
        BY <3>2
      <4>2. \A i \in Places(items, "edge") : i \in DOMAIN items
        BY DEF Places
      <4>3. \A i \in Places(items, "edge") : mid[i] = items[i]
        BY <2>6, <4>1, <4>2, AppendedItem
      <4>4. Cardinality(Places(items, "node")) \in Nat
        BY <2>6, PlacesFinite
      <4>5. /\ Shown(mid, "node") = Shown(items, "node") \cup {n}
            /\ n \notin Shown(items, "node") /\ Distinct(items, "node")
                  => Distinct(mid, "node")
            /\ Places(mid, "edge") = Places(items, "edge")
            /\ Cardinality(Places(mid, "node")) = Cardinality(Places(items, "node")) + 1
        <5> HIDE DEF mid
        <5> QED BY <2>5, <2>6, <4>1, AppendedNode, Zenon
      <4> HIDE DEF mid
      <4> QED BY <2>11, <3>2, <4>3, <4>4, <4>5
    <3> QED BY <3>1, <3>2
  <2> HIDE DEF mid
  \* ... and then the edge.
  <2>13. /\ Places(items', "edge") = Places(mid, "edge") \cup {Len(mid) + 1}
         /\ Cardinality(Places(items', "edge")) = Cardinality(Places(mid, "edge")) + 1
         /\ Shown(items', "edge") = Shown(mid, "edge") \cup {e}
         /\ Places(items', "node") = Places(mid, "node")
         /\ Shown(items', "node") = Shown(mid, "node")
         /\ Distinct(items', "node") <=> Distinct(mid, "node")
    BY <2>4, <2>6, <2>7, <2>9, AppendedEdge, Zenon
  <2>14. items'[Len(mid) + 1][2] = e /\ \A i \in Places(mid, "edge") : items'[i] = mid[i]
    <3>1. \A i \in Places(mid, "edge") : i \in DOMAIN mid
      BY DEF Places
    <3> QED BY <2>6, <2>7, <2>9, <3>1, AppendedItem
  <2>15. Shown(mid, "edge") = Shown(items, "edge")
    BY <2>12 DEF Shown
  <2>16. Looked' = Looked \cup {entry}
    BY <1>2, <2>1, <2>3 DEF Looked
  <2>17. Shown(items', "edge") = {y[2] : y \in Looked'}
    BY <2>11, <2>13, <2>15, <2>16 DEF e
  <2>18. /\ visited_nodes' = {FarEnd(y[2])' : y \in Looked'}
         /\ Shown(items', "node") = visited_nodes'
    BY <1>2, <2>1, <2>5, <2>11, <2>12, <2>13, <2>16 DEF e, n
  <2>19. \A i, j \in Places(items', "edge") : items'[i][2] = items'[j][2] =>
            i = j \/ Leads(items'[i][2], request.source, request.source)
    <3>1. \A i \in Places(items, "edge") : items[i][2] = e =>
             Leads(e, request.source, request.source)
      <4> SUFFICES ASSUME NEW i \in Places(items, "edge"), items[i][2] = e
                   PROVE  Leads(e, request.source, request.source)
        OBVIOUS
      <4>1. e \in Shown(items, "edge")
        BY DEF Shown
      <4>2. PICK y \in Looked : y[2] = e
        BY <2>11, <4>1
      <4>3. y \in NeighborEntries /\ y # entry
        BY <2>3 DEF Looked
      <4> QED BY <1>4, <2>3, <4>2, <4>3, EntryTwice DEF e
    <3>2. \A i \in Places(items', "edge") :
             \/ i \in Places(items, "edge") /\ items'[i] = items[i]
             \/ i = Len(mid) + 1 /\ items'[i][2] = e
      BY <2>12, <2>13, <2>14
    <3> QED BY <2>11, <3>1, <3>2
  <2>20. Cardinality(Places(items', "edge")) <= request.limit
    <3>1. Count("edge") < request.limit
      <4>1. Count("edge") = Cardinality(Places(items, "edge"))
        BY DEF Count, Places
      <4>2. Cardinality(Places(items, "edge")) \in Nat
        BY <2>6, PlacesFinite
      <4> QED BY <1>4, <2>2, <4>1, <4>2 DEF LimitReached
    <3>2. Count("edge") = Cardinality(Places(items, "edge"))
      BY DEF Count, Places
    <3>3. Cardinality(Places(items, "edge")) \in Nat
      BY <2>6, PlacesFinite
    <3> QED BY <1>4, <2>12, <2>13, <3>1, <3>2, <3>3
  <2>21. Cardinality(Places(items', "node")) <= Cardinality(Places(items', "edge"))
    <3>1. /\ Cardinality(Places(items, "edge")) \in Nat
          /\ Cardinality(Places(items, "node")) \in Nat
          /\ Cardinality(Places(mid, "node")) \in Nat
      BY <2>6, <2>7, PlacesFinite
    <3> QED BY <2>11, <2>12, <2>13, <3>1
  <2>22. ranked' = {} /\ path' = None
    BY <2>2 DEF NeighborInv
  <2>23. candidates' \subseteq NeighborEntries'
    BY <1>2, <2>1, <2>11
  <2>24. Distinct(items', "node")
    BY <2>12, <2>13
  <2> QED BY <1>1, <1>3, <2>2, <2>10, <2>17, <2>18, <2>19, <2>20, <2>21, <2>22, <2>23,
             <2>24 DEF NeighborInv
<1>9. CASE EndScan
  <2>1. /\ pc = "scan" /\ pc' = "respond" /\ items' = items /\ ranked' = ranked
        /\ path' = path /\ candidates' = candidates /\ visited_nodes' = visited_nodes
        /\ candidates = {} \/ LimitReached
    BY <1>9 DEF EndScan
  <2>2. candidates = {} \/ Cardinality(Places(items, "edge")) = request.limit
    <3> SUFFICES ASSUME LimitReached PROVE Cardinality(Places(items, "edge")) = request.limit
      BY <2>1
    <3>1. Count("edge") = Cardinality(Places(items, "edge"))
      BY DEF Count, Places
    <3>2. Cardinality(Places(items, "edge")) \in Nat
      BY PlacesFinite DEF NeighborInv
    <3>3. Count("edge") >= request.limit
      BY DEF LimitReached
    <3>4. Cardinality(Places(items, "edge")) <= request.limit
      BY <2>1 DEF NeighborInv
    <3> QED BY <1>4, <3>1, <3>2, <3>3, <3>4
  <2>3. Looked' = Looked
    BY <1>2, <2>1 DEF Looked
  <2> QED BY <1>1, <1>2, <1>3, <2>1, <2>2, <2>3 DEF NeighborInv, Places, Shown, Distinct
<1>10. CASE Respond
  <2>1. Looked' = Looked
    BY <1>2, <1>10 DEF Looked, Respond
  <2> QED
    BY <1>1, <1>2, <1>3, <1>10, <2>1 DEF NeighborInv, Places, Shown, Distinct, Respond
<1> QED BY <1>5, <1>6, <1>7, <1>8, <1>9, <1>10, StepsOfNeighbors

LEMMA NeighborAlways == Spec => []NeighborInv
<1>1. Init => NeighborInv
  <2> SUFFICES ASSUME Init PROVE NeighborInv
    OBVIOUS
  <2>1. Fresh /\ pc = "plan"
    BY CommonInit
  <2>2. items \in Seq(Items)
    BY <2>1 DEF Fresh
  <2> QED BY <2>1, <2>2 DEF Fresh, NeighborInv
<1>2. Common /\ NeighborInv /\ [Next]_vars => NeighborInv'
  BY NeighborStep
<1> QED BY <1>1, <1>2, CommonAlways, PTL DEF Spec

\* The lookups by label, filter, time range, identifier and node return what
\* is there, each once, or limit of it, whatever order the index gives it in.
THEOREM LookupExactAlways == Spec => []LookupExact
<1>1. ScanInv => ScanExact
  BY DEF ScanInv, ScanExact, Answered
<1>2. Common /\ NeighborInv => NeighborsExact
  <2> SUFFICES ASSUME Common, NeighborInv, Answered({"ListNeighbors"})
               PROVE  NeighborsExact
    BY DEF NeighborsExact
  <2>1. IsGraph(graph) /\ IsRequest(request)
    BY DEF Common
  <2>2. /\ request.kind = "ListNeighbors" /\ pc \notin {"plan", "rejected"}
        /\ pc \in {"respond", "done", "refused"}
    BY DEF Answered
  <2>3. /\ items \in Seq(Items)
        /\ candidates \subseteq NeighborEntries
        /\ Shown(items, "edge") = {entry[2] : entry \in Looked}
        /\ visited_nodes = {FarEnd(entry[2]) : entry \in Looked}
        /\ Shown(items, "node") = visited_nodes
        /\ Distinct(items, "node")
        /\ \A i, j \in Places(items, "edge") : items[i][2] = items[j][2] =>
              i = j \/ Leads(items[i][2], request.source, request.source)
        /\ candidates = {} \/ Cardinality(Places(items, "edge")) = request.limit
    BY <2>2 DEF NeighborInv
  <2>4. NodePlaces = Places(items, "node") /\ EdgePlaces = Places(items, "edge")
    BY DEF NodePlaces, EdgePlaces, Places
  <2>5. /\ {NodeAt(i) : i \in NodePlaces} = Shown(items, "node")
        /\ {NodeAt(i) : i \in EdgePlaces} = Shown(items, "edge")
    BY <2>4 DEF NodeAt, Shown
  <2> DEFINE far == {n \in NodeIds : \E i \in EdgePlaces :
                        Leads(NodeAt(i), request.source, n)}
  <2>6. visited_nodes = far
    <3>1. ASSUME NEW n \in visited_nodes PROVE n \in far
      <4>1. PICK entry \in Looked : n = FarEnd(entry[2])
        BY <2>3
      <4>2. entry[2] \in EdgeIds /\ Leads(entry[2], request.source, n)
        BY <2>1, <4>1, EntryLeads DEF Looked
      <4>3. n \in NodeIds
        BY <2>1, <4>2, LeadsEnds DEF LiveNodes
      <4>4. PICK i \in EdgePlaces : NodeAt(i) = entry[2]
        BY <2>3, <2>5
      <4> QED BY <4>2, <4>3, <4>4
    <3>2. ASSUME NEW n \in far PROVE n \in visited_nodes
      <4>1. PICK i \in EdgePlaces : Leads(NodeAt(i), request.source, n)
        OBVIOUS
      <4>2. PICK entry \in Looked : entry[2] = NodeAt(i)
        BY <2>3, <2>5
      <4>3. entry[2] \in EdgeIds
        BY <2>1, EntryLeads DEF Looked
      <4>4. n = FarEnd(entry[2])
        BY <2>1, <4>1, <4>2, <4>3, LeadsEntry
      <4> QED BY <2>3, <4>4
    <3> QED BY <3>1, <3>2
  <2>7. NoRepeats(NodePlaces)
    BY <2>3, <2>4 DEF NoRepeats, Distinct
  <2>8. \A i, j \in EdgePlaces : items[i] = items[j] =>
            i = j \/ Leads(NodeAt(i), request.source, request.source)
    BY <2>3, <2>4 DEF NodeAt
  <2>9. \/ Cardinality(EdgePlaces) = request.limit
        \/ \A e \in EdgeIds, n \in NodeIds :
              Leads(e, request.source, n) => <<"edge", e>> \in Emitted
    <3> SUFFICES ASSUME candidates = {}, NEW e \in EdgeIds, NEW n \in NodeIds,
                        Leads(e, request.source, n)
                 PROVE  <<"edge", e>> \in Emitted
      BY <2>3, <2>4
    <3>1. PICK entry \in Looked : entry[2] = e
      BY <2>1, LeadsEntry DEF Looked
    <3>2. PICK i \in Places(items, "edge") : items[i][2] = e
      BY <2>3, <3>1 DEF Shown
    <3>3. i \in DOMAIN items /\ items[i] = <<"edge", e>>
      BY <2>3, <3>2 DEF Places, Items
    <3> QED BY <3>3 DEF Emitted
  <2> QED BY <2>3, <2>5, <2>6, <2>7, <2>8, <2>9 DEF NeighborsExact
<1>3. Common /\ ScanInv /\ NeighborInv => LookupExact
  BY <1>1, <1>2 DEF LookupExact
<1> QED BY <1>3, CommonAlways, ScanAlways, NeighborAlways, PTL

-----------------------------------------------------------------------------
(* Functions defined step by step                                          *)

Iterates(f, n, start, step) ==
    f[0] = start /\ \A i \in 0 .. n - 1 : f[i + 1] = step[f[i]]

IsIteration(V, start, step) ==
    start \in V /\ step \in [V -> V]

IteratesAll(F, V, start, step) ==
    /\ F \in [Nat -> V]
    /\ F[0] = start
    /\ \A i \in Nat : F[i + 1] = step[F[i]]

\* Two functions that agree at 0 and at every successor agree.
LEMMA AgreeBySuccessor ==
    ASSUME NEW k \in Nat, NEW f, NEW g, f[0] = g[0],
           \A i \in 0 .. k - 1 : f[i] = g[i] => f[i + 1] = g[i + 1]
    PROVE  \A i \in 0 .. k : f[i] = g[i]
<1> DEFINE T == {i \in Nat : i <= k => f[i] = g[i]}
<1>1. 0 \in T
  OBVIOUS
<1>2. ASSUME NEW i \in Nat, i \in T PROVE i + 1 \in T
  <2> SUFFICES ASSUME i + 1 <= k PROVE f[i + 1] = g[i + 1]
    OBVIOUS
  <2>1. i \in 0 .. k - 1
    OBVIOUS
  <2> QED BY <1>2, <2>1
<1> HIDE DEF T
<1>3. Nat \subseteq T
  BY <1>1, <1>2, NaturalsBySuccessor
<1>4. \A i \in 0 .. k : i \in Nat /\ i <= k
  OBVIOUS
<1> QED BY <1>3, <1>4 DEF T

\* A start and a step determine a value for every number of steps.
LEMMA Iteration ==
    ASSUME NEW V, NEW start, NEW step, IsIteration(V, start, step)
    PROVE  \E F : IteratesAll(F, V, start, step)
<1> USE DEF IsIteration, IteratesAll
<1> DEFINE T == {n \in Nat : \E f \in [0 .. n -> V] : Iterates(f, n, start, step)}
<1>1. 0 \in T
  <2> DEFINE f == [i \in 0 .. 0 |-> start]
  <2>1. f \in [0 .. 0 -> V] /\ Iterates(f, 0, start, step)
    BY DEF Iterates
  <2> QED BY <2>1
<1>2. ASSUME NEW n \in Nat, n \in T PROVE n + 1 \in T
  <2>1. PICK f \in [0 .. n -> V] : Iterates(f, n, start, step)
    BY <1>2
  <2> DEFINE g == [i \in 0 .. n + 1 |-> IF i = n + 1 THEN step[f[n]] ELSE f[i]]
  <2>2. g \in [0 .. n + 1 -> V]
    OBVIOUS
  <2>3. g[0] = start
    BY <2>1 DEF Iterates
  <2>4. ASSUME NEW i \in 0 .. (n + 1) - 1 PROVE g[i + 1] = step[g[i]]
    <3>1. CASE i = n
      BY <3>1
    <3>2. CASE i # n
      <4>1. i \in 0 .. n - 1
        BY <3>2
      <4>2. f[i + 1] = step[f[i]]
        BY <2>1, <4>1 DEF Iterates
      <4>3. g[i] = f[i] /\ g[i + 1] = f[i + 1]
        BY <4>1
      <4> QED BY <4>2, <4>3
    <3> QED BY <3>1, <3>2
  <2>5. Iterates(g, n + 1, start, step)
    BY <2>3, <2>4 DEF Iterates
  <2> QED BY <2>2, <2>5
<1> HIDE DEF T
<1>3. Nat \subseteq T
  BY <1>1, <1>2, NaturalsBySuccessor
<1> DEFINE h(n) == CHOOSE f \in [0 .. n -> V] : Iterates(f, n, start, step)
           F == [n \in Nat |-> h(n)[n]]
<1>4. ASSUME NEW n \in Nat
      PROVE  h(n) \in [0 .. n -> V] /\ Iterates(h(n), n, start, step)
  <2>1. \E f \in [0 .. n -> V] : Iterates(f, n, start, step)
    BY <1>3 DEF T
  <2> QED BY <2>1
<1> HIDE DEF h
<1>5. F \in [Nat -> V]
  BY <1>4
<1>6. F[0] = start
  BY <1>4 DEF Iterates
<1>7. ASSUME NEW n \in Nat PROVE F[n + 1] = step[F[n]]
  <2>1. Iterates(h(n), n, start, step) /\ Iterates(h(n + 1), n + 1, start, step)
    BY <1>4
  <2>2. h(n)[0] = h(n + 1)[0]
    BY <2>1 DEF Iterates
  <2>3. ASSUME NEW i \in 0 .. n - 1, h(n)[i] = h(n + 1)[i]
        PROVE  h(n)[i + 1] = h(n + 1)[i + 1]
    <3>1. i \in 0 .. (n + 1) - 1
      OBVIOUS
    <3> QED BY <2>1, <2>3, <3>1 DEF Iterates
  <2>4. h(n)[n] = h(n + 1)[n]
    <3>1. \A i \in 0 .. n : h(n)[i] = h(n + 1)[i]
      BY <2>2, <2>3, AgreeBySuccessor
    <3> QED BY <3>1
  <2>5. h(n + 1)[n + 1] = step[h(n + 1)[n]]
    <3>1. n \in 0 .. (n + 1) - 1
      OBVIOUS
    <3> QED BY <2>1, <3>1 DEF Iterates
  <2> QED BY <2>4, <2>5
<1> QED BY <1>5, <1>6, <1>7

-----------------------------------------------------------------------------
(* The surroundings of a reference node                                    *)

LEMMA BesideLive ==
    ASSUME IsGraph(graph), NEW n
    PROVE  Beside(n) \subseteq LiveNodes
<1> SUFFICES ASSUME NEW e \in EdgeIds, edge_matches(e, n, "Both")
             PROVE  Neighbor(e, n, "Both") \in LiveNodes
  BY DEF Beside
<1>1. graph.edges[e].source \in LiveNodes /\ graph.edges[e].target \in LiveNodes
  BY EdgeEnds DEF edge_matches
<1> QED BY <1>1 DEF Neighbor

\* Only nodes of the graph are near a node of the graph.
LEMMA BallLive ==
    ASSUME IsGraph(graph), NEW start \in LiveNodes, NEW k \in Nat
    PROVE  Ball(start, k) \subseteq LiveNodes
<1> DEFINE step == [S \in SUBSET LiveNodes |-> S \cup UNION {Beside(n) : n \in S}]
           value(f, i) == IF i = 0 THEN {start}
                          ELSE f[i - 1] \cup UNION {Beside(n) : n \in f[i - 1]}
           balls(f) == f = [i \in 0 .. k |-> value(f, i)]
<1>1. step \in [SUBSET LiveNodes -> SUBSET LiveNodes]
  BY BesideLive
<1>2. PICK F \in [Nat -> SUBSET LiveNodes] :
          F[0] = {start} /\ \A i \in Nat : F[i + 1] = step[F[i]]
  <2>1. IsIteration(SUBSET LiveNodes, {start}, step)
    BY <1>1 DEF IsIteration
  <2>2. PICK F : IteratesAll(F, SUBSET LiveNodes, {start}, step)
    BY <2>1, Iteration
  <2> QED BY <2>2 DEF IteratesAll
<1>3. \A i \in Nat : F[i + 1] = F[i] \cup UNION {Beside(n) : n \in F[i]}
  BY <1>2
<1> HIDE DEF step
<1> DEFINE G == [i \in 0 .. k |-> F[i]]
<1>4. ASSUME NEW i \in 0 .. k PROVE G[i] = value(G, i)
  <2>1. CASE i = 0
    BY <1>2, <2>1
  <2>2. CASE i # 0
    <3>1. i - 1 \in Nat /\ i - 1 \in 0 .. k /\ (i - 1) + 1 = i
      BY <2>2
    <3>2. G[i] = F[(i - 1) + 1] /\ G[i - 1] = F[i - 1]
      BY <3>1
    <3> HIDE DEF G
    <3> QED BY <1>3, <2>2, <3>1, <3>2
  <2> QED BY <2>1, <2>2
<1>5. balls(G)
  BY <1>4
<1> DEFINE within == CHOOSE f : balls(f)
<1>6. balls(within)
  BY <1>5
<1>7. Ball(start, k) = within[k]
  BY DEF Ball
<1> HIDE DEF within, G
<1>8. within[0] = F[0]
  BY <1>2, <1>6
<1>9. ASSUME NEW i \in 0 .. k - 1, within[i] = F[i]
      PROVE  within[i + 1] = F[i + 1]
  <2>1. i + 1 \in 0 .. k /\ i + 1 # 0 /\ (i + 1) - 1 = i /\ i \in Nat
    OBVIOUS
  <2>2. within[i + 1] = within[i] \cup UNION {Beside(n) : n \in within[i]}
    BY <1>6, <2>1
  <2> QED BY <1>3, <1>9, <2>1, <2>2
<1>10. within[k] = F[k]
  <2> HIDE DEF balls
  <2>1. \A i \in 0 .. k : within[i] = F[i]
    BY <1>8, <1>9, AgreeBySuccessor
  <2> QED BY <2>1
<1> QED BY <1>2, <1>7, <1>10

-----------------------------------------------------------------------------
(* The order of the results                                                *)

LEMMA DistancesLive ==
    ASSUME IsGraph(graph), IsRequest(request)
    PROVE  graph_distances \subseteq LiveNodes
<1> SUFFICES ASSUME contains_node(request.source)
             PROVE  Ball(request.source, 3) \subseteq LiveNodes
  BY DEF graph_distances
<1>1. request.source \in LiveNodes
  BY DEF LiveNodes, contains_node, IsRequest
<1> QED BY <1>1, BallLive

\* Every node of the graph has a score, ...
LEMMA ScoreType ==
    ASSUME IsGraph(graph), IsRequest(request), NEW n \in LiveNodes
    PROVE  Score(n) \in Int
<1>1. graph.nodes[n].score \in Int
  BY DEF IsGraph, LiveNodes, contains_node
<1>2. n \in graph_distances => Distance(n) \in 0 .. 3
  <2> SUFFICES ASSUME n \in graph_distances PROVE Distance(n) \in 0 .. 3
    OBVIOUS
  <2> DEFINE T == {d \in 0 .. 3 : n \in Ball(request.source, d)}
  <2>1. 3 \in T
    BY DEF graph_distances
  <2>2. T \in SUBSET Nat
    OBVIOUS
  <2>3. PICK d \in T : \A y \in T : d <= y
    BY <2>1, <2>2, LeastNatural
  <2>4. d \in 0 .. 3 /\ n \in Ball(request.source, d)
    OBVIOUS
  <2>5. \A k \in 0 .. d - 1 : n \notin Ball(request.source, k)
    <3> SUFFICES ASSUME NEW k \in 0 .. d - 1, n \in Ball(request.source, k) PROVE FALSE
      OBVIOUS
    <3>1. k \in 0 .. 3 /\ ~(d <= k)
      BY <2>4
    <3> QED BY <2>3, <3>1
  <2> QED BY <2>4, <2>5 DEF Distance
<1>3. \A d \in 0 .. 3 : 12 \div (1 + d) \in Int
  <2> SUFFICES ASSUME NEW d \in 0 .. 3 PROVE 12 \div (1 + d) \in Int
    OBVIOUS
  <2>1. 1 + d \in Nat /\ 1 + d > 0
    OBVIOUS
  <2> QED BY <2>1
<1> QED BY <1>1, <1>2, <1>3 DEF Score

\* ... and the order by score and identifier is total.
LEMMA BeforeOrders ==
    ASSUME IsGraph(graph), IsRequest(request)
    PROVE  /\ \A m \in LiveNodes : ~Before(m, m)
           /\ \A m, n \in LiveNodes : m # n => Before(m, n) \/ Before(n, m)
           /\ \A a, b, c \in LiveNodes : Before(a, b) /\ Before(b, c) => Before(a, c)
<1>1. \A m \in LiveNodes : Score(m) \in Int /\ m \in Nat
  BY ScoreType, QueryAssumption DEF LiveNodes
<1> QED BY <1>1 DEF Before

\* Ball and the operators below it, of a given graph and request.
BesideOf(g, r, n) ==
    {(CASE "Both" = "Outgoing" -> g.edges[e].target
        [] "Both" = "Incoming" -> g.edges[e].source
        [] OTHER -> IF g.edges[e].source = n THEN g.edges[e].target
                    ELSE g.edges[e].source) :
        e \in {x \in EdgeIds :
                 /\ /\ g.edges[x] # None
                    /\ \/ "Both" # "Incoming" /\ g.edges[x].source = n
                       \/ "Both" # "Outgoing" /\ g.edges[x].target = n
                 /\ r.edge_type \in {None, g.edges[x].type}}}
BallOf(g, r, start, k) ==
    LET within[i \in 0 .. k] ==
            IF i = 0 THEN {start}
            ELSE within[i - 1] \cup UNION {BesideOf(g, r, n) : n \in within[i - 1]}
    IN  within[k]

LEMMA BeforeStays ==
    ASSUME graph' = graph, request' = request
    PROVE  \A m, n : Before(m, n)' <=> Before(m, n)
<1>1. ASSUME NEW start, NEW k PROVE Ball(start, k)' = Ball(start, k)
  <2>1. Ball(start, k) = BallOf(graph, request, start, k)
    BY DEF Ball, BallOf, Beside, BesideOf, Neighbor, edge_matches
  <2>2. Ball(start, k)' = BallOf(graph', request', start, k)
    BY DEF Ball, BallOf, Beside, BesideOf, Neighbor, edge_matches
  <2> QED BY <2>1, <2>2
<1>2. graph_distances' = graph_distances
  BY <1>1 DEF graph_distances, contains_node
<1>3. ASSUME NEW n PROVE Distance(n)' = Distance(n)
  BY <1>1 DEF Distance
<1>4. \A n : Score(n)' = Score(n)
  BY <1>2, <1>3 DEF Score
<1> QED BY <1>4 DEF Before

LEMMA LiveFinite ==
    ASSUME NEW S \in SUBSET LiveNodes
    PROVE  IsFiniteSet(S) /\ Cardinality(S) \in Nat
<1>1. S \in SUBSET NodeIds
  BY DEF LiveNodes
<1> QED BY <1>1, QueryAssumption, FS_Subset, FS_CardinalityType

\* Of some results one is the worst.
LEMMA WorstExists ==
    ASSUME IsGraph(graph), IsRequest(request), NEW S \in SUBSET LiveNodes, S # {}
    PROVE  \E n \in S : \A m \in S : m = n \/ Before(m, n)
<1> DEFINE last(R) == \E n \in R : \A m \in R : m = n \/ Before(m, n)
           T == {k \in Nat : \A R \in SUBSET LiveNodes : Cardinality(R) = k + 1 => last(R)}
<1>1. 0 \in T
  <2> SUFFICES ASSUME NEW R \in SUBSET LiveNodes, Cardinality(R) = 1 PROVE last(R)
    OBVIOUS
  <2>1. PICK x : R = {x}
    BY LiveFinite, FS_Singleton
  <2> QED BY <2>1
<1>2. ASSUME NEW k \in Nat, k \in T PROVE k + 1 \in T
  <2> SUFFICES ASSUME NEW R \in SUBSET LiveNodes, Cardinality(R) = (k + 1) + 1 PROVE last(R)
    OBVIOUS
  <2>1. PICK x : x \in R
    BY FS_EmptySet
  <2> DEFINE rest == R \ {x}
  <2>2. rest \in SUBSET LiveNodes /\ Cardinality(rest) = k + 1
    BY <2>1, LiveFinite, FS_RemoveElement
  <2>3. PICK n \in rest : \A m \in rest : m = n \/ Before(m, n)
    BY <1>2, <2>2
  <2>4. CASE Before(x, n)
    BY <2>3, <2>4
  <2>5. CASE ~Before(x, n)
    <3>1. x \in LiveNodes /\ n \in LiveNodes /\ x # n
      BY <2>1, <2>2
    <3>2. Before(n, x)
      BY <2>5, <3>1, BeforeOrders
    <3>3. \A m \in rest : Before(m, x)
      BY <2>2, <2>3, <3>1, <3>2, BeforeOrders
    <3> QED BY <2>1, <3>3
  <2> QED BY <2>4, <2>5
<1> HIDE DEF T
<1>3. Nat \subseteq T
  BY <1>1, <1>2, NaturalsBySuccessor
<1>4. Cardinality(S) \in Nat /\ Cardinality(S) # 0
  BY LiveFinite, FS_EmptySet
<1>5. Cardinality(S) - 1 \in Nat /\ Cardinality(S) = (Cardinality(S) - 1) + 1
  BY <1>4
<1> QED BY <1>3, <1>5 DEF T

\* A result has fewer results before it than one that comes later.
LEMMA BeforeCounts ==
    ASSUME IsGraph(graph), IsRequest(request), NEW S \in SUBSET LiveNodes,
           NEW a \in S, NEW b \in S, Before(a, b)
    PROVE  Cardinality({m \in S : Before(m, a)}) < Cardinality({m \in S : Before(m, b)})
<1> DEFINE A == {m \in S : Before(m, a)}
           B == {m \in S : Before(m, b)}
<1>1. A \in SUBSET LiveNodes /\ B \in SUBSET LiveNodes /\ A \cup {a} \in SUBSET B /\ a \notin A
  BY BeforeOrders
<1> HIDE DEF A, B
<1>2. /\ IsFiniteSet(A) /\ IsFiniteSet(B)
      /\ Cardinality(A) \in Nat /\ Cardinality(B) \in Nat
  BY <1>1, LiveFinite
<1>3. Cardinality(A \cup {a}) = Cardinality(A) + 1
  BY <1>1, <1>2, FS_AddElement
<1>4. Cardinality(A \cup {a}) <= Cardinality(B)
  BY <1>1, <1>2, FS_Subset
<1>5. Cardinality(A) < Cardinality(B)
  BY <1>2, <1>3, <1>4
<1> QED BY <1>5 DEF A, B

\* Every place of the sorted results is taken, in the order of the results.
LEMMA SortedResults ==
    ASSUME IsGraph(graph), IsRequest(request), ranked \in SUBSET LiveNodes
    PROVE  /\ Cardinality(ranked) \in Nat
           /\ \A i \in 1 .. Cardinality(ranked) : sort_ranked_results(i) \in ranked
           /\ \A i, j \in 1 .. Cardinality(ranked) :
                 i < j => Before(sort_ranked_results(i), sort_ranked_results(j))
<1> DEFINE c == Cardinality(ranked)
           place(n) == Cardinality({m \in ranked : Before(m, n)})
           f == [n \in ranked |-> place(n) + 1]
<1>1. IsFiniteSet(ranked) /\ c \in Nat
  BY LiveFinite
<1>2. ASSUME NEW n \in ranked PROVE place(n) \in 0 .. c - 1
  <2> DEFINE B == {m \in ranked : Before(m, n)}
  <2>1. B \in SUBSET ranked /\ B # ranked
    BY BeforeOrders
  <2>2. B \in SUBSET LiveNodes
    OBVIOUS
  <2> HIDE DEF B
  <2>3. /\ Cardinality(B) \in Nat /\ Cardinality(B) <= c
        /\ Cardinality(B) # c
    BY <1>1, <2>1, <2>2, LiveFinite, FS_Subset
  <2>4. Cardinality(B) \in 0 .. c - 1
    BY <1>1, <2>3
  <2> QED BY <2>4 DEF B
<1> HIDE DEF c, place
<1>3. f \in [ranked -> 1 .. c]
  <2>1. \A n \in ranked : place(n) + 1 \in 1 .. c
    BY <1>1, <1>2
  <2> QED BY <2>1
<1>4. ASSUME NEW m \in ranked, NEW n \in ranked, Before(m, n) PROVE place(m) < place(n)
  BY <1>4, BeforeCounts DEF place
<1>5. \A m, n \in ranked : m # n => f[m] # f[n]
  <2> SUFFICES ASSUME NEW m \in ranked, NEW n \in ranked, m # n PROVE f[m] # f[n]
    OBVIOUS
  <2>1. place(m) \in Nat /\ place(n) \in Nat
    BY <1>1, <1>2
  <2>2. Before(m, n) \/ Before(n, m)
    BY BeforeOrders
  <2>3. place(m) # place(n)
    BY <1>4, <2>1, <2>2
  <2> QED BY <2>1, <2>3
<1> HIDE DEF f
<1>6. f \in Injection(ranked, 1 .. c)
  BY <1>3, <1>5 DEF Injection, IsInjective
<1>7. IsFiniteSet(1 .. c) /\ Cardinality(1 .. c) = c
  BY <1>1, FS_Interval
<1>8. f \in Surjection(ranked, 1 .. c)
  BY <1>6, <1>7, FS_Injection DEF c
<1>9. ASSUME NEW i \in 1 .. c
      PROVE  sort_ranked_results(i) \in ranked /\ place(sort_ranked_results(i)) = i - 1
  <2>1. PICK n \in ranked : f[n] = i
    BY <1>8 DEF Surjection
  <2>2. place(n) \in Nat /\ place(n) + 1 = i
    BY <1>1, <1>2, <2>1 DEF f
  <2>3. place(n) = i - 1
    BY <2>2
  <2>4. \E m \in ranked : Cardinality({x \in ranked : Before(x, m)}) = i - 1
    BY <2>3 DEF place
  <2> QED BY <2>4 DEF sort_ranked_results, place
<1>10. ASSUME NEW i \in 1 .. c, NEW j \in 1 .. c, i < j
       PROVE  Before(sort_ranked_results(i), sort_ranked_results(j))
  <2> DEFINE m == sort_ranked_results(i)
             n == sort_ranked_results(j)
  <2>1. m \in ranked /\ n \in ranked /\ place(m) = i - 1 /\ place(n) = j - 1
    BY <1>9
  <2> HIDE DEF m, n
  <2>2. m # n /\ ~(place(n) < place(m))
    BY <1>1, <1>10, <2>1
  <2>3. Before(m, n)
    BY <1>4, <2>1, <2>2, BeforeOrders
  <2> QED BY <2>3 DEF m, n
<1> QED BY <1>1, <1>9, <1>10 DEF c

-----------------------------------------------------------------------------
(* The bounded heap                                                        *)

\* What the ranking was shown (visited_nodes) are nodes of the graph, of the
\* type that was asked for; what it was shown and no longer keeps comes after
\* limit better results.
RankInv ==
    request.kind \in RankKinds =>
        /\ items \in Seq(Items)
        /\ path = None
        /\ visited_nodes \subseteq LiveNodes
        /\ ranked \subseteq visited_nodes
        /\ Cardinality(ranked) <= request.limit
        /\ request.kind = "VectorSearch" => visited_nodes \subseteq Allowed
        /\ pc = "rank" => candidates \subseteq visited_nodes \ ranked
        /\ pc \notin {"plan", "rejected"} =>
              \A n \in visited_nodes \ (ranked \cup candidates) :
                  /\ Cardinality(ranked) = request.limit
                  /\ \A m \in ranked : Before(m, n)
        /\ pc \in {"respond", "done", "refused"} =>
              /\ candidates = {}
              /\ Len(items) = Cardinality(ranked)
              /\ \A i \in DOMAIN items : items[i] \in {"node"} \X ranked
              /\ \A i, j \in DOMAIN items : i < j => Before(items[i][2], items[j][2])

LEMMA RankedCandidatesLive ==
    ASSUME IsGraph(graph), IsRequest(request), NEW returned
    PROVE  LET S == RankCandidates(SemanticCandidates(returned))
           IN  S \subseteq LiveNodes /\ (request.kind = "VectorSearch" => S \subseteq Allowed)
<1>1. Allowed \subseteq LiveNodes
  BY DEF Allowed
<1>2. SemanticCandidates(returned) \subseteq Allowed
  BY DEF SemanticCandidates
<1>3. graph_distances \subseteq LiveNodes
  BY DistancesLive
<1> QED BY <1>1, <1>2, <1>3 DEF RankCandidates

LEMMA RankReferencesStay ==
    ASSUME graph' = graph, request' = request
    PROVE  LiveNodes' = LiveNodes /\ Allowed' = Allowed
<1>1. LiveNodes' = LiveNodes
  BY DEF LiveNodes, contains_node
<1> QED BY <1>1 DEF Allowed

LEMMA RankStep ==
    ASSUME Common, RankInv, [Next]_vars
    PROVE  RankInv'
<1> SUFFICES ASSUME request.kind \in RankKinds PROVE RankInv'
  BY SnapshotStays DEF RankInv
<1>1. graph' = graph /\ request' = request
  BY SnapshotStays
<1>2. LiveNodes' = LiveNodes /\ Allowed' = Allowed
  BY <1>1, RankReferencesStay
<1>3. \A m, n : Before(m, n)' <=> Before(m, n)
  BY <1>1, BeforeStays
<1>4. request.limit \in Nat /\ IsGraph(graph) /\ IsRequest(request)
  BY DEF Common, IsRequest
<1>5. CASE UNCHANGED vars
  BY <1>1, <1>2, <1>3, <1>5 DEF RankInv, vars
<1>6. CASE Reject
  BY <1>1, <1>2, <1>6 DEF RankInv, Reject
<1>7. CASE StartRanking
  <2>1. /\ Fresh /\ items' = items /\ ranked' = ranked /\ path' = path /\ pc' = "rank"
        /\ visited_nodes' = candidates'
    BY <1>7 DEF Common, Phase, StartRanking
  <2>2. /\ candidates' \subseteq LiveNodes
        /\ request.kind = "VectorSearch" => candidates' \subseteq Allowed
    BY <1>4, <1>7, RankedCandidatesLive DEF StartRanking
  <2>3. ranked' = {} /\ Cardinality(ranked') = 0
    BY <2>1, FS_EmptySet DEF Fresh
  <2> QED BY <1>1, <1>2, <1>4, <2>1, <2>2, <2>3 DEF RankInv
<1>8. CASE PushRanked
  <2>1. PICK n \in candidates :
            /\ candidates' = candidates \ {n}
            /\ ranked' = IF Cardinality(ranked) < request.limit THEN ranked \cup {n}
                         ELSE IF should_replace(n) THEN (ranked \ {Worst}) \cup {n}
                         ELSE ranked
    BY <1>8 DEF PushRanked
  <2>2. /\ pc = "rank" /\ pc' = "rank" /\ items' = items /\ path' = path
        /\ visited_nodes' = visited_nodes
    BY <1>8 DEF PushRanked
  <2>3. /\ visited_nodes \subseteq LiveNodes /\ ranked \subseteq visited_nodes
        /\ candidates \subseteq visited_nodes \ ranked
        /\ Cardinality(ranked) <= request.limit
        /\ \A x \in visited_nodes \ (ranked \cup candidates) :
              Cardinality(ranked) = request.limit /\ \A m \in ranked : Before(m, x)
    BY <2>2 DEF RankInv
  <2>4. n \in LiveNodes /\ n \in visited_nodes /\ n \notin ranked
    BY <2>1, <2>3
  <2>5. IsFiniteSet(ranked) /\ Cardinality(ranked) \in Nat
    BY <2>3, LiveFinite
  <2>6. request.limit # 0
    BY <1>4, <2>2 DEF Common, Phase, Valid, resolve_required_result_limit, RankKinds
  <2>7. /\ ranked' \subseteq visited_nodes
        /\ candidates' \subseteq visited_nodes \ ranked'
        /\ Cardinality(ranked') <= request.limit
        /\ \A x \in visited_nodes \ (ranked' \cup candidates') :
              Cardinality(ranked') = request.limit /\ \A m \in ranked' : Before(m, x)
    <3>1. CASE Cardinality(ranked) < request.limit
      <4>1. ranked' = ranked \cup {n}
        BY <2>1, <3>1
      <4>2. Cardinality(ranked') = Cardinality(ranked) + 1
        BY <2>4, <2>5, <4>1, FS_AddElement
      <4>3. \A x \in visited_nodes : x \in ranked \cup candidates
        BY <2>3, <2>5, <3>1
      <4>4. \A x \in visited_nodes : x \in ranked' \cup candidates'
        BY <2>1, <4>1, <4>3
      <4>5. Cardinality(ranked') <= request.limit
        BY <1>4, <2>5, <3>1, <4>2
      <4>6. ranked' \subseteq visited_nodes /\ candidates' \subseteq visited_nodes \ ranked'
        BY <2>1, <2>3, <2>4, <4>1
      <4> QED BY <4>4, <4>5, <4>6
    <3>2. CASE ~(Cardinality(ranked) < request.limit)
      <4>1. Cardinality(ranked) = request.limit
        BY <1>4, <2>3, <2>5, <3>2
      <4>2. ranked # {} /\ ranked \in SUBSET LiveNodes
        BY <2>3, <2>5, <2>6, <4>1, FS_EmptySet
      <4>3. Worst \in ranked /\ \A m \in ranked : m = Worst \/ Before(m, Worst)
        <5>1. \E w \in ranked : \A m \in ranked : m = w \/ Before(m, w)
          BY <1>4, <4>2, WorstExists
        <5> QED BY <5>1 DEF Worst
      <4>4. Worst \in LiveNodes /\ Worst # n
        BY <2>4, <4>2, <4>3
      <4>5. CASE should_replace(n)
        <5>1. ranked' = (ranked \ {Worst}) \cup {n} /\ Before(n, Worst)
          BY <2>1, <3>2, <4>5 DEF should_replace
        <5>2. /\ IsFiniteSet(ranked \ {Worst})
              /\ Cardinality(ranked \ {Worst}) = Cardinality(ranked) - 1
          BY <2>5, <4>3, FS_RemoveElement
        <5>3. Cardinality(ranked') = (Cardinality(ranked) - 1) + 1
          BY <2>4, <5>1, <5>2, FS_AddElement
        <5>4. Cardinality(ranked') = request.limit
          BY <2>5, <4>1, <5>3
        <5>5. \A m \in ranked' : m \in LiveNodes /\ Before(m, Worst)
          BY <2>4, <4>2, <4>3, <5>1
        <5>6. ASSUME NEW x \in visited_nodes \ (ranked' \cup candidates'), NEW m \in ranked'
              PROVE  Before(m, x)
          <6>1. x = Worst \/ x \notin ranked
            BY <5>1
          <6>2. CASE x = Worst
            BY <5>5, <6>2
          <6>3. CASE x \notin ranked
            <7>1. x \in visited_nodes \ (ranked \cup candidates) /\ x \in LiveNodes
              BY <2>1, <2>3, <5>1, <6>3
            <7>2. Before(Worst, x)
              BY <2>3, <4>3, <7>1
            <7> QED BY <1>4, <4>4, <5>5, <7>1, <7>2, BeforeOrders
          <6> QED BY <6>1, <6>2, <6>3
        <5> QED BY <1>4, <2>1, <2>3, <2>4, <5>1, <5>4, <5>6
      <4>6. CASE ~should_replace(n)
        <5>1. ranked' = ranked /\ ~Before(n, Worst)
          BY <2>1, <3>2, <4>6 DEF should_replace
        <5>2. Before(Worst, n)
          BY <1>4, <2>4, <4>4, <5>1, BeforeOrders
        <5>3. \A m \in ranked : Before(m, n)
          BY <1>4, <2>4, <4>2, <4>3, <4>4, <5>2, BeforeOrders
        <5> QED BY <2>1, <2>3, <4>1, <5>1, <5>3
      <4> QED BY <4>5, <4>6
    <3> QED BY <3>1, <3>2
  <2>8. items' \in Seq(Items) /\ path' = None
    BY <2>2 DEF RankInv
  <2>9. request.kind = "VectorSearch" => visited_nodes \subseteq Allowed
    BY DEF RankInv
  <2> QED BY <1>1, <1>2, <1>3, <2>2, <2>3, <2>7, <2>8, <2>9 DEF RankInv
<1>9. CASE EndRanking
  <2>1. /\ pc = "rank" /\ pc' = "respond" /\ path' = path /\ ranked' = ranked
        /\ candidates = {} /\ candidates' = candidates /\ visited_nodes' = visited_nodes
        /\ items' = [i \in 1 .. Cardinality(ranked) |-> <<"node", sort_ranked_results(i)>>]
    BY <1>9 DEF EndRanking
  <2>2. ranked \in SUBSET LiveNodes
    BY DEF RankInv
  <2>3. /\ Cardinality(ranked) \in Nat
        /\ \A i \in 1 .. Cardinality(ranked) : sort_ranked_results(i) \in ranked
        /\ \A i, j \in 1 .. Cardinality(ranked) :
              i < j => Before(sort_ranked_results(i), sort_ranked_results(j))
    BY <1>4, <2>2, SortedResults
  <2>4. /\ DOMAIN items' = 1 .. Cardinality(ranked)
        /\ \A i \in DOMAIN items' :
              items'[i] = <<"node", sort_ranked_results(i)>>
    BY <2>1
  <2>5. \A i \in DOMAIN items' :
           items'[i] \in {"node"} \X ranked /\ items'[i][2] = sort_ranked_results(i)
    <3> SUFFICES ASSUME NEW i \in DOMAIN items'
                 PROVE  /\ items'[i] \in {"node"} \X ranked
                        /\ items'[i][2] = sort_ranked_results(i)
      OBVIOUS
    <3>1. items'[i] = <<"node", sort_ranked_results(i)>> /\ sort_ranked_results(i) \in ranked
      BY <2>3, <2>4
    <3> QED BY <3>1
  <2>6. ranked \subseteq NodeIds
    BY <2>2 DEF LiveNodes
  <2>7. items' \in Seq(Items) /\ Len(items') = Cardinality(ranked)
    <3>1. \A i \in 1 .. Cardinality(ranked) : <<"node", sort_ranked_results(i)>> \in Items
      BY <2>3, <2>6 DEF Items
    <3> QED BY <2>1, <2>3, <3>1
  <2>8. ASSUME NEW i \in DOMAIN items', NEW j \in DOMAIN items', i < j
        PROVE  Before(items'[i][2], items'[j][2])
    <3>1. items'[i][2] = sort_ranked_results(i) /\ items'[j][2] = sort_ranked_results(j)
      BY <2>5
    <3>2. Before(sort_ranked_results(i), sort_ranked_results(j))
      BY <2>3, <2>4, <2>8
    <3> HIDE DEF sort_ranked_results
    <3> QED BY <3>1, <3>2
  <2> QED BY <1>1, <1>2, <1>3, <2>1, <2>5, <2>7, <2>8 DEF RankInv
<1>10. CASE Respond
  BY <1>1, <1>2, <1>3, <1>10 DEF RankInv, Respond
<1> QED BY <1>5, <1>6, <1>7, <1>8, <1>9, <1>10, StepsOfRanking

LEMMA RankAlways == Spec => []RankInv
<1>1. Init => RankInv
  <2> SUFFICES ASSUME Init PROVE RankInv
    OBVIOUS
  <2>1. Fresh /\ pc = "plan" /\ IsRequest(request)
    BY CommonInit DEF Common
  <2>2. items \in Seq(Items) /\ Cardinality(ranked) = 0 /\ request.limit \in Nat
    BY <2>1, FS_EmptySet DEF Fresh, IsRequest
  <2> QED BY <2>1, <2>2 DEF Fresh, RankInv
<1>2. Common /\ RankInv /\ [Next]_vars => RankInv'
  BY RankStep
<1> QED BY <1>1, <1>2, CommonAlways, PTL DEF Spec

\* Vector search and ranked retrieval return the limit best of the candidates,
\* best first, in whatever order the candidates arrive at the heap, and a
\* search for a type that the snapshot has returns nodes of that type.
THEOREM SearchExactAlways == Spec => []SearchExact
<1>1. ASSUME Common, RankInv PROVE RankingExact
  <2> SUFFICES ASSUME Answered(RankKinds) PROVE RankingExact
    BY DEF RankingExact
  <2>1. request.kind \in RankKinds /\ pc \in {"respond", "done", "refused"}
    BY DEF Answered
  <2>2. /\ Len(items) = Cardinality(ranked) /\ candidates = {}
        /\ \A i, j \in DOMAIN items : i < j => Before(items[i][2], items[j][2])
        /\ \A n \in visited_nodes \ (ranked \cup candidates) :
              Cardinality(ranked) = request.limit /\ \A m \in ranked : Before(m, n)
    BY <1>1, <2>1 DEF RankInv
  <2> QED BY <2>2 DEF RankingExact, NodeAt
<1>2. ASSUME Common, RankInv PROVE TypedSearch
  <2> SUFFICES ASSUME Answered({"VectorSearch"}), request.label # None,
                      \/ request.overlay
                      \/ request.label \in {graph.nodes[m].label : m \in LiveNodes},
                      NEW n \in ranked
               PROVE  graph.nodes[n].label = request.label
    BY DEF TypedSearch
  <2>1. request.kind = "VectorSearch" /\ request.kind \in RankKinds
    BY DEF Answered, RankKinds
  <2>2. n \in Allowed
    BY <1>2, <2>1 DEF RankInv
  <2> QED BY <2>2 DEF Allowed
<1>3. Common /\ RankInv => SearchExact
  BY <1>1, <1>2 DEF SearchExact
<1> QED BY <1>3, CommonAlways, RankAlways, PTL

-----------------------------------------------------------------------------
(* Distances from the two ends of a search                                 *)

Origin(side) == IF side = "forward" THEN request.source ELSE request.target
StepTo(side, m, n) == IF side = "forward" THEN Hop(m, n) ELSE Hop(n, m)
Onward(side) ==
    [S \in SUBSET NodeIds |->
        {n \in NodeIds : Labelled(n) /\ \E m \in S : StepTo(side, m, n)}]
TheIteration(V, start, step) == CHOOSE F : IteratesAll(F, V, start, step)

\* The nodes that k steps reach from the end of a side, and those of them that
\* no fewer steps reach.
Walks(side) == TheIteration(SUBSET NodeIds, {Origin(side)}, Onward(side))
Layer(side, k) == Walks(side)[k] \ UNION {Walks(side)[i] : i \in 0 .. k - 1}

LEMMA WalksIterate ==
    ASSUME NEW side, Origin(side) \in NodeIds
    PROVE  /\ Walks(side) \in [Nat -> SUBSET NodeIds]
           /\ Walks(side)[0] = {Origin(side)}
           /\ \A k \in Nat : Walks(side)[k + 1] =
                 {n \in NodeIds : Labelled(n) /\ \E m \in Walks(side)[k] : StepTo(side, m, n)}
<1> DEFINE step == Onward(side)
           start == {Origin(side)}
<1>1. IsIteration(SUBSET NodeIds, start, step)
  BY DEF IsIteration, Onward
<1>2. \A S \in SUBSET NodeIds :
         step[S] = {n \in NodeIds : Labelled(n) /\ \E m \in S : StepTo(side, m, n)}
  BY DEF Onward
<1>3. Walks(side) = TheIteration(SUBSET NodeIds, start, step)
  BY DEF Walks
<1>4. start = {Origin(side)}
  OBVIOUS
<1> HIDE DEF step, start
<1>5. IteratesAll(Walks(side), SUBSET NodeIds, start, step)
  BY <1>1, <1>3, Iteration DEF TheIteration
<1>6. /\ Walks(side) \in [Nat -> SUBSET NodeIds]
      /\ Walks(side)[0] = start
      /\ \A i \in Nat : Walks(side)[i + 1] = step[Walks(side)[i]]
  BY <1>5 DEF IteratesAll
<1>7. ASSUME NEW k \in Nat
      PROVE  Walks(side)[k + 1] =
                {n \in NodeIds : Labelled(n) /\ \E m \in Walks(side)[k] : StepTo(side, m, n)}
  <2>1. Walks(side)[k] \in SUBSET NodeIds
    BY <1>6
  <2> QED BY <1>2, <1>6, <2>1
<1> QED BY <1>4, <1>6, <1>7

LEMMA HopStays ==
    ASSUME graph' = graph, request' = request
    PROVE  /\ \A m, n : Hop(m, n)' <=> Hop(m, n)
           /\ \A n : Labelled(n)' <=> Labelled(n)
<1>1. \A e, m, n : Leads(e, m, n)' <=> Leads(e, m, n)
  BY DEF Leads, EdgeTypes, Admits
<1> QED BY <1>1 DEF Hop, Labelled, contains_node, Admits

LEMMA LayerStays ==
    ASSUME graph' = graph, request' = request
    PROVE  \A side, k : Layer(side, k)' = Layer(side, k)
<1> SUFFICES ASSUME NEW side, NEW k PROVE Layer(side, k)' = Layer(side, k)
  OBVIOUS
<1>1. Origin(side)' = Origin(side)
  BY DEF Origin
<1>2. Onward(side)' = Onward(side)
  BY HopStays DEF Onward, StepTo
<1>3. Walks(side)' = Walks(side)
  BY <1>1, <1>2 DEF Walks
<1> QED BY <1>3 DEF Layer

\* A node is in one layer at most, ...
LEMMA LayerUnique ==
    ASSUME NEW side, NEW j \in Nat, NEW k \in Nat, NEW n \in Layer(side, j),
           n \in Layer(side, k)
    PROVE  j = k
<1>1. ASSUME NEW a \in Nat, NEW b \in Nat, a < b, n \in Layer(side, a), n \in Layer(side, b)
      PROVE  FALSE
  <2>1. a \in 0 .. b - 1
    BY <1>1
  <2> QED BY <1>1, <2>1 DEF Layer
<1>2. ~(j < k) /\ ~(k < j)
  BY <1>1
<1> QED BY <1>2

\* ... in the layer of the fewest steps that reach it, ...
LEMMA LayerOfWalk ==
    ASSUME NEW side, NEW k \in Nat, NEW n \in Walks(side)[k]
    PROVE  \E j \in 0 .. k : n \in Layer(side, j)
<1> DEFINE T == {i \in Nat : n \in Walks(side)[i]}
<1>1. T \in SUBSET Nat /\ k \in T
  OBVIOUS
<1>2. PICK j \in T : \A i \in T : j <= i
  BY <1>1, LeastNatural
<1>3. j \in Nat /\ j <= k /\ n \in Walks(side)[j]
  BY <1>1, <1>2
<1>4. \A i \in 0 .. j - 1 : i \in Nat /\ ~(j <= i)
  BY <1>3
<1>5. \A i \in 0 .. j - 1 : n \notin Walks(side)[i]
  BY <1>2, <1>4
<1>6. n \in Layer(side, j)
  BY <1>3, <1>5 DEF Layer
<1> QED BY <1>3, <1>6

\* ... one step behind a node of the layer before, ...
LEMMA LayerBefore ==
    ASSUME NEW side, Origin(side) \in NodeIds, NEW k \in Nat, NEW n \in Layer(side, k + 1)
    PROVE  n \in NodeIds /\ Labelled(n) /\ \E m \in Layer(side, k) : StepTo(side, m, n)
<1>1. n \in Walks(side)[k + 1] /\ \A i \in 0 .. k : n \notin Walks(side)[i]
  BY DEF Layer
<1>2. n \in NodeIds /\ Labelled(n)
  BY <1>1, WalksIterate
<1>3. PICK m \in Walks(side)[k] : StepTo(side, m, n)
  BY <1>1, WalksIterate
<1>4. PICK j \in 0 .. k : m \in Layer(side, j)
  BY LayerOfWalk
<1>5. n \in Walks(side)[j + 1]
  BY <1>2, <1>3, <1>4, WalksIterate DEF Layer
<1>6. ~(j + 1 \in 0 .. k)
  BY <1>1, <1>5
<1>7. j = k
  BY <1>6
<1> QED BY <1>2, <1>3, <1>4, <1>7

\* ... and a step from a layer leads no further than to the next one.
LEMMA LayerAfter ==
    ASSUME NEW side, Origin(side) \in NodeIds, NEW k \in Nat, NEW m \in Layer(side, k),
           NEW n \in NodeIds, Labelled(n), StepTo(side, m, n)
    PROVE  \E j \in 0 .. k + 1 : n \in Layer(side, j)
<1>1. n \in Walks(side)[k + 1]
  BY WalksIterate DEF Layer
<1>2. k + 1 \in Nat
  OBVIOUS
<1> QED BY <1>1, <1>2, LayerOfWalk

LEMMA LayerNodes ==
    ASSUME NEW side, Origin(side) \in NodeIds
    PROVE  /\ \A k \in Nat : Layer(side, k) \subseteq NodeIds
           /\ Layer(side, 0) = {Origin(side)}
<1>1. \A k \in Nat : Layer(side, k) \subseteq NodeIds
  BY WalksIterate DEF Layer
<1>2. Layer(side, 0) = {Origin(side)}
  BY WalksIterate DEF Layer
<1> QED BY <1>1, <1>2

\* No layer is skipped.
LEMMA LayersBelow ==
    ASSUME NEW side, Origin(side) \in NodeIds, NEW k \in Nat, Layer(side, k) # {}
    PROVE  \A j \in 0 .. k : Layer(side, j) # {}
<1> DEFINE T == {i \in Nat : i <= k => Layer(side, k - i) # {}}
<1>1. 0 \in T
  OBVIOUS
<1>2. ASSUME NEW i \in Nat, i \in T PROVE i + 1 \in T
  <2> SUFFICES ASSUME i + 1 <= k PROVE Layer(side, k - (i + 1)) # {}
    OBVIOUS
  <2>1. k - (i + 1) \in Nat /\ (k - (i + 1)) + 1 = k - i
    OBVIOUS
  <2>2. PICK n : n \in Layer(side, k - i)
    BY <1>2
  <2>3. n \in Layer(side, (k - (i + 1)) + 1)
    BY <2>1, <2>2
  <2> QED BY <2>1, <2>3, LayerBefore
<1> HIDE DEF T
<1>3. Nat \subseteq T
  BY <1>1, <1>2, NaturalsBySuccessor
<1>4. \A j \in 0 .. k : k - j \in Nat /\ k - j <= k /\ k - (k - j) = j
  OBVIOUS
<1>5. ASSUME NEW j \in 0 .. k PROVE Layer(side, j) # {}
  <2>1. k - j \in T /\ k - j <= k /\ k - (k - j) = j
    BY <1>3, <1>4
  <2> QED BY <2>1 DEF T
<1> QED BY <1>5

\* A set of nodes that holds the layers up to k has a node of each.
LEMMA LayersCount ==
    ASSUME NEW side, Origin(side) \in NodeIds, NEW k \in Nat, Layer(side, k) # {},
           NEW S \in SUBSET NodeIds, \A j \in 0 .. k : Layer(side, j) \subseteq S
    PROVE  Cardinality(S) \in Nat /\ k + 1 <= Cardinality(S)
<1> DEFINE f == [j \in 0 .. k |-> CHOOSE n : n \in Layer(side, j)]
<1>1. ASSUME NEW j \in 0 .. k PROVE f[j] \in Layer(side, j) /\ f[j] \in S
  <2>1. Layer(side, j) # {} /\ Layer(side, j) \subseteq S
    BY LayersBelow
  <2>2. (CHOOSE n : n \in Layer(side, j)) \in Layer(side, j)
    BY <2>1
  <2> QED BY <2>1, <2>2
<1>2. f \in [0 .. k -> S]
  BY <1>1
<1> HIDE DEF f
<1>3. ASSUME NEW i \in 0 .. k, NEW j \in 0 .. k, f[i] = f[j] PROVE i = j
  <2>1. f[i] \in Layer(side, i) /\ f[i] \in Layer(side, j)
    BY <1>1, <1>3
  <2>2. i \in Nat /\ j \in Nat
    OBVIOUS
  <2> QED BY <2>1, <2>2, LayerUnique
<1>4. f \in Injection(0 .. k, S)
  BY <1>2, <1>3 DEF Injection, IsInjective
<1>5. Cardinality(0 .. k) = k + 1 /\ IsFiniteSet(0 .. k)
  BY FS_Interval
<1>6. IsFiniteSet(S)
  BY QueryAssumption, FS_Subset
<1> QED BY <1>4, <1>5, <1>6, FS_Injection, FS_CardinalityType

\* There are no more layers than nodes.
LEMMA LayerBound ==
    ASSUME NEW side, Origin(side) \in NodeIds, NEW k \in Nat, Layer(side, k) # {}
    PROVE  Cardinality(NodeIds) \in Nat /\ k + 1 <= Cardinality(NodeIds)
<1>1. \A j \in 0 .. k : Layer(side, j) \subseteq NodeIds
  BY LayerNodes
<1> QED BY <1>1, LayersCount

\* The reference of the properties counts the same steps.
LEMMA ReachedIs ==
    ASSUME request.source \in NodeIds, NEW k \in Nat
    PROVE  Reached(k) = Walks("forward")[k]
<1> DEFINE F == Walks("forward")
           onward(S) == {n \in NodeIds : Labelled(n) /\ \E m \in S : Hop(m, n)}
           value(f, i) == IF i = 0 THEN {request.source} ELSE onward(f[i - 1])
           reaches(f) == f = [i \in 0 .. k |-> value(f, i)]
<1>1. F[0] = {request.source} /\ \A i \in Nat : F[i + 1] = onward(F[i])
  BY WalksIterate DEF Origin, StepTo
<1> HIDE DEF F
<1> DEFINE G == [i \in 0 .. k |-> F[i]]
<1>2. ASSUME NEW i \in 0 .. k PROVE G[i] = value(G, i)
  <2>1. CASE i = 0
    BY <1>1, <2>1
  <2>2. CASE i # 0
    <3>1. i - 1 \in Nat /\ i - 1 \in 0 .. k /\ (i - 1) + 1 = i
      BY <2>2
    <3>2. G[i] = F[(i - 1) + 1] /\ G[i - 1] = F[i - 1]
      BY <3>1
    <3> HIDE DEF G, onward
    <3> QED BY <1>1, <2>2, <3>1, <3>2
  <2> QED BY <2>1, <2>2
<1>3. reaches(G)
  <2> HIDE DEF onward
  <2> QED BY <1>2
<1> DEFINE after == CHOOSE f : reaches(f)
<1>4. reaches(after)
  BY <1>3
<1>5. Reached(k) = after[k]
  BY DEF Reached
<1> HIDE DEF after, G, onward
<1>6. after[0] = F[0]
  BY <1>1, <1>4
<1>7. ASSUME NEW i \in 0 .. k - 1, after[i] = F[i] PROVE after[i + 1] = F[i + 1]
  <2>1. i + 1 \in 0 .. k /\ i + 1 # 0 /\ (i + 1) - 1 = i /\ i \in Nat
    OBVIOUS
  <2>2. after[i + 1] = onward(after[i])
    BY <1>4, <2>1
  <2> QED BY <1>1, <1>7, <2>1, <2>2
<1>8. after[k] = F[k]
  <2> HIDE DEF reaches
  <2>1. \A i \in 0 .. k : after[i] = F[i]
    BY <1>6, <1>7, AgreeBySuccessor
  <2> QED BY <2>1
<1> QED BY <1>5, <1>8 DEF F

LEMMA ReachedWithinIs ==
    ASSUME request.source \in NodeIds, NEW k \in Nat, NEW n
    PROVE  n \in ReachedWithin(k) <=> \E j \in 0 .. k : n \in Layer("forward", j)
<1>1. \A j \in 0 .. k : j \in Nat
  OBVIOUS
<1>2. ASSUME n \in ReachedWithin(k) PROVE \E j \in 0 .. k : n \in Layer("forward", j)
  <2>1. PICK i \in 0 .. k : n \in Walks("forward")[i]
    BY <1>1, <1>2, ReachedIs DEF ReachedWithin
  <2>2. PICK j \in 0 .. i : n \in Layer("forward", j)
    BY <2>1, LayerOfWalk
  <2> QED BY <2>2
<1>3. ASSUME NEW j \in 0 .. k, n \in Layer("forward", j) PROVE n \in ReachedWithin(k)
  BY <1>1, <1>3, ReachedIs DEF ReachedWithin, Layer
<1> QED BY <1>2, <1>3

LEMMA HopsToIs ==
    ASSUME request.source \in NodeIds, NEW k \in Nat, NEW n \in Layer("forward", k)
    PROVE  HopsTo(n) = k
<1>1. Origin("forward") \in NodeIds
  BY DEF Origin
<1>2. Cardinality(NodeIds) \in Nat /\ k + 1 <= Cardinality(NodeIds)
  BY <1>1, LayerBound
<1>3. k \in 0 .. Cardinality(NodeIds)
  BY <1>2
<1>4. \A j \in 0 .. Cardinality(NodeIds) :
         n \in Reached(j) /\ n \notin ReachedWithin(j - 1) <=> n \in Layer("forward", j)
  <2> SUFFICES ASSUME NEW j \in 0 .. Cardinality(NodeIds)
               PROVE  n \in Reached(j) /\ n \notin ReachedWithin(j - 1)
                         <=> n \in Layer("forward", j)
    OBVIOUS
  <2>1. j \in Nat /\ \A i \in 0 .. j - 1 : i \in Nat
    BY <1>2
  <2>2. Reached(j) = Walks("forward")[j]
    BY <2>1, ReachedIs
  <2>3. \A i \in 0 .. j - 1 : Reached(i) = Walks("forward")[i]
    BY <2>1, ReachedIs
  <2>4. ReachedWithin(j - 1) = UNION {Walks("forward")[i] : i \in 0 .. j - 1}
    BY <2>3 DEF ReachedWithin
  <2> QED BY <2>2, <2>4 DEF Layer
<1>5. \A j \in 0 .. Cardinality(NodeIds) :
         n \in Reached(j) /\ n \notin ReachedWithin(j - 1) <=> j = k
  <2>1. \A j \in 0 .. Cardinality(NodeIds) : j \in Nat
    BY <1>2
  <2> QED BY <1>3, <1>4, <2>1, LayerUnique
<1> QED BY <1>3, <1>5 DEF HopsTo

LeadsTo(side, e, m, n) == IF side = "forward" THEN Leads(e, m, n) ELSE Leads(e, n, m)

\* expand_neighbors gives the steps of the reference, with their edges.
LEMMA ExpandIs ==
    ASSUME IsGraph(graph), IsRequest(request), NEW side \in Sides, NEW m, NEW next
    PROVE  next \in expand_neighbors(m, Direction(side)) <=>
              /\ next \in EdgeIds \X NodeIds
              /\ Labelled(next[2])
              /\ LeadsTo(side, next[1], m, next[2])
<1> DEFINE d == Direction(side)
<1>1. ASSUME NEW e \in EdgeIds, NEW n
      PROVE  LeadsTo(side, e, m, n) <=> /\ edge_matches(e, m, d)
                                        /\ Admits(EdgeTypes(request), graph.edges[e].type)
                                        /\ n = Neighbor(e, m, d)
  <2>1. CASE side = "forward"
    BY <2>1, LeadsForward DEF LeadsTo, Direction
  <2>2. CASE side # "forward"
    BY <2>2, LeadsBackward DEF LeadsTo, Direction
  <2> QED BY <2>1, <2>2
<1> HIDE DEF d
<1>2. ASSUME next \in expand_neighbors(m, d)
      PROVE  /\ next \in EdgeIds \X NodeIds
             /\ Labelled(next[2])
             /\ LeadsTo(side, next[1], m, next[2])
  <2>1. PICK e \in EdgeIds :
            /\ next = <<e, Neighbor(e, m, d)>>
            /\ edge_matches(e, m, d)
            /\ Admits(EdgeTypes(request), graph.edges[e].type)
            /\ Labelled(Neighbor(e, m, d))
    BY <1>2 DEF expand_neighbors, Labelled
  <2>2. LeadsTo(side, e, m, Neighbor(e, m, d))
    BY <1>1, <2>1
  <2>3. Neighbor(e, m, d) \in NodeIds
    BY <2>2, LeadsEnds DEF LeadsTo, LiveNodes
  <2>4. next[1] = e /\ next[2] = Neighbor(e, m, d) /\ next \in EdgeIds \X NodeIds
    BY <2>1, <2>3
  <2> QED BY <2>1, <2>2, <2>4
<1>3. ASSUME next \in EdgeIds \X NodeIds, Labelled(next[2]), LeadsTo(side, next[1], m, next[2])
      PROVE  next \in expand_neighbors(m, d)
  <2>1. /\ edge_matches(next[1], m, d)
        /\ Admits(EdgeTypes(request), graph.edges[next[1]].type)
        /\ next[2] = Neighbor(next[1], m, d)
    BY <1>1, <1>3
  <2>2. next = <<next[1], Neighbor(next[1], m, d)>> /\ next[1] \in EdgeIds
    BY <1>3, <2>1
  <2>3. /\ contains_node(Neighbor(next[1], m, d))
        /\ Admits(request.node_labels, graph.nodes[Neighbor(next[1], m, d)].label)
    BY <1>3, <2>1 DEF Labelled
  <2> QED BY <2>1, <2>2, <2>3 DEF expand_neighbors
<1> QED BY <1>2, <1>3 DEF d

\* A step along an edge is a step of the side.
LEMMA LeadsStep ==
    ASSUME NEW side, NEW e \in EdgeIds, NEW m, NEW n, LeadsTo(side, e, m, n)
    PROVE  StepTo(side, m, n)
BY DEF LeadsTo, StepTo, Hop

LEMMA ExpandStays ==
    ASSUME graph' = graph, request' = request
    PROVE  \A n, d : expand_neighbors(n, d)' = expand_neighbors(n, d)
BY DEF expand_neighbors, Neighbor, edge_matches, Admits, EdgeTypes, contains_node

-----------------------------------------------------------------------------
(* Traverse                                                                *)

\* The places of an extended sequence of items.
Extends(s, t, kind, v, added) ==
    /\ Places(s, kind) \subseteq Places(t, kind)
    /\ \A i \in Places(s, kind) : t[i] = s[i]
    /\ \A i \in Places(t, kind) : i \notin Places(s, kind) =>
          added /\ t[i][2] = v /\ \A j \in DOMAIN s : j < i
    /\ Shown(t, kind) = Shown(s, kind) \cup (IF added THEN {v} ELSE {})
    /\ Cardinality(Places(t, kind)) = Cardinality(Places(s, kind)) + (IF added THEN 1 ELSE 0)
    /\ Distinct(s, kind) /\ (added => v \notin Shown(s, kind)) => Distinct(t, kind)

LEMMA ExtendsSame ==
    ASSUME NEW s \in Seq(Items), NEW kind, NEW v, NEW added, ~added
    PROVE  Extends(s, s, kind, v, added)
<1>1. Cardinality(Places(s, kind)) \in Nat
  BY PlacesFinite
<1> QED BY <1>1 DEF Extends

LEMMA ExtendedByEdge ==
    ASSUME NEW s \in Seq(Items), NEW e \in EdgeIds, NEW other
    PROVE  LET t == Append(s, <<"edge", e>>)
           IN  /\ t \in Seq(Items)
               /\ Extends(s, t, "edge", e, TRUE)
               /\ Extends(s, t, "node", other, FALSE)
               /\ DOMAIN s \subseteq DOMAIN t
<1> DEFINE x == <<"edge", e>>
           t == Append(s, x)
<1>1. x \in Items /\ x[2] = e
  BY DEF Items
<1>2. /\ t \in Seq(Items)
      /\ Places(t, "edge") = Places(s, "edge") \cup {Len(s) + 1}
      /\ Cardinality(Places(t, "edge")) = Cardinality(Places(s, "edge")) + 1
      /\ Shown(t, "edge") = Shown(s, "edge") \cup {e}
      /\ e \notin Shown(s, "edge") /\ Distinct(s, "edge") => Distinct(t, "edge")
      /\ Places(t, "node") = Places(s, "node")
      /\ Shown(t, "node") = Shown(s, "node")
      /\ Distinct(t, "node") <=> Distinct(s, "node")
  BY AppendedEdge, Zenon
<1> HIDE DEF x
<1>3. /\ \A i \in DOMAIN s : t[i] = s[i] /\ i < Len(s) + 1
      /\ t[Len(s) + 1] = x
      /\ DOMAIN s \subseteq DOMAIN t
  BY <1>1, AppendedItem
<1> HIDE DEF t
<1>4. \A kind : Places(s, kind) \subseteq DOMAIN s
  BY DEF Places
<1>5. Cardinality(Places(s, "node")) \in Nat
  BY PlacesFinite
<1>6. Extends(s, t, "edge", e, TRUE)
  BY <1>1, <1>2, <1>3, <1>4 DEF Extends
<1>7. Extends(s, t, "node", other, FALSE)
  BY <1>2, <1>3, <1>4, <1>5 DEF Extends
<1> QED BY <1>2, <1>3, <1>6, <1>7 DEF t, x

LEMMA ExtendedByNode ==
    ASSUME NEW s \in Seq(Items), NEW n \in NodeIds, NEW other
    PROVE  LET t == Append(s, <<"node", n>>)
           IN  /\ t \in Seq(Items)
               /\ Extends(s, t, "node", n, TRUE)
               /\ Extends(s, t, "edge", other, FALSE)
               /\ DOMAIN s \subseteq DOMAIN t
<1> DEFINE x == <<"node", n>>
           t == Append(s, x)
<1>1. x \in Items /\ x[2] = n
  BY DEF Items
<1>2. /\ t \in Seq(Items)
      /\ Places(t, "node") = Places(s, "node") \cup {Len(s) + 1}
      /\ Cardinality(Places(t, "node")) = Cardinality(Places(s, "node")) + 1
      /\ Shown(t, "node") = Shown(s, "node") \cup {n}
      /\ n \notin Shown(s, "node") /\ Distinct(s, "node") => Distinct(t, "node")
      /\ Places(t, "edge") = Places(s, "edge")
      /\ Shown(t, "edge") = Shown(s, "edge")
      /\ Distinct(t, "edge") <=> Distinct(s, "edge")
  BY AppendedNode, Zenon
<1> HIDE DEF x
<1>3. /\ \A i \in DOMAIN s : t[i] = s[i] /\ i < Len(s) + 1
      /\ t[Len(s) + 1] = x
      /\ DOMAIN s \subseteq DOMAIN t
  BY <1>1, AppendedItem
<1> HIDE DEF t
<1>4. \A kind : Places(s, kind) \subseteq DOMAIN s
  BY DEF Places
<1>5. Cardinality(Places(s, "edge")) \in Nat
  BY PlacesFinite
<1>6. Extends(s, t, "node", n, TRUE)
  BY <1>1, <1>2, <1>3, <1>4 DEF Extends
<1>7. Extends(s, t, "edge", other, FALSE)
  BY <1>2, <1>3, <1>4, <1>5 DEF Extends
<1> QED BY <1>2, <1>3, <1>6, <1>7 DEF t, x

\* An edge, when it is new, and then a node, when it is new.
LEMMA AppendedBoth ==
    ASSUME NEW s \in Seq(Items), NEW e \in EdgeIds, NEW x \in NodeIds,
           NEW newEdge \in BOOLEAN, NEW newNode \in BOOLEAN
    PROVE  LET t == s \o (IF newEdge THEN << <<"edge", e>> >> ELSE << >>)
                      \o (IF newNode THEN << <<"node", x>> >> ELSE << >>)
           IN  /\ t \in Seq(Items)
               /\ Extends(s, t, "edge", e, newEdge)
               /\ Extends(s, t, "node", x, newNode)
<1>1. <<"edge", e>> \in Items /\ <<"node", x>> \in Items
  BY DEF Items
<1>2. \A r \in Seq(Items) :
         r \o << <<"edge", e>> >> = Append(r, <<"edge", e>>) /\ r \o << >> = r
  BY <1>1, JoinedItem
<1>3. \A r \in Seq(Items) : r \o << <<"node", x>> >> = Append(r, <<"node", x>>)
  BY <1>1, JoinedItem
<1> DEFINE mid == IF newEdge THEN Append(s, <<"edge", e>>) ELSE s
           t == IF newNode THEN Append(mid, <<"node", x>>) ELSE mid
<1>4. mid = s \o (IF newEdge THEN << <<"edge", e>> >> ELSE << >>)
  BY <1>2
<1>5. /\ mid \in Seq(Items)
      /\ Extends(s, mid, "edge", e, newEdge)
      /\ Extends(s, mid, "node", x, FALSE)
      /\ DOMAIN s \subseteq DOMAIN mid
  <2>1. CASE newEdge
    <3>1. mid = Append(s, <<"edge", e>>) /\ newEdge = TRUE
      BY <2>1
    <3> HIDE DEF mid
    <3> QED BY <3>1, ExtendedByEdge
  <2>2. CASE ~newEdge
    <3>1. mid = s
      BY <2>2
    <3> HIDE DEF mid
    <3> QED BY <2>2, <3>1, ExtendsSame
  <2> QED BY <2>1, <2>2
<1> HIDE DEF mid
<1>6. t = mid \o (IF newNode THEN << <<"node", x>> >> ELSE << >>)
  BY <1>2, <1>3, <1>5
<1>7. /\ t \in Seq(Items)
      /\ Extends(mid, t, "node", x, newNode)
      /\ Extends(mid, t, "edge", e, FALSE)
  <2>1. CASE newNode
    <3>1. t = Append(mid, <<"node", x>>) /\ newNode = TRUE
      BY <2>1
    <3> HIDE DEF t
    <3> QED BY <1>5, <3>1, ExtendedByNode
  <2>2. CASE ~newNode
    <3>1. t = mid
      BY <2>2
    <3> HIDE DEF t
    <3> QED BY <1>5, <2>2, <3>1, ExtendsSame
  <2> QED BY <2>1, <2>2
<1> HIDE DEF t
<1>8. /\ Cardinality(Places(s, "node")) \in Nat /\ Cardinality(Places(mid, "edge")) \in Nat
  BY <1>5, PlacesFinite
<1>9. Extends(s, t, "edge", e, newEdge)
  BY <1>5, <1>7, <1>8 DEF Extends
<1>10. Extends(s, t, "node", x, newNode)
  BY <1>5, <1>7, <1>8 DEF Extends
<1> QED BY <1>4, <1>6, <1>7, <1>9, <1>10, Zenon

\* The items of a traversal and what it has visited.  A node beyond the limit
\* counts as visited and is not returned.
Emits ==
    /\ items \in Seq(Items)
    /\ visited_nodes \subseteq NodeIds /\ visited_edges \subseteq EdgeIds
    /\ Shown(items, "node") \subseteq visited_nodes
    /\ Shown(items, "edge") = visited_edges
    /\ Distinct(items, "node") /\ Distinct(items, "edge")
    /\ Cardinality(Places(items, "edge")) = Cardinality(visited_edges)
    /\ Cardinality(visited_edges) <= request.limit
    /\ Cardinality(visited_nodes) <= request.limit =>
          /\ Shown(items, "node") = visited_nodes
          /\ Cardinality(Places(items, "node")) = Cardinality(visited_nodes)
    /\ Cardinality(visited_nodes) > request.limit =>
          Cardinality(Places(items, "node")) = request.limit

\* All of it is within max_hops, the nearest first, and an edge comes after
\* the node it was followed from.
InReach ==
    /\ \A n \in visited_nodes : \E k \in 0 .. request.max_depth : n \in Layer("forward", k)
    /\ \A i, j \in Places(items, "node") : i < j =>
          \A a, b \in Nat : items[i][2] \in Layer("forward", a)
                               /\ items[j][2] \in Layer("forward", b) => a <= b
    /\ \A j \in Places(items, "edge") :
          \E i \in Places(items, "node"), n \in NodeIds, k \in 0 .. request.max_depth - 1 :
              /\ i < j /\ Labelled(n) /\ items[i][2] \in Layer("forward", k)
              /\ Leads(items[j][2], items[i][2], n)

Queued(n) == \E i \in DOMAIN queue["forward"] : queue["forward"][i][1] = n

\* Every edge of n but those of left was followed.
Spread(n, left) ==
    \A next \in expand_neighbors(n, request.direction) \ left :
        /\ next[2] \in visited_nodes
        /\ next[1] \in visited_edges \/ Cardinality(visited_edges) = request.limit

Expanding ==
    [side : Sides, node : NodeIds \cup {None}, depth : Nat,
     left : SUBSET (EdgeIds \X NodeIds)]

\* The queue holds what is left of layer c and then what was found of layer
\* c + 1; while the limit is not reached, the layers up to c are found and
\* what is not queued is expanded.
QueueInLayers(c) ==
    /\ \A i \in DOMAIN queue["forward"] :
          /\ queue["forward"][i][2] \in {c, c + 1}
          /\ queue["forward"][i][2] <= request.max_depth
          /\ queue["forward"][i][1] \in Shown(items, "node")
          /\ queue["forward"][i][1] \in Layer("forward", queue["forward"][i][2])
    /\ \A i, j \in DOMAIN queue["forward"] :
          i < j => queue["forward"][i][2] <= queue["forward"][j][2]
    /\ \A n \in Shown(items, "node"), k \in Nat : n \in Layer("forward", k) => k <= c + 1

ExpandingIn(c) ==
    expanding.left # {} =>
        /\ expanding.depth = c /\ c < request.max_depth
        /\ expanding.node \in Layer("forward", c)
        /\ expanding.node \in Shown(items, "node")
        /\ expanding.left \subseteq expand_neighbors(expanding.node, request.direction)

FoundUpTo(c) ==
    Cardinality(visited_nodes) < request.limit =>
        /\ \A k \in 0 .. c : Layer("forward", k) \subseteq visited_nodes
        /\ \A k \in 0 .. c, n \in NodeIds : n \in Layer("forward", k) /\ k < request.max_depth =>
              \/ Queued(n)
              \/ Spread(n, {})
              \/ n = expanding.node /\ Spread(n, expanding.left)
        /\ \A n \in Shown(items, "node") : n \in Layer("forward", c + 1) => Queued(n)

Frontier(c) ==
    /\ c <= request.max_depth
    /\ QueueInLayers(c) /\ ExpandingIn(c) /\ FoundUpTo(c)

\* What a traversal without a deadline has done when its queue is empty.
Complete ==
    Cardinality(visited_nodes) < request.limit =>
        /\ \A k \in 0 .. request.max_depth : Layer("forward", k) \subseteq visited_nodes
        /\ \A k \in 0 .. request.max_depth - 1, n \in NodeIds :
              n \in Layer("forward", k) => Spread(n, {})

TravTypes ==
    queue \in [Sides -> Seq(NodeIds \X Nat)] /\ expanding \in Expanding

TravInv ==
    request.kind = "Traverse" =>
        /\ items \in Seq(Items) /\ ranked = {} /\ path = None
        /\ TravTypes
        /\ pc \notin {"plan", "rejected"} =>
              IF contains_node(request.source)
              THEN /\ Emits /\ InReach
                   /\ pc = "traverse" => \E c \in Nat : Frontier(c)
                   /\ pc \in {"respond", "done", "refused"} /\ ~cut => Complete
              ELSE items = << >> /\ queue["forward"] = << >> /\ expanding.left = {}

LEMMA TravVisited ==
    ASSUME Emits
    PROVE  /\ IsFiniteSet(visited_nodes) /\ Cardinality(visited_nodes) \in Nat
           /\ IsFiniteSet(visited_edges) /\ Cardinality(visited_edges) \in Nat
BY QueryAssumption, FS_Subset, FS_CardinalityType DEF Emits

\* An edge from the node under expansion: what it adds to the items, ...
LEMMA EdgeEmits ==
    ASSUME Emits, request.limit \in Nat, NEW next \in EdgeIds \X NodeIds,
           NEW newEdge, newEdge = (/\ Cardinality(visited_edges) < request.limit
                                   /\ next[1] \notin visited_edges),
           visited_nodes' = visited_nodes \cup {next[2]},
           visited_edges' = IF newEdge THEN visited_edges \cup {next[1]} ELSE visited_edges,
           items' = items \o (IF newEdge THEN << <<"edge", next[1]>> >> ELSE << >>)
                       \o (IF NewNode(next[2]) THEN << <<"node", next[2]>> >> ELSE << >>),
           request' = request
    PROVE  /\ Emits'
           /\ Extends(items, items', "edge", next[1], newEdge)
           /\ Extends(items, items', "node", next[2], NewNode(next[2]))
<1> DEFINE e == next[1]
           x == next[2]
           newNode == NewNode(x)
<1>1. e \in EdgeIds /\ x \in NodeIds /\ newEdge \in BOOLEAN /\ newNode \in BOOLEAN
  BY DEF NewNode
<1>2. /\ items' \in Seq(Items)
      /\ Extends(items, items', "edge", e, newEdge)
      /\ Extends(items, items', "node", x, newNode)
  <2>1. items' = items \o (IF newEdge THEN << <<"edge", e>> >> ELSE << >>)
                       \o (IF newNode THEN << <<"node", x>> >> ELSE << >>)
    OBVIOUS
  <2>2. items \in Seq(Items)
    BY DEF Emits
  <2> HIDE DEF e, x, newNode
  <2> QED BY <1>1, <2>1, <2>2, AppendedBoth
<1>3. /\ IsFiniteSet(visited_nodes) /\ Cardinality(visited_nodes) \in Nat
      /\ IsFiniteSet(visited_edges) /\ Cardinality(visited_edges) \in Nat
  BY TravVisited
<1>4. /\ visited_nodes' \subseteq NodeIds /\ visited_edges' \subseteq EdgeIds
  BY <1>1 DEF Emits
<1>5. Cardinality(visited_nodes') = IF x \in visited_nodes THEN Cardinality(visited_nodes)
                                    ELSE Cardinality(visited_nodes) + 1
  BY <1>3, FS_AddElement
<1>6. Cardinality(visited_edges') = Cardinality(visited_edges) + (IF newEdge THEN 1 ELSE 0)
  <2>1. CASE newEdge
    <3>1. visited_edges' = visited_edges \cup {e} /\ e \notin visited_edges
      BY <2>1
    <3> QED BY <1>3, <2>1, <3>1, FS_AddElement
  <2>2. CASE ~newEdge
    BY <1>3, <2>2
  <2> QED BY <2>1, <2>2
<1>7. newNode <=> x \notin visited_nodes /\ Cardinality(visited_nodes) + 1 <= request.limit
  BY DEF NewNode
<1> HIDE DEF e, x, newNode
<1>8. Cardinality(Places(items, "edge")) \in Nat /\ Cardinality(Places(items, "node")) \in Nat
  BY PlacesFinite DEF Emits
<1>9. Shown(items', "edge") = visited_edges' /\ Distinct(items', "edge")
  BY <1>2 DEF Emits, Extends, e
<1>10. /\ Cardinality(Places(items', "edge")) = Cardinality(visited_edges')
       /\ Cardinality(visited_edges') <= request.limit
  <2>1. Cardinality(Places(items', "edge"))
           = Cardinality(Places(items, "edge")) + (IF newEdge THEN 1 ELSE 0)
    BY <1>2 DEF Extends
  <2> QED BY <1>3, <1>6, <1>8, <2>1 DEF Emits
<1>11. /\ Shown(items', "node") = Shown(items, "node") \cup (IF newNode THEN {x} ELSE {})
       /\ Cardinality(Places(items', "node"))
             = Cardinality(Places(items, "node")) + (IF newNode THEN 1 ELSE 0)
  BY <1>2 DEF Extends
<1>12. Shown(items', "node") \subseteq visited_nodes'
  BY <1>11 DEF Emits, x
<1>13. Distinct(items', "node")
  BY <1>2, <1>7 DEF Emits, Extends
<1>14. ASSUME Cardinality(visited_nodes') <= request.limit
       PROVE  /\ Shown(items', "node") = visited_nodes'
              /\ Cardinality(Places(items', "node")) = Cardinality(visited_nodes')
  <2>1. /\ Cardinality(visited_nodes) <= request.limit
        /\ newNode <=> x \notin visited_nodes
    BY <1>3, <1>5, <1>7, <1>14
  <2>2. /\ Shown(items, "node") = visited_nodes
        /\ Cardinality(Places(items, "node")) = Cardinality(visited_nodes)
    BY <2>1 DEF Emits
  <2>3. Shown(items', "node") = visited_nodes'
    BY <1>11, <2>1, <2>2 DEF x
  <2> QED BY <1>3, <1>5, <1>11, <2>1, <2>2, <2>3
<1>15. ASSUME Cardinality(visited_nodes') > request.limit
       PROVE  Cardinality(Places(items', "node")) = request.limit
  <2>1. ~newNode
    BY <1>3, <1>5, <1>7, <1>15
  <2>2. Cardinality(Places(items', "node")) = Cardinality(Places(items, "node"))
    BY <1>8, <1>11, <2>1
  <2>3. CASE Cardinality(visited_nodes) > request.limit
    BY <2>2, <2>3 DEF Emits
  <2>4. CASE ~(Cardinality(visited_nodes) > request.limit)
    <3>1. Cardinality(visited_nodes) = request.limit
      BY <1>3, <1>5, <1>15, <2>4
    <3> QED BY <1>3, <2>2, <3>1 DEF Emits
  <2> QED BY <2>3, <2>4
<1>16. Emits'
  BY <1>2, <1>4, <1>9, <1>10, <1>12, <1>13, <1>14, <1>15 DEF Emits
<1> QED BY <1>2, <1>16 DEF e, x, newNode

\* What one edge of the node under expansion does.
FollowEdge(next) ==
    LET newEdge == /\ Cardinality(visited_edges) < request.limit
                   /\ next[1] \notin visited_edges
    IN  /\ expanding' = [expanding EXCEPT !.left = @ \ {next}]
        /\ visited_nodes' = visited_nodes \cup {next[2]}
        /\ visited_edges' = IF newEdge THEN visited_edges \cup {next[1]} ELSE visited_edges
        /\ queue' = IF NewNode(next[2])
                    THEN [queue EXCEPT !["forward"] =
                            Append(@, <<next[2], expanding.depth + 1>>)]
                    ELSE queue
        /\ items' = items
              \o (IF newEdge THEN << <<"edge", next[1]>> >> ELSE << >>)
              \o (IF NewNode(next[2]) THEN << <<"node", next[2]>> >> ELSE << >>)

\* Its effect on the items and the sets of what was visited, without the
\* sequence operators.
Followed(next) ==
    LET newEdge == /\ Cardinality(visited_edges) < request.limit
                   /\ next[1] \notin visited_edges
    IN  /\ visited_nodes' = visited_nodes \cup {next[2]}
        /\ visited_edges \subseteq visited_edges'
        /\ next[1] \in visited_edges' \/ Cardinality(visited_edges') = request.limit
        /\ Cardinality(visited_edges) = request.limit =>
              Cardinality(visited_edges') = request.limit
        /\ Cardinality(visited_nodes) <= Cardinality(visited_nodes')
        /\ Extends(items, items', "edge", next[1], newEdge)
        /\ Extends(items, items', "node", next[2], NewNode(next[2]))

LEMMA EdgeFollowed ==
    ASSUME Emits, request.limit \in Nat, request' = request,
           NEW next \in EdgeIds \X NodeIds, FollowEdge(next)
    PROVE  Emits' /\ Followed(next)
<1> DEFINE newEdge == /\ Cardinality(visited_edges) < request.limit
                      /\ next[1] \notin visited_edges
<1>1. /\ visited_nodes' = visited_nodes \cup {next[2]}
      /\ visited_edges' = IF newEdge THEN visited_edges \cup {next[1]} ELSE visited_edges
      /\ items' = items \o (IF newEdge THEN << <<"edge", next[1]>> >> ELSE << >>)
                       \o (IF NewNode(next[2]) THEN << <<"node", next[2]>> >> ELSE << >>)
  BY DEF FollowEdge
<1>2. /\ Emits'
      /\ Extends(items, items', "edge", next[1], newEdge)
      /\ Extends(items, items', "node", next[2], NewNode(next[2]))
  <2> HIDE DEF newEdge
  <2>1. newEdge = (/\ Cardinality(visited_edges) < request.limit
                   /\ next[1] \notin visited_edges)
    BY DEF newEdge
  <2> QED BY <1>1, <2>1, EdgeEmits, Zenon
<1>3. /\ IsFiniteSet(visited_nodes) /\ Cardinality(visited_nodes) \in Nat
      /\ IsFiniteSet(visited_edges) /\ Cardinality(visited_edges) \in Nat
      /\ Cardinality(visited_edges) <= request.limit
  BY TravVisited DEF Emits
<1>4. Cardinality(visited_nodes) <= Cardinality(visited_nodes')
  <2>1. visited_nodes' = visited_nodes \cup {next[2]}
    BY <1>1
  <2>2. CASE next[2] \in visited_nodes
    <3>1. visited_nodes' = visited_nodes
      BY <2>1, <2>2
    <3> QED BY <1>3, <3>1
  <2>3. CASE next[2] \notin visited_nodes
    <3>1. Cardinality(visited_nodes') = Cardinality(visited_nodes) + 1
      BY <1>3, <2>1, <2>3, FS_AddElement
    <3> QED BY <1>3, <3>1
  <2> QED BY <2>2, <2>3
<1>5. /\ visited_edges \subseteq visited_edges'
      /\ next[1] \in visited_edges' \/ Cardinality(visited_edges') = request.limit
      /\ Cardinality(visited_edges) = request.limit =>
            Cardinality(visited_edges') = request.limit
  <2>1. CASE newEdge
    BY <1>1, <1>3, <2>1
  <2>2. CASE ~newEdge
    <3>1. visited_edges' = visited_edges
      BY <1>1, <2>2
    <3>2. next[1] \in visited_edges \/ ~(Cardinality(visited_edges) < request.limit)
      BY <2>2
    <3> HIDE DEF newEdge
    <3> QED BY <1>3, <3>1, <3>2
  <2> QED BY <2>1, <2>2
<1> QED BY <1>1, <1>2, <1>4, <1>5 DEF Followed

\* ... where the node it leads to lies, ...
LEMMA EdgeTarget ==
    ASSUME IsGraph(graph), IsRequest(request), request.source \in NodeIds,
           NEW c \in Nat, ExpandingIn(c), NEW next \in expanding.left
    PROVE  /\ next \in EdgeIds \X NodeIds
           /\ Labelled(next[2]) /\ Leads(next[1], expanding.node, next[2])
           /\ \E j \in 0 .. c + 1 : next[2] \in Layer("forward", j)
<1>1. /\ expanding.node \in Layer("forward", c)
      /\ next \in expand_neighbors(expanding.node, request.direction)
  BY DEF ExpandingIn
<1>2. "forward" \in Sides /\ Direction("forward") = request.direction
  BY DEF Sides, Direction
<1>3. /\ next \in EdgeIds \X NodeIds
      /\ Labelled(next[2])
      /\ LeadsTo("forward", next[1], expanding.node, next[2])
  BY <1>1, <1>2, ExpandIs
<1>4. StepTo("forward", expanding.node, next[2])
  BY <1>3, LeadsStep
<1>5. Origin("forward") \in NodeIds
  BY DEF Origin
<1>6. next[1] \in EdgeIds /\ next[2] \in NodeIds
  BY <1>3
<1> QED BY <1>1, <1>3, <1>4, <1>5, <1>6, LayerAfter DEF LeadsTo

\* ... one layer behind the layer under expansion, if it is new, ...
LEMMA NewNodeLayer ==
    ASSUME IsGraph(graph), IsRequest(request), request.source \in NodeIds, Emits,
           NEW c \in Nat, ExpandingIn(c), FoundUpTo(c), NEW next \in expanding.left,
           NewNode(next[2])
    PROVE  next[2] \in Layer("forward", c + 1)
<1>1. PICK j \in 0 .. c + 1 : next[2] \in Layer("forward", j)
  BY EdgeTarget
<1>2. Cardinality(visited_nodes) < request.limit /\ next[2] \notin visited_nodes
  BY TravVisited DEF NewNode, IsRequest
<1>3. \A k \in 0 .. c : Layer("forward", k) \subseteq visited_nodes
  BY <1>2 DEF FoundUpTo
<1>4. ~(j \in 0 .. c)
  BY <1>1, <1>2, <1>3
<1>5. j = c + 1
  BY <1>4
<1> QED BY <1>1, <1>5

\* ... and so the items stay in order.
LEMMA EdgeInReach ==
    ASSUME Common, graph' = graph, request' = request, request.source \in NodeIds,
           Emits, Emits', InReach, NEW c \in Nat, Frontier(c), NEW next \in expanding.left,
           Followed(next)
    PROVE  InReach'
<1> DEFINE e == next[1]
           x == next[2]
           newNode == NewNode(x)
           newEdge == /\ Cardinality(visited_edges) < request.limit
                      /\ e \notin visited_edges
<1>1. IsGraph(graph) /\ IsRequest(request) /\ ExpandingIn(c) /\ QueueInLayers(c) /\ FoundUpTo(c)
  BY DEF Common, Frontier
<1>2. /\ e \in EdgeIds /\ x \in NodeIds /\ Labelled(x) /\ Leads(e, expanding.node, x)
      /\ \E j \in 0 .. c + 1 : x \in Layer("forward", j)
  BY <1>1, EdgeTarget
<1>3. newNode => x \in Layer("forward", c + 1)
  BY <1>1, NewNodeLayer
<1>4. /\ c < request.max_depth /\ request.max_depth \in Nat
      /\ expanding.node \in Layer("forward", c) /\ expanding.node \in Shown(items, "node")
  BY <1>1 DEF ExpandingIn, IsRequest
<1>5. /\ visited_nodes' = visited_nodes \cup {x}
      /\ Extends(items, items', "edge", e, newEdge)
      /\ Extends(items, items', "node", x, newNode)
  BY DEF Followed
<1>6. \A a, b : Layer(a, b)' = Layer(a, b)
  BY LayerStays
<1>7. \A a, m, n : Leads(a, m, n)' <=> Leads(a, m, n)
  BY LeadsStays
<1>8. \A n : Labelled(n)' <=> Labelled(n)
  BY HopStays
<1> HIDE DEF e, x, newNode, newEdge
<1>9. \A n \in visited_nodes' : \E k \in 0 .. request.max_depth : n \in Layer("forward", k)
  BY <1>2, <1>4, <1>5 DEF InReach
<1>10. Places(items, "node") \subseteq Places(items', "node")
       /\ \A i \in Places(items, "node") : items'[i] = items[i]
  BY <1>5 DEF Extends
<1>11. ASSUME NEW i \in Places(items', "node"), NEW j \in Places(items', "node"), i < j,
              NEW a \in Nat, NEW b \in Nat,
              items'[i][2] \in Layer("forward", a), items'[j][2] \in Layer("forward", b)
       PROVE  a <= b
  <2>1. CASE i \in Places(items, "node") /\ j \in Places(items, "node")
    BY <1>10, <1>11, <2>1 DEF InReach
  <2>2. CASE j \notin Places(items, "node")
    <3>1. newNode /\ items'[j][2] = x
      BY <1>5, <2>2 DEF Extends
    <3>2. b = c + 1
      BY <1>3, <1>11, <3>1, LayerUnique
    <3>3. items'[i][2] \in Shown(items', "node")
      BY DEF Shown
    <3>4. Shown(items', "node") = Shown(items, "node") \cup {x}
      BY <1>5, <3>1 DEF Extends
    <3>5. CASE items'[i][2] = x
      BY <1>3, <1>11, <3>1, <3>2, <3>5, LayerUnique
    <3>6. CASE items'[i][2] \in Shown(items, "node")
      BY <1>1, <1>11, <3>2, <3>6 DEF QueueInLayers
    <3> QED BY <3>3, <3>4, <3>5, <3>6
  <2>3. CASE i \notin Places(items, "node") /\ j \in Places(items, "node")
    <3>1. \A k \in DOMAIN items : k < i
      BY <1>5, <2>3 DEF Extends
    <3>2. j \in DOMAIN items /\ i \in Int /\ j \in Int
      <4>1. items \in Seq(Items) /\ items' \in Seq(Items)
        BY DEF Emits
      <4>2. DOMAIN items = 1 .. Len(items) /\ DOMAIN items' = 1 .. Len(items')
        BY <4>1
      <4>3. i \in DOMAIN items' /\ j \in DOMAIN items
        BY <2>3 DEF Places
      <4> QED BY <4>2, <4>3
    <3>3. j < i
      BY <3>1, <3>2
    <3> QED BY <1>11, <3>2, <3>3
  <2> QED BY <2>1, <2>2, <2>3
<1>12. ASSUME NEW j \in Places(items', "edge")
       PROVE  \E i \in Places(items', "node"), n \in NodeIds, k \in 0 .. request.max_depth - 1 :
                 /\ i < j /\ Labelled(n) /\ items'[i][2] \in Layer("forward", k)
                 /\ Leads(items'[j][2], items'[i][2], n)
  <2>1. CASE j \in Places(items, "edge")
    <3>1. items'[j] = items[j]
      BY <1>5, <2>1 DEF Extends
    <3>2. PICK i \in Places(items, "node"), n \in NodeIds, k \in 0 .. request.max_depth - 1 :
              /\ i < j /\ Labelled(n) /\ items[i][2] \in Layer("forward", k)
              /\ Leads(items[j][2], items[i][2], n)
      BY <2>1 DEF InReach
    <3> QED BY <1>10, <3>1, <3>2
  <2>2. CASE j \notin Places(items, "edge")
    <3>1. items'[j][2] = e /\ \A i \in DOMAIN items : i < j
      BY <1>5, <2>2 DEF Extends
    <3>2. PICK i \in Places(items, "node") : items[i][2] = expanding.node
      BY <1>4 DEF Shown
    <3>3. i \in Places(items', "node") /\ items'[i][2] = expanding.node /\ i < j
      BY <1>10, <3>1, <3>2 DEF Places
    <3>4. c \in 0 .. request.max_depth - 1
      BY <1>4
    <3> QED BY <1>2, <1>4, <3>1, <3>3, <3>4
  <2> QED BY <2>1, <2>2
<1> QED BY <1>6, <1>7, <1>8, <1>9, <1>11, <1>12 DEF InReach

\* A queue with one more entry.
LEMMA AppendedEntry ==
    ASSUME NEW s \in Seq(NodeIds \X Nat), NEW x \in NodeIds \X Nat
    PROVE  /\ Append(s, x) \in Seq(NodeIds \X Nat)
           /\ Len(Append(s, x)) = Len(s) + 1 /\ Len(s) \in Nat
           /\ DOMAIN Append(s, x) = (DOMAIN s) \cup {Len(s) + 1}
           /\ \A i \in DOMAIN s : i \in Nat /\ i < Len(s) + 1 /\ Append(s, x)[i] = s[i]
           /\ Append(s, x)[Len(s) + 1] = x
OBVIOUS

\* A queue without its first entry.
LEMMA RestOfQueue ==
    ASSUME NEW s \in Seq(NodeIds \X Nat), s # << >>
    PROVE  /\ Tail(s) \in Seq(NodeIds \X Nat)
           /\ Len(s) \in Nat \ {0} /\ Len(Tail(s)) = Len(s) - 1
           /\ 1 \in DOMAIN s /\ s[1] = Head(s) /\ s[1] \in NodeIds \X Nat
           /\ \A i \in DOMAIN s : i \in Nat /\ (i # 1 => i - 1 \in DOMAIN Tail(s))
           /\ \A i \in DOMAIN Tail(s) :
                 i \in Nat \ {0} /\ i + 1 \in DOMAIN s /\ Tail(s)[i] = s[i + 1]
OBVIOUS

LEMMA DomainOfQueue ==
    ASSUME NEW f \in [Sides -> Seq(NodeIds \X Nat)], NEW side \in Sides
    PROVE  \A i \in DOMAIN f[side] : i \in Nat
<1>1. f[side] \in Seq(NodeIds \X Nat)
  OBVIOUS
<1>2. DOMAIN f[side] = 1 .. Len(f[side])
  BY <1>1
<1> QED BY <1>2

LEMMA SpreadGrows ==
    ASSUME graph' = graph, request' = request, visited_nodes \subseteq visited_nodes',
           visited_edges \subseteq visited_edges',
           Cardinality(visited_edges) = request.limit =>
              Cardinality(visited_edges') = request.limit,
           NEW n, NEW left, Spread(n, left)
    PROVE  Spread(n, left)'
BY ExpandStays DEF Spread

\* The queue after one edge of the node under expansion, ...
LEMMA EdgeQueue ==
    ASSUME Emits, NEW c \in Nat, NEW next \in EdgeIds \X NodeIds, TravTypes, FollowEdge(next),
           expanding.depth = c
    PROVE  LET q == queue["forward"]
               r == queue'["forward"]
           IN  /\ queue' \in [Sides -> Seq(NodeIds \X Nat)]
               /\ DOMAIN q \subseteq DOMAIN r
               /\ \A i \in DOMAIN q : r[i] = q[i]
               /\ \A i \in DOMAIN r : i \notin DOMAIN q =>
                     /\ NewNode(next[2]) /\ r[i] = <<next[2], c + 1>>
                     /\ \A j \in DOMAIN r : j # i => j < i
               /\ NewNode(next[2]) => \E i \in DOMAIN r : r[i] = <<next[2], c + 1>>
<1> DEFINE q == queue["forward"]
           r == queue'["forward"]
           x == <<next[2], c + 1>>
<1>1. q \in Seq(NodeIds \X Nat) /\ x \in NodeIds \X Nat /\ "forward" \in Sides
      /\ queue \in [Sides -> Seq(NodeIds \X Nat)]
  BY DEF TravTypes, Sides
<1>2. CASE NewNode(next[2])
  <2>1. queue' = [queue EXCEPT !["forward"] = Append(q, x)]
    BY <1>2 DEF FollowEdge
  <2> HIDE DEF x
  <2>2. r = Append(q, x)
    BY <1>1, <2>1
  <2>3. Append(q, x) \in Seq(NodeIds \X Nat)
    BY <1>1, AppendedEntry
  <2>4. queue' \in [Sides -> Seq(NodeIds \X Nat)]
    BY <1>1, <2>1, <2>3
  <2>5. /\ Len(q) \in Nat
        /\ DOMAIN r = (DOMAIN q) \cup {Len(q) + 1}
        /\ \A i \in DOMAIN q : i \in Nat /\ i < Len(q) + 1 /\ r[i] = q[i]
        /\ r[Len(q) + 1] = x
    <3> HIDE DEF q, r
    <3> QED BY <1>1, <2>2, AppendedEntry
  <2> HIDE DEF q, r
  <2> QED BY <1>2, <2>4, <2>5 DEF q, r, x
<1>3. CASE ~NewNode(next[2])
  <2>1. queue' = queue
    BY <1>3 DEF FollowEdge
  <2> QED BY <1>1, <1>3, <2>1
<1> QED BY <1>2, <1>3

\* ... and the frontier.
LEMMA EdgeFrontier ==
    ASSUME Common, graph' = graph, request' = request, request.source \in NodeIds,
           Emits, Emits', TravTypes, NEW c \in Nat, Frontier(c), NEW next \in expanding.left,
           FollowEdge(next), Followed(next)
    PROVE  TravTypes' /\ Frontier(c)'
<1> DEFINE x == next[2]
           newNode == NewNode(x)
           q == queue["forward"]
           r == queue'["forward"]
<1>1. /\ IsGraph(graph) /\ IsRequest(request) /\ ExpandingIn(c) /\ QueueInLayers(c)
      /\ FoundUpTo(c) /\ c <= request.max_depth
  BY DEF Common, Frontier
<1>2. next \in EdgeIds \X NodeIds /\ x \in NodeIds
  BY <1>1, EdgeTarget
<1>3. newNode => x \in Layer("forward", c + 1)
  BY <1>1, NewNodeLayer
<1>4. /\ expanding.depth = c /\ c < request.max_depth /\ request.max_depth \in Nat
      /\ request.limit \in Nat
      /\ expanding.node \in Layer("forward", c) /\ expanding.node \in Shown(items, "node")
      /\ expanding.left \subseteq expand_neighbors(expanding.node, request.direction)
  BY <1>1 DEF ExpandingIn, IsRequest
<1>5. /\ visited_nodes' = visited_nodes \cup {x}
      /\ visited_edges \subseteq visited_edges'
      /\ next[1] \in visited_edges' \/ Cardinality(visited_edges') = request.limit
      /\ Cardinality(visited_edges) = request.limit =>
            Cardinality(visited_edges') = request.limit
      /\ Cardinality(visited_nodes) <= Cardinality(visited_nodes')
      /\ Shown(items', "node") = Shown(items, "node") \cup (IF newNode THEN {x} ELSE {})
  BY DEF Followed, Extends
<1>6. \A a, b : Layer(a, b)' = Layer(a, b)
  BY LayerStays
<1>7. \A n, d : expand_neighbors(n, d)' = expand_neighbors(n, d)
  BY ExpandStays
<1>8. /\ queue' \in [Sides -> Seq(NodeIds \X Nat)]
      /\ DOMAIN q \subseteq DOMAIN r
      /\ \A i \in DOMAIN q : r[i] = q[i]
      /\ \A i \in DOMAIN r : i \notin DOMAIN q =>
            /\ newNode /\ r[i] = <<x, c + 1>> /\ \A j \in DOMAIN r : j # i => j < i
      /\ newNode => \E i \in DOMAIN r : r[i] = <<x, c + 1>>
  BY <1>2, <1>4, EdgeQueue
<1>9. /\ expanding' \in Expanding
      /\ expanding'.node = expanding.node /\ expanding'.depth = expanding.depth
      /\ expanding'.left = expanding.left \ {next}
  <2>1. expanding \in Expanding /\ expanding' = [expanding EXCEPT !.left = @ \ {next}]
    BY DEF FollowEdge, TravTypes
  <2> QED BY <2>1 DEF Expanding
<1> HIDE DEF x, newNode, q, r
<1>10. TravTypes'
  BY <1>8, <1>9 DEF TravTypes
<1>11. Shown(items, "node") \subseteq Shown(items', "node")
       /\ (newNode => x \in Shown(items', "node"))
  BY <1>5
<1>12. QueueInLayers(c)'
  <2>1. ASSUME NEW i \in DOMAIN r
        PROVE  /\ r[i][2] \in {c, c + 1}
               /\ r[i][2] <= request.max_depth
               /\ r[i][1] \in Shown(items', "node")
               /\ r[i][1] \in Layer("forward", r[i][2])
    <3>1. CASE i \in DOMAIN q
      BY <1>1, <1>8, <1>11, <3>1 DEF QueueInLayers, q
    <3>2. CASE i \notin DOMAIN q
      <4>1. newNode /\ r[i][1] = x /\ r[i][2] = c + 1
        BY <1>8, <3>2
      <4> QED BY <1>3, <1>4, <1>11, <4>1
    <3> QED BY <3>1, <3>2
  <2>2. ASSUME NEW i \in DOMAIN r, NEW j \in DOMAIN r, i < j
        PROVE  r[i][2] <= r[j][2]
    <3>1. CASE i \in DOMAIN q /\ j \in DOMAIN q
      BY <1>1, <1>8, <2>2, <3>1 DEF QueueInLayers, q
    <3>2. CASE j \notin DOMAIN q
      <4>1. r[j][2] = c + 1
        BY <1>8, <3>2
      <4> QED BY <2>1, <4>1
    <3>3. CASE i \notin DOMAIN q
      <4>1. i # j
        <5>1. i \in Int
          BY <1>8, DomainOfQueue DEF r, Sides
        <5> QED BY <2>2, <5>1
      <4>2. j < i
        BY <1>8, <3>3, <4>1
      <4>3. i \in Int /\ j \in Int
        BY <1>8, DomainOfQueue DEF r, Sides
      <4> QED BY <2>2, <4>2, <4>3
    <3> QED BY <3>1, <3>2, <3>3
  <2>3. ASSUME NEW n \in Shown(items', "node"), NEW k \in Nat, n \in Layer("forward", k)
        PROVE  k <= c + 1
    <3>1. CASE n \in Shown(items, "node")
      BY <1>1, <2>3, <3>1 DEF QueueInLayers
    <3>2. CASE n \notin Shown(items, "node")
      <4>1. newNode /\ n = x
        BY <1>5, <3>2
      <4>2. k = c + 1
        BY <1>3, <2>3, <4>1, LayerUnique
      <4> QED BY <4>2
    <3> QED BY <3>1, <3>2
  <2> QED BY <1>6, <2>1, <2>2, <2>3 DEF QueueInLayers, r
<1>13. ExpandingIn(c)'
  BY <1>4, <1>6, <1>7, <1>9, <1>11 DEF ExpandingIn
<1>14. FoundUpTo(c)'
  <2> SUFFICES ASSUME Cardinality(visited_nodes') < request.limit PROVE FoundUpTo(c)'
    BY DEF FoundUpTo
  <2>1. Cardinality(visited_nodes) < request.limit
    <3>1. visited_nodes' \subseteq NodeIds
      BY DEF Emits
    <3>2. Cardinality(visited_nodes') \in Nat /\ Cardinality(visited_nodes) \in Nat
      BY <3>1, TravVisited, QueryAssumption, FS_Subset, FS_CardinalityType
    <3> QED BY <1>4, <1>5, <3>2
  <2>2. ASSUME NEW n, Queued(n) PROVE Queued(n)'
    BY <1>8, <2>2 DEF Queued, q, r
  <2>3. ASSUME NEW k \in 0 .. c, NEW n \in NodeIds, n \in Layer("forward", k),
               k < request.max_depth
        PROVE  \/ Queued(n)'
               \/ Spread(n, {})'
               \/ n = expanding'.node /\ Spread(n, expanding.left)'
    <3>1. CASE Queued(n)
      BY <2>2, <3>1
    <3>2. CASE Spread(n, {})
      BY <1>5, <3>2, SpreadGrows
    <3>3. CASE n = expanding.node /\ Spread(n, expanding.left)
      <4> DEFINE L == expanding.left
      <4>1. Spread(n, L)
        BY <3>3
      <4>2. ASSUME NEW y \in expand_neighbors(n, request.direction) \ expanding'.left
            PROVE  /\ y[2] \in visited_nodes'
                   /\ y[1] \in visited_edges' \/ Cardinality(visited_edges') = request.limit
        <5>1. CASE y = next
          BY <1>5, <5>1 DEF x
        <5>2. CASE y # next
          <6>1. y \in expand_neighbors(n, request.direction) \ L
            BY <1>9, <5>2
          <6> QED BY <1>5, <4>1, <6>1 DEF Spread
        <5> QED BY <5>1, <5>2
      <4>3. Spread(n, expanding.left)'
        BY <1>7, <4>2 DEF Spread
      <4> QED BY <1>9, <3>3, <4>3
    <3> QED BY <1>1, <2>1, <2>3, <3>1, <3>2, <3>3 DEF FoundUpTo
  <2>4. ASSUME NEW n \in Shown(items', "node"), n \in Layer("forward", c + 1)
        PROVE  Queued(n)'
    <3>1. CASE n \in Shown(items, "node")
      BY <1>1, <2>1, <2>2, <2>4, <3>1 DEF FoundUpTo
    <3>2. CASE n \notin Shown(items, "node")
      <4>1. newNode /\ n = x
        BY <1>5, <3>2
      <4> QED BY <1>8, <4>1 DEF Queued, r
    <3> QED BY <3>1, <3>2
  <2>5. \A k \in 0 .. c : Layer("forward", k) \subseteq visited_nodes'
    BY <1>1, <1>5, <2>1 DEF FoundUpTo
  <2> QED BY <1>6, <2>3, <2>4, <2>5 DEF FoundUpTo
<1> QED BY <1>1, <1>10, <1>12, <1>13, <1>14 DEF Frontier

\* When nothing of layer c is queued or under expansion, the next layer is found.
LEMMA NextLayerFound ==
    ASSUME Common, request.source \in NodeIds, NEW c \in Nat, FoundUpTo(c),
           expanding.left = {}, Cardinality(visited_nodes) < request.limit,
           \A n, k : n \in Layer("forward", k) /\ k \in 0 .. c => ~Queued(n)
    PROVE  /\ \A k \in 0 .. c, n \in NodeIds :
                 n \in Layer("forward", k) /\ k < request.max_depth => Spread(n, {})
           /\ c < request.max_depth => Layer("forward", c + 1) \subseteq visited_nodes
<1>1. ASSUME NEW k \in 0 .. c, NEW n \in NodeIds, n \in Layer("forward", k),
             k < request.max_depth
      PROVE  Spread(n, {})
  BY <1>1 DEF FoundUpTo
<1>2. ASSUME c < request.max_depth, NEW y \in Layer("forward", c + 1)
      PROVE  y \in visited_nodes
  <2>1. Origin("forward") \in NodeIds /\ "forward" \in Sides
        /\ Direction("forward") = request.direction
    BY DEF Origin, Sides, Direction
  <2>2. /\ y \in NodeIds /\ Labelled(y)
        /\ \E m \in Layer("forward", c) : StepTo("forward", m, y)
    BY <2>1, LayerBefore
  <2>3. PICK m \in Layer("forward", c) : StepTo("forward", m, y)
    BY <2>2
  <2>4. PICK e \in EdgeIds : Leads(e, m, y)
    BY <2>3 DEF StepTo, Hop
  <2> DEFINE next == <<e, y>>
  <2>5. /\ next \in EdgeIds \X NodeIds /\ Labelled(next[2])
        /\ LeadsTo("forward", next[1], m, next[2])
    BY <2>2, <2>4 DEF LeadsTo
  <2>6. IsGraph(graph) /\ IsRequest(request)
    BY DEF Common
  <2>7. next[2] = y
    OBVIOUS
  <2> HIDE DEF next
  <2>8. next \in expand_neighbors(m, request.direction)
    BY <2>1, <2>5, <2>6, ExpandIs
  <2>9. m \in NodeIds /\ c \in 0 .. c
    BY <2>1, LayerNodes
  <2>10. Spread(m, {})
    BY <1>1, <1>2, <2>9
  <2> QED BY <2>7, <2>8, <2>10 DEF Spread
<1> QED BY <1>1, <1>2

\* The next queued node, without a deadline.
LEMMA PopFrontier ==
    ASSUME Common, graph' = graph, request' = request, request.source \in NodeIds,
           Emits, TravTypes, NEW c \in Nat, Frontier(c), expanding.left = {},
           NEW n, NEW depth, n = queue["forward"][1][1], depth = queue["forward"][1][2],
           queue["forward"] # << >>,
           queue' = [queue EXCEPT !["forward"] = Tail(@)],
           visited_nodes' = visited_nodes, visited_edges' = visited_edges, items' = items,
           IF depth = request.max_depth \/ Cardinality(visited_nodes) >= request.limit
           THEN expanding' = expanding
           ELSE expanding' = [Idle EXCEPT !.node = n, !.depth = depth,
                                !.left = expand_neighbors(n, request.direction)]
    PROVE  TravTypes' /\ \E d \in Nat : Frontier(d)'
<1> DEFINE q == queue["forward"]
           r == queue'["forward"]
<1>1. /\ IsGraph(graph) /\ IsRequest(request) /\ QueueInLayers(c) /\ FoundUpTo(c)
      /\ c <= request.max_depth /\ request.max_depth \in Nat /\ request.limit \in Nat
  BY DEF Common, Frontier, IsRequest
<1>2. /\ queue \in [Sides -> Seq(NodeIds \X Nat)] /\ "forward" \in Sides
      /\ q \in Seq(NodeIds \X Nat) /\ q # << >>
  BY DEF TravTypes, Sides
<1>3. r = Tail(q)
  BY <1>2
<1>4. /\ r \in Seq(NodeIds \X Nat) /\ 1 \in DOMAIN q /\ q[1] \in NodeIds \X Nat
      /\ \A i \in DOMAIN q : i \in Nat /\ (i # 1 => i - 1 \in DOMAIN r)
      /\ \A i \in DOMAIN r : i \in Nat \ {0} /\ i + 1 \in DOMAIN q /\ r[i] = q[i + 1]
  <2> HIDE DEF q, r
  <2> QED BY <1>2, <1>3, RestOfQueue
<1>5. queue' \in [Sides -> Seq(NodeIds \X Nat)]
  BY <1>2, <1>3, <1>4
<1>6. /\ n \in NodeIds /\ depth \in Nat /\ q[1][1] = n /\ q[1][2] = depth
      /\ depth \in {c, c + 1} /\ depth <= request.max_depth
      /\ n \in Shown(items, "node") /\ n \in Layer("forward", depth)
  BY <1>1, <1>4 DEF QueueInLayers
<1>7. \A a, b : Layer(a, b)' = Layer(a, b)
  BY LayerStays
<1>8. \A m, d : expand_neighbors(m, d)' = expand_neighbors(m, d)
  BY ExpandStays
<1> HIDE DEF q, r
<1>10. expanding' \in Expanding
  <2>1. CASE expanding' = expanding
    BY <2>1 DEF TravTypes
  <2>2. CASE expanding' = [Idle EXCEPT !.node = n, !.depth = depth,
                                !.left = expand_neighbors(n, request.direction)]
    <3>1. expand_neighbors(n, request.direction) \subseteq EdgeIds \X NodeIds
      BY <1>1, ExpandIs DEF Direction, Sides
    <3> QED BY <1>6, <2>2, <3>1 DEF Idle, Expanding, Sides
  <2> QED BY <2>1, <2>2
<1>11. TravTypes'
  BY <1>5, <1>10 DEF TravTypes
<1>12. ASSUME NEW i \in DOMAIN r
       PROVE  /\ r[i][2] \in {depth, depth + 1}
              /\ r[i][2] <= request.max_depth
              /\ r[i][1] \in Shown(items, "node")
              /\ r[i][1] \in Layer("forward", r[i][2])
  <2>1. i + 1 \in DOMAIN q /\ r[i] = q[i + 1] /\ 1 < i + 1
    BY <1>4
  <2>2. /\ q[i + 1][2] \in {c, c + 1} /\ q[1][2] <= q[i + 1][2]
        /\ q[i + 1][2] <= request.max_depth
        /\ q[i + 1][1] \in Shown(items, "node")
        /\ q[i + 1][1] \in Layer("forward", q[i + 1][2])
    BY <1>1, <1>4, <2>1 DEF QueueInLayers, q
  <2> QED BY <1>6, <2>1, <2>2
<1>13. QueueInLayers(depth)'
  <2>1. ASSUME NEW i \in DOMAIN r, NEW j \in DOMAIN r, i < j PROVE r[i][2] <= r[j][2]
    <3>1. /\ i + 1 \in DOMAIN q /\ r[i] = q[i + 1]
          /\ j + 1 \in DOMAIN q /\ r[j] = q[j + 1] /\ i + 1 < j + 1
      BY <1>4, <2>1
    <3> QED BY <1>1, <3>1 DEF QueueInLayers, q
  <2>2. \A m \in Shown(items, "node"), k \in Nat : m \in Layer("forward", k) => k <= depth + 1
    BY <1>1, <1>6 DEF QueueInLayers
  <2> QED BY <1>7, <1>12, <2>1, <2>2 DEF QueueInLayers, r
<1>14. ~(depth = request.max_depth \/ Cardinality(visited_nodes) >= request.limit) =>
          /\ expanding'.node = n /\ expanding'.depth = depth
          /\ expanding'.left = expand_neighbors(n, request.direction)
  BY DEF Idle
<1>15. ExpandingIn(depth)'
  <2>1. CASE depth = request.max_depth \/ Cardinality(visited_nodes) >= request.limit
    BY <2>1 DEF ExpandingIn
  <2>2. CASE ~(depth = request.max_depth \/ Cardinality(visited_nodes) >= request.limit)
    BY <1>1, <1>6, <1>7, <1>8, <1>14, <2>2 DEF ExpandingIn
  <2> QED BY <2>1, <2>2
<1>16. FoundUpTo(depth)'
  <2> SUFFICES ASSUME Cardinality(visited_nodes) < request.limit PROVE FoundUpTo(depth)'
    BY DEF FoundUpTo
  <2>1. ~(Cardinality(visited_nodes) >= request.limit)
    BY <1>1, TravVisited
  <2>2. ASSUME NEW m, Queued(m), m # n PROVE Queued(m)'
    <3>1. PICK i \in DOMAIN q : q[i][1] = m
      BY <2>2 DEF Queued, q
    <3>2. i # 1
      BY <1>6, <2>2, <3>1
    <3>3. i - 1 \in DOMAIN r /\ r[i - 1] = q[i]
      <4>1. i - 1 \in DOMAIN r /\ i \in Nat
        BY <1>4, <3>2
      <4>2. r[i - 1] = q[(i - 1) + 1] /\ (i - 1) + 1 = i
        BY <1>4, <4>1
      <4> QED BY <4>1, <4>2
    <3> QED BY <3>1, <3>3 DEF Queued, r
  <2>3. ASSUME NEW m, Spread(m, {}) PROVE Spread(m, {})'
    BY <1>8, <2>3 DEF Spread
  <2>4. ASSUME depth < request.max_depth
        PROVE  n = expanding'.node /\ Spread(n, expanding.left)'
    <3>1. expanding'.node = n /\ expanding'.left = expand_neighbors(n, request.direction)
      BY <1>6, <1>14, <2>1, <2>4
    <3> QED BY <1>8, <3>1 DEF Spread
  <2>5. CASE depth = c
    <3>1. \A k \in 0 .. depth : Layer("forward", k) \subseteq visited_nodes
      BY <1>1, <2>5 DEF FoundUpTo
    <3>2. ASSUME NEW k \in 0 .. depth, NEW m \in NodeIds, m \in Layer("forward", k),
                 k < request.max_depth
          PROVE  \/ Queued(m)'
                 \/ Spread(m, {})'
                 \/ m = expanding'.node /\ Spread(m, expanding.left)'
      <4>1. \/ Queued(m) \/ Spread(m, {})
            \/ m = expanding.node /\ Spread(m, expanding.left)
        BY <1>1, <2>5, <3>2 DEF FoundUpTo
      <4>2. CASE Queued(m) /\ m # n
        BY <2>2, <4>2
      <4>3. CASE m = n
        <5>1. k = depth
          BY <1>6, <3>2, <4>3, LayerUnique
        <5> QED BY <2>4, <3>2, <4>3, <5>1
      <4>4. CASE Spread(m, {})
        BY <2>3, <4>4
      <4>5. CASE m = expanding.node /\ Spread(m, expanding.left)
        <5>1. Spread(m, {})
          BY <4>5
        <5> QED BY <2>3, <5>1
      <4> QED BY <4>1, <4>2, <4>3, <4>4, <4>5
    <3>3. ASSUME NEW m \in Shown(items, "node"), m \in Layer("forward", depth + 1)
          PROVE  Queued(m)'
      <4>1. Queued(m)
        BY <1>1, <2>5, <3>3 DEF FoundUpTo
      <4>2. m # n
        <5>1. depth + 1 \in Nat /\ depth + 1 # depth
          BY <1>6
        <5> QED BY <1>6, <3>3, <5>1, LayerUnique
      <4> QED BY <2>2, <4>1, <4>2
    <3> QED BY <1>7, <3>1, <3>2, <3>3 DEF FoundUpTo
  <2>6. CASE depth = c + 1
    <3>1. ASSUME NEW m, NEW k \in 0 .. c, m \in Layer("forward", k) PROVE ~Queued(m)
      <4> SUFFICES ASSUME NEW i \in DOMAIN q, q[i][1] = m PROVE FALSE
        BY DEF Queued, q
      <4>1. q[i][2] \in {c, c + 1} /\ q[1][2] <= q[i][2] /\ m \in Layer("forward", q[i][2])
        <5>1. q[i][2] \in {c, c + 1} /\ m \in Layer("forward", q[i][2])
          BY <1>1 DEF QueueInLayers, q
        <5>2. CASE i = 1
          BY <1>6, <5>1, <5>2
        <5>3. CASE i # 1
          <6>1. 1 < i
            <7>1. i \in Nat /\ i - 1 \in DOMAIN r
              BY <1>4, <5>3
            <7>2. i - 1 \in Nat \ {0}
              BY <1>4, <7>1
            <7> QED BY <7>1, <7>2
          <6> QED BY <1>1, <1>4, <5>1, <6>1 DEF QueueInLayers, q
        <5> QED BY <5>2, <5>3
      <4>2. q[i][2] = c + 1
        BY <1>6, <2>6, <4>1
      <4>3. m \in Layer("forward", c + 1) /\ c + 1 \in Nat /\ k \in Nat /\ k # c + 1
        BY <4>1, <4>2
      <4> QED BY <3>1, <4>3, LayerUnique
    <3>2. c < request.max_depth
      BY <1>1, <1>6, <2>6
    <3>3. /\ \A k \in 0 .. c, m \in NodeIds :
                m \in Layer("forward", k) /\ k < request.max_depth => Spread(m, {})
          /\ Layer("forward", c + 1) \subseteq visited_nodes
      BY <1>1, <3>1, <3>2, NextLayerFound
    <3>4. \A k \in 0 .. depth : Layer("forward", k) \subseteq visited_nodes
      <4>1. \A k \in 0 .. depth : k \in 0 .. c \/ k = c + 1
        BY <2>6
      <4>2. \A k \in 0 .. c : Layer("forward", k) \subseteq visited_nodes
        BY <1>1 DEF FoundUpTo
      <4> QED BY <3>3, <4>1, <4>2
    <3>5. visited_nodes = Shown(items, "node")
      BY <1>1, TravVisited DEF Emits
    <3>6. ASSUME NEW k \in 0 .. depth, NEW m \in NodeIds, m \in Layer("forward", k),
                 k < request.max_depth
          PROVE  \/ Queued(m)'
                 \/ Spread(m, {})'
                 \/ m = expanding'.node /\ Spread(m, expanding.left)'
      <4>1. CASE k \in 0 .. c
        BY <2>3, <3>3, <3>6, <4>1
      <4>2. CASE k = c + 1
        <5>1. Queued(m)
          BY <1>1, <3>3, <3>5, <3>6, <4>2 DEF FoundUpTo
        <5>2. CASE m # n
          BY <2>2, <5>1, <5>2
        <5>3. CASE m = n
          BY <2>4, <2>6, <3>6, <4>2, <5>3
        <5> QED BY <5>2, <5>3
      <4> QED BY <2>6, <4>1, <4>2
    <3>7. ASSUME NEW m \in Shown(items, "node"), m \in Layer("forward", depth + 1)
          PROVE  Queued(m)'
      <4>1. depth + 1 \in Nat /\ ~(depth + 1 <= c + 1)
        BY <1>6, <2>6
      <4> QED BY <1>1, <3>7, <4>1 DEF QueueInLayers
    <3> QED BY <1>7, <3>4, <3>6, <3>7 DEF FoundUpTo
  <2> QED BY <1>6, <2>5, <2>6
<1> QED BY <1>6, <1>11, <1>13, <1>15, <1>16, <1>1 DEF Frontier

\* An empty queue leaves nothing to find.
LEMMA EmptyQueueComplete ==
    ASSUME Common, request.source \in NodeIds, Emits, NEW c \in Nat, Frontier(c),
           expanding.left = {}, queue["forward"] = << >>
    PROVE  Complete
<1> SUFFICES ASSUME Cardinality(visited_nodes) < request.limit PROVE Complete
  BY DEF Complete
<1>1. /\ FoundUpTo(c) /\ c <= request.max_depth /\ request.max_depth \in Nat
      /\ request.limit \in Nat
  BY DEF Common, Frontier, IsRequest
<1>2. \A n : ~Queued(n)
  BY DEF Queued
<1>3. /\ \A k \in 0 .. c, n \in NodeIds :
            n \in Layer("forward", k) /\ k < request.max_depth => Spread(n, {})
      /\ c < request.max_depth => Layer("forward", c + 1) \subseteq visited_nodes
  BY <1>1, <1>2, NextLayerFound
<1>4. visited_nodes = Shown(items, "node")
  BY <1>1, TravVisited DEF Emits
<1>5. c < request.max_depth => Layer("forward", c + 1) = {}
  BY <1>1, <1>2, <1>3, <1>4 DEF FoundUpTo
<1>6. ASSUME NEW k \in 0 .. request.max_depth, k \notin 0 .. c PROVE Layer("forward", k) = {}
  <2>1. c + 1 \in 0 .. k /\ k \in Nat /\ c < request.max_depth
    BY <1>1, <1>6
  <2>2. Origin("forward") \in NodeIds
    BY DEF Origin
  <2> QED BY <1>5, <2>1, <2>2, LayersBelow
<1>7. \A k \in 0 .. request.max_depth : Layer("forward", k) \subseteq visited_nodes
  BY <1>1, <1>6 DEF FoundUpTo
<1>8. ASSUME NEW k \in 0 .. request.max_depth - 1, NEW n \in NodeIds, n \in Layer("forward", k)
      PROVE  Spread(n, {})
  <2>1. k \in 0 .. request.max_depth /\ k < request.max_depth
    BY <1>1
  <2>2. k \in 0 .. c
    BY <1>6, <1>8, <2>1
  <2> QED BY <1>3, <1>8, <2>1, <2>2
<1> QED BY <1>7, <1>8 DEF Complete

\* The source is found first.
LEMMA SourceQueued ==
    ASSUME Common, graph' = graph, request' = request, request.source \in NodeIds,
           visited_nodes' = {request.source}, DOMAIN queue'["forward"] = {1},
           queue'["forward"][1][1] = request.source, queue'["forward"][1][2] = 0,
           Shown(items', "node") = {request.source}, expanding'.left = {}
    PROVE  Frontier(0)'
<1>1. request.limit \in Nat /\ request.max_depth \in Nat
  BY DEF Common, IsRequest
<1>2. \A a, b : Layer(a, b)' = Layer(a, b)
  BY LayerStays
<1>3. Layer("forward", 0) = {request.source}
  BY LayerNodes DEF Origin
<1>4. \A k \in Nat : request.source \in Layer("forward", k) => k = 0
  BY <1>3, LayerUnique
<1>5. QueueInLayers(0)'
  BY <1>1, <1>2, <1>3, <1>4 DEF QueueInLayers
<1>6. Queued(request.source)'
  BY DEF Queued
<1>7. FoundUpTo(0)'
  <2>1. \A k \in 0 .. 0 : k = 0
    OBVIOUS
  <2>2. 1 \in Nat /\ 0 + 1 = 1 /\ 1 # 0
    OBVIOUS
  <2> QED BY <1>2, <1>3, <1>4, <1>6, <2>1, <2>2 DEF FoundUpTo
<1>8. ExpandingIn(0)'
  BY DEF ExpandingIn
<1> QED BY <1>1, <1>5, <1>7, <1>8 DEF Frontier

LEMMA SourceFrontier ==
    ASSUME Common, Fresh, graph' = graph, request' = request, request.source \in NodeIds,
           request.limit # 0,
           visited_nodes' = {request.source}, visited_edges' = visited_edges,
           queue' = [queue EXCEPT !["forward"] = << <<request.source, 0>> >>],
           items' = << <<"node", request.source>> >>, expanding' = expanding
    PROVE  Emits' /\ InReach' /\ TravTypes' /\ Frontier(0)'
<1> DEFINE s == request.source
           q == << <<s, 0>> >>
<1>1. request.limit \in Nat \ {0} /\ request.max_depth \in Nat
  BY DEF Common, IsRequest
<1>2. expanding = Idle /\ visited_edges = {} /\ queue = [side \in Sides |-> << >>]
  BY DEF Fresh
<1>3. \A a, b : Layer(a, b)' = Layer(a, b)
  BY LayerStays
<1>4. Layer("forward", 0) = {s}
  BY LayerNodes DEF Origin
<1>5. items' = Append(<< >>, <<"node", s>>)
  OBVIOUS
<1>6. << >> \in Seq(Items) /\ Places(<< >>, "node") = {} /\ Places(<< >>, "edge") = {}
      /\ Shown(<< >>, "node") = {} /\ Shown(<< >>, "edge") = {}
      /\ Distinct(<< >>, "node") /\ Distinct(<< >>, "edge") /\ Len(<< >>) = 0
  BY DEF Places, Shown, Distinct
<1>7. /\ items' \in Seq(Items)
      /\ Places(items', "node") = {1} /\ Shown(items', "node") = {s}
      /\ Distinct(items', "node")
      /\ Places(items', "edge") = {} /\ Shown(items', "edge") = {}
      /\ Distinct(items', "edge")
  <2> DEFINE e == << >>
             t == Append(e, <<"node", s>>)
  <2>1. e \in Seq(Items) /\ s \in NodeIds
    BY <1>6
  <2>2. items' = t
    BY <1>5
  <2>3. Places(e, "node") = {} /\ Places(e, "edge") = {} /\ Shown(e, "node") = {}
        /\ Shown(e, "edge") = {} /\ Distinct(e, "node") /\ Distinct(e, "edge") /\ Len(e) = 0
    BY <1>6
  <2> HIDE DEF e, s
  <2>4. /\ t \in Seq(Items)
        /\ Places(t, "node") = Places(e, "node") \cup {Len(e) + 1}
        /\ Shown(t, "node") = Shown(e, "node") \cup {s}
        /\ s \notin Shown(e, "node") /\ Distinct(e, "node") => Distinct(t, "node")
        /\ Places(t, "edge") = Places(e, "edge")
        /\ Shown(t, "edge") = Shown(e, "edge")
        /\ Distinct(t, "edge") <=> Distinct(e, "edge")
    BY <2>1, AppendedNode, Zenon
  <2> HIDE DEF t
  <2> QED BY <2>2, <2>3, <2>4
<1>8. items'[1][2] = s
  OBVIOUS
<1>9. Cardinality({s}) = 1 /\ Cardinality({1}) = 1 /\ Cardinality({}) = 0
  BY FS_Singleton, FS_EmptySet
<1>10. /\ queue' \in [Sides -> Seq(NodeIds \X Nat)] /\ queue'["forward"] = q
       /\ q \in Seq(NodeIds \X Nat) /\ DOMAIN q = {1} /\ q[1][1] = s /\ q[1][2] = 0
  <2>1. q \in Seq(NodeIds \X Nat) /\ DOMAIN q = {1} /\ q[1][1] = s /\ q[1][2] = 0
    OBVIOUS
  <2>2. queue \in [Sides -> Seq(NodeIds \X Nat)] /\ "forward" \in Sides
    BY <1>2 DEF Sides
  <2> HIDE DEF q
  <2> QED BY <2>1, <2>2 DEF q
<1>11. expanding' \in Expanding /\ expanding'.left = {}
  BY <1>2 DEF Idle, Expanding, Sides
<1> HIDE DEF s, q
<1>12. visited_nodes' = {s} /\ visited_edges' = {} /\ s \in NodeIds
  BY <1>2 DEF s
<1>13. Emits'
  BY <1>1, <1>7, <1>9, <1>12 DEF Emits
<1>14. InReach'
  BY <1>1, <1>3, <1>4, <1>7, <1>8, <1>12 DEF InReach
<1>15. TravTypes'
  BY <1>10, <1>11 DEF TravTypes
<1>16. Frontier(0)'
  BY <1>7, <1>10, <1>11, SourceQueued DEF s
<1> QED BY <1>13, <1>14, <1>15, <1>16

LEMMA TravReferencesStay ==
    ASSUME graph' = graph, request' = request, items' = items,
           visited_nodes' = visited_nodes, visited_edges' = visited_edges
    PROVE  /\ Emits => Emits'
           /\ InReach => InReach'
           /\ Complete => Complete'
           /\ contains_node(request.source)' <=> contains_node(request.source)
<1>1. \A a, b : Layer(a, b)' = Layer(a, b)
  BY LayerStays
<1>2. \A a, m, n : Leads(a, m, n)' <=> Leads(a, m, n)
  BY LeadsStays
<1>3. \A n : Labelled(n)' <=> Labelled(n)
  BY HopStays
<1>4. Emits => Emits'
  BY DEF Emits
<1>5. InReach => InReach'
  BY <1>1, <1>2, <1>3 DEF InReach
<1>6. \A n : Spread(n, {})' <=> Spread(n, {})
  BY ExpandStays DEF Spread
<1>7. Complete => Complete'
  BY <1>1, <1>6 DEF Complete
<1> QED BY <1>4, <1>5, <1>7 DEF contains_node

LEMMA TravStep ==
    ASSUME Common, TravInv, [Next]_vars
    PROVE  TravInv'
<1> SUFFICES ASSUME request.kind = "Traverse" PROVE TravInv'
  BY SnapshotStays DEF TravInv
<1>1. graph' = graph /\ request' = request
  BY SnapshotStays
<1>2. request.limit \in Nat /\ request.max_depth \in Nat
  BY DEF Common, IsRequest
<1>3. contains_node(request.source) => request.source \in NodeIds
  BY DEF contains_node, Common, IsRequest
<1>4. items \in Seq(Items) /\ ranked = {} /\ path = None /\ TravTypes
  BY DEF TravInv
<1>5. contains_node(request.source)' <=> contains_node(request.source)
  BY <1>1 DEF contains_node
<1>6. ASSUME items' = items, visited_nodes' = visited_nodes, visited_edges' = visited_edges,
             ranked' = ranked, path' = path, queue' = queue, expanding' = expanding,
             cut' = cut, pc' = pc \/ pc = "respond" \/ pc' = "rejected",
             pc = "respond" => pc' \in {"respond", "done", "refused"}
      PROVE  TravInv'
  <2>1. TravTypes'
    BY <1>4, <1>6 DEF TravTypes
  <2>2. CASE pc' = "rejected"
    BY <1>4, <1>6, <2>1, <2>2 DEF TravInv
  <2>3. CASE pc' # "rejected" /\ contains_node(request.source)
    <3>1. CASE pc = "plan" /\ pc' = "plan"
      BY <1>4, <1>6, <2>1, <3>1 DEF TravInv
    <3>2. CASE ~(pc = "plan" /\ pc' = "plan")
      <4>1. pc \notin {"plan", "rejected"} /\ Emits /\ InReach
        BY <1>1, <1>6, <2>3, <3>2 DEF TravInv
      <4>2. Emits' /\ InReach'
        BY <1>1, <1>6, <4>1, TravReferencesStay
      <4>3. pc' = "traverse" => \E c \in Nat : Frontier(c)'
        <5> SUFFICES ASSUME pc' = "traverse" PROVE \E c \in Nat : Frontier(c)'
          OBVIOUS
        <5>1. pc = "traverse"
          BY <1>6
        <5>2. PICK c \in Nat : Frontier(c)
          BY <2>3, <5>1 DEF TravInv
        <5>3. Frontier(c)'
          BY <1>1, <1>6, <5>2, LayerStays, ExpandStays
          DEF Frontier, QueueInLayers, ExpandingIn, FoundUpTo, Queued, Spread
        <5> QED BY <5>3
      <4>4. pc' \in {"respond", "done", "refused"} /\ ~cut' => Complete'
        <5> SUFFICES ASSUME pc' \in {"respond", "done", "refused"}, ~cut' PROVE Complete'
          OBVIOUS
        <5>1. pc \in {"respond", "done", "refused"} /\ ~cut
          BY <1>6
        <5>2. Complete
          BY <2>3, <5>1 DEF TravInv
        <5> QED BY <1>1, <1>6, <5>2, TravReferencesStay
      <4> QED BY <1>4, <1>5, <1>6, <2>1, <2>3, <4>2, <4>3, <4>4 DEF TravInv
    <3> QED BY <3>1, <3>2
  <2>4. CASE pc' # "rejected" /\ ~contains_node(request.source)
    BY <1>4, <1>5, <1>6, <2>1, <2>4 DEF TravInv
  <2> QED BY <2>2, <2>3, <2>4
<1>7. CASE UNCHANGED vars
  <2>1. /\ items' = items /\ visited_nodes' = visited_nodes /\ visited_edges' = visited_edges
        /\ ranked' = ranked /\ path' = path /\ queue' = queue /\ expanding' = expanding
        /\ cut' = cut /\ pc' = pc
    BY <1>7 DEF vars
  <2> QED BY <1>6, <2>1
<1>8. CASE Reject \/ Respond
  <2>1. /\ items' = items /\ visited_nodes' = visited_nodes /\ visited_edges' = visited_edges
        /\ ranked' = ranked /\ path' = path /\ queue' = queue /\ expanding' = expanding
        /\ cut' = cut
    BY <1>8 DEF Reject, Respond
  <2>2. Reject => pc = "plan" /\ pc' = "rejected"
    BY DEF Reject
  <2>3. Respond => pc = "respond" /\ pc' \in {"done", "refused"}
    BY DEF Respond
  <2> QED BY <1>6, <1>8, <2>1, <2>2, <2>3
<1>9. CASE StartTraversal
  <2>1. /\ pc = "plan" /\ pc' = "traverse" /\ Fresh /\ Valid(request)
        /\ visited_edges' = visited_edges /\ expanding' = expanding
        /\ ranked' = ranked /\ path' = path /\ cut' = cut
    BY <1>9 DEF StartTraversal, Common, Phase
  <2>2. ranked' = {} /\ path' = None
    BY <1>4, <2>1
  <2>3. CASE contains_node(request.source)
    <3>1. request.limit # 0
      BY <2>1 DEF Valid, resolve_required_result_limit
    <3>2. Emits' /\ InReach' /\ TravTypes' /\ Frontier(0)'
      <4>1. /\ visited_nodes' = {request.source}
            /\ queue' = [queue EXCEPT !["forward"] = << <<request.source, 0>> >>]
            /\ items' = << <<"node", request.source>> >>
        BY <1>9, <2>3 DEF StartTraversal
      <4> QED BY <1>1, <1>3, <2>1, <2>3, <3>1, <4>1, SourceFrontier
    <3>3. items' \in Seq(Items) /\ 0 \in Nat
      BY <3>2 DEF Emits
    <3>4. \E c \in Nat : Frontier(c)'
      BY <3>2, <3>3
    <3> QED BY <1>5, <2>1, <2>2, <2>3, <3>2, <3>3, <3>4 DEF TravInv
  <2>4. CASE ~contains_node(request.source)
    <3>1. visited_nodes' = visited_nodes /\ queue' = queue /\ items' = items
      BY <1>9, <2>4 DEF StartTraversal
    <3>2. items = << >> /\ queue["forward"] = << >> /\ expanding.left = {}
      BY <2>1 DEF Fresh, Idle, Sides
    <3>3. TravTypes'
      BY <1>4, <2>1, <3>1 DEF TravTypes
    <3> QED BY <1>4, <1>5, <2>1, <2>2, <2>4, <3>1, <3>2, <3>3 DEF TravInv
  <2> QED BY <2>3, <2>4
<1>10. CASE TraversePop
  <2>1. /\ pc = "traverse" /\ expanding.left = {} /\ queue["forward"] # << >>
        /\ queue' = [queue EXCEPT !["forward"] = Tail(@)]
        /\ visited_nodes' = visited_nodes /\ visited_edges' = visited_edges
        /\ items' = items /\ ranked' = ranked /\ path' = path
    BY <1>10 DEF TraversePop
  <2>2. contains_node(request.source) /\ Emits /\ InReach /\ \E c \in Nat : Frontier(c)
    BY <2>1 DEF TravInv
  <2>3. Emits' /\ InReach'
    BY <1>1, <2>1, <2>2, TravReferencesStay
  <2>4. CASE pc' = "respond" /\ cut' = TRUE /\ expanding' = expanding
    <3>1. TravTypes'
      <4>1. queue \in [Sides -> Seq(NodeIds \X Nat)] /\ "forward" \in Sides
        BY <1>4 DEF TravTypes, Sides
      <4>2. Tail(queue["forward"]) \in Seq(NodeIds \X Nat)
        BY <2>1, <4>1, RestOfQueue
      <4>3. queue' \in [Sides -> Seq(NodeIds \X Nat)]
        BY <2>1, <4>1, <4>2
      <4> QED BY <1>4, <2>4, <4>3 DEF TravTypes
    <3> QED BY <1>4, <1>5, <2>1, <2>2, <2>3, <2>4, <3>1 DEF TravInv
  <2>5. CASE ~(pc' = "respond" /\ cut' = TRUE /\ expanding' = expanding)
    <3> DEFINE n == queue["forward"][1][1]
               depth == queue["forward"][1][2]
    <3>1. /\ pc' = pc /\ cut' = cut
          /\ IF depth = request.max_depth \/ Cardinality(visited_nodes) >= request.limit
             THEN expanding' = expanding
             ELSE expanding' = [Idle EXCEPT !.node = n, !.depth = depth,
                                  !.left = expand_neighbors(n, request.direction)]
      BY <1>10, <2>5 DEF TraversePop
    <3>2. PICK c \in Nat : Frontier(c)
      BY <2>2
    <3>3. TravTypes' /\ \E d \in Nat : Frontier(d)'
      BY <1>1, <1>3, <1>4, <2>1, <2>2, <3>1, <3>2, PopFrontier
    <3> HIDE DEF n, depth
    <3> QED BY <1>4, <1>5, <2>1, <2>2, <2>3, <3>1, <3>3 DEF TravInv
  <2> QED BY <2>4, <2>5
<1>11. CASE TraverseEdge
  <2>1. PICK next \in expanding.left : FollowEdge(next)
    BY <1>11 DEF TraverseEdge, FollowEdge
  <2>2. pc = "traverse" /\ pc' = pc /\ ranked' = ranked /\ path' = path /\ cut' = cut
    BY <1>11 DEF TraverseEdge
  <2>3. contains_node(request.source) /\ Emits /\ InReach /\ \E c \in Nat : Frontier(c)
    BY <2>1, <2>2 DEF TravInv
  <2>4. PICK c \in Nat : Frontier(c)
    BY <2>3
  <2>5. next \in EdgeIds \X NodeIds
    BY <1>3, <2>3, <2>4, EdgeTarget DEF Common, Frontier
  <2>6. Emits' /\ Followed(next)
    BY <1>1, <1>2, <2>1, <2>3, <2>5, EdgeFollowed
  <2>7. InReach'
    BY <1>1, <1>3, <2>3, <2>4, <2>6, EdgeInReach
  <2>8. TravTypes' /\ Frontier(c)'
    BY <1>1, <1>3, <1>4, <2>1, <2>3, <2>4, <2>6, EdgeFrontier
  <2>9. items' \in Seq(Items) /\ \E d \in Nat : Frontier(d)'
    BY <2>6, <2>8 DEF Emits
  <2> QED BY <1>4, <1>5, <2>2, <2>3, <2>6, <2>7, <2>8, <2>9 DEF TravInv
<1>12. CASE EndTraversal
  <2>1. /\ pc = "traverse" /\ pc' = "respond" /\ expanding.left = {}
        /\ queue["forward"] = << >>
        /\ queue' = queue /\ expanding' = expanding /\ cut' = cut
        /\ visited_nodes' = visited_nodes /\ visited_edges' = visited_edges
        /\ items' = items /\ ranked' = ranked /\ path' = path
    BY <1>12 DEF EndTraversal
  <2>2. TravTypes'
    BY <1>4, <2>1 DEF TravTypes
  <2>3. CASE contains_node(request.source)
    <3>1. Emits /\ InReach /\ \E c \in Nat : Frontier(c)
      BY <2>1, <2>3 DEF TravInv
    <3>2. Complete
      BY <1>3, <2>1, <2>3, <3>1, EmptyQueueComplete
    <3>3. Emits' /\ InReach' /\ Complete'
      BY <1>1, <2>1, <3>1, <3>2, TravReferencesStay
    <3> QED BY <1>4, <1>5, <2>1, <2>2, <2>3, <3>3 DEF TravInv
  <2>4. CASE ~contains_node(request.source)
    BY <1>4, <1>5, <2>1, <2>2, <2>4 DEF TravInv
  <2> QED BY <2>3, <2>4
<1> QED BY <1>7, <1>8, <1>9, <1>10, <1>11, <1>12, StepsOfTraversal

LEMMA TravAlways == Spec => []TravInv
<1>1. Init => TravInv
  <2> SUFFICES ASSUME Init PROVE TravInv
    OBVIOUS
  <2>1. Fresh /\ pc = "plan"
    BY CommonInit
  <2>2. items \in Seq(Items) /\ ranked = {} /\ path = None
    BY <2>1 DEF Fresh
  <2>3. TravTypes
    BY <2>1 DEF Fresh, TravTypes, Expanding, Idle, Sides
  <2> QED BY <2>1, <2>2, <2>3 DEF TravInv
<1>2. Common /\ TravInv /\ [Next]_vars => TravInv'
  BY TravStep
<1> QED BY <1>1, <1>2, CommonAlways, PTL DEF Spec

LEMMA CompleteIsExact ==
    ASSUME Common, TravInv
    PROVE  TraversalExact
<1> SUFFICES ASSUME Answered({"Traverse"}), ~cut, contains_node(request.source)
             PROVE  TraversalExact
  BY DEF TraversalExact
<1> DEFINE d == request.max_depth
           limit == request.limit
           reach == ReachedWithin(d)
           near == ReachedWithin(d - 1)
           followed == {e \in EdgeIds : \E m \in near, n \in NodeIds :
                                            Labelled(n) /\ Leads(e, m, n)}
           nodes == Shown(items, "node")
           edges == Shown(items, "edge")
<1>1. pc \in {"done", "refused"} /\ request.kind = "Traverse"
  BY DEF Answered
<1>2. Emits /\ InReach /\ Complete
  BY <1>1 DEF TravInv
<1>3. request.source \in NodeIds /\ IsGraph(graph) /\ IsRequest(request)
  BY DEF contains_node, Common, IsRequest
<1>4. limit \in Nat /\ d \in Nat /\ d # 0 /\ d - 1 \in Nat
  <2>1. Valid(request)
    BY <1>1 DEF Common, Phase
  <2>2. d # 0
    BY <1>1, <2>1 DEF Valid
  <2> QED BY <1>3, <2>2 DEF IsRequest
<1>5. /\ \A n : n \in reach <=> \E k \in 0 .. d : n \in Layer("forward", k)
      /\ \A n : n \in near <=> \E k \in 0 .. d - 1 : n \in Layer("forward", k)
  BY <1>3, <1>4, ReachedWithinIs
<1>6. Origin("forward") \in NodeIds /\ "forward" \in Sides
      /\ Direction("forward") = request.direction
  BY <1>3 DEF Origin, Sides, Direction
<1>7. reach \subseteq NodeIds /\ near \subseteq NodeIds
  <2>1. \A k \in 0 .. d : Layer("forward", k) \subseteq NodeIds
    BY <1>4, <1>6, LayerNodes
  <2>2. \A k \in 0 .. d - 1 : Layer("forward", k) \subseteq NodeIds
    BY <1>4, <1>6, LayerNodes
  <2> QED BY <1>5, <2>1, <2>2
<1>8. /\ IsFiniteSet(reach) /\ Cardinality(reach) \in Nat
      /\ Cardinality(visited_nodes) \in Nat /\ Cardinality(visited_edges) \in Nat
  BY <1>2, <1>7, QueryAssumption, FS_Subset, FS_CardinalityType, TravVisited
<1> HIDE DEF reach, near
<1>9. visited_nodes \subseteq reach
  BY <1>2, <1>5 DEF InReach
<1>10. nodes \subseteq reach
  BY <1>2, <1>9 DEF Emits
<1>11. Cardinality(Places(items, "node")) = limit \/ nodes = reach
  <2>1. CASE Cardinality(visited_nodes) >= limit
    BY <1>2, <1>4, <1>8, <2>1 DEF Emits
  <2>2. CASE ~(Cardinality(visited_nodes) >= limit)
    <3>1. Cardinality(visited_nodes) < limit
      BY <1>4, <1>8, <2>2
    <3>2. nodes = visited_nodes
      BY <1>2, <1>4, <1>8, <3>1 DEF Emits
    <3>3. reach \subseteq visited_nodes
      BY <1>2, <1>5, <3>1 DEF Complete
    <3> QED BY <1>9, <3>2, <3>3
  <2> QED BY <2>1, <2>2
<1>12. edges \subseteq followed
  <2> SUFFICES ASSUME NEW j \in Places(items, "edge") PROVE items[j][2] \in followed
    BY DEF Shown
  <2>1. PICK i \in Places(items, "node"), n \in NodeIds, k \in 0 .. d - 1 :
            /\ i < j /\ Labelled(n) /\ items[i][2] \in Layer("forward", k)
            /\ Leads(items[j][2], items[i][2], n)
    BY <1>2 DEF InReach
  <2>2. items[j][2] \in EdgeIds
    BY <1>2 DEF Emits, Shown
  <2> QED BY <1>5, <2>1, <2>2
<1>13. ASSUME Cardinality(reach) < limit
       PROVE  Cardinality(Places(items, "edge")) = limit \/ edges = followed
  <2>1. Cardinality(visited_nodes) <= Cardinality(reach)
    BY <1>8, <1>9, FS_Subset
  <2>2. Cardinality(visited_nodes) < limit
    BY <1>4, <1>8, <1>13, <2>1
  <2>3. edges = visited_edges
        /\ Cardinality(Places(items, "edge")) = Cardinality(visited_edges)
    BY <1>2 DEF Emits
  <2>4. ASSUME Cardinality(visited_edges) # limit, NEW e \in followed PROVE e \in edges
    <3>1. PICK m \in near, n \in NodeIds : Labelled(n) /\ Leads(e, m, n)
      OBVIOUS
    <3>2. PICK k \in 0 .. d - 1 : m \in Layer("forward", k)
      BY <1>5
    <3>3. Spread(m, {})
      BY <1>2, <1>7, <2>2, <3>2 DEF Complete
    <3> DEFINE next == <<e, n>>
    <3>4. /\ next \in EdgeIds \X NodeIds /\ Labelled(next[2])
          /\ LeadsTo("forward", next[1], m, next[2]) /\ next[1] = e
      BY <3>1 DEF LeadsTo
    <3> HIDE DEF next
    <3>5. next \in expand_neighbors(m, request.direction)
      BY <1>3, <1>6, <3>4, ExpandIs
    <3>6. e \in visited_edges
      BY <2>4, <3>3, <3>4, <3>5 DEF Spread
    <3> QED BY <2>3, <3>6
  <2> HIDE DEF followed, edges
  <2> QED BY <1>12, <2>3, <2>4
<1>14. /\ NodePlaces = Places(items, "node") /\ EdgePlaces = Places(items, "edge")
       /\ {NodeAt(i) : i \in NodePlaces} = nodes /\ {NodeAt(i) : i \in EdgePlaces} = edges
  BY DEF NodePlaces, EdgePlaces, Places, NodeAt, Shown
<1> HIDE DEF nodes, edges
<1> QED BY <1>10, <1>11, <1>12, <1>13, <1>14 DEF TraversalExact, reach, near

LEMMA ReachIsInOrder ==
    ASSUME Common, TravInv
    PROVE  TraversalInOrder
<1> SUFFICES ASSUME request.kind = "Traverse" PROVE TraversalInOrder
  BY DEF TraversalInOrder
<1>1. CASE ~(pc \notin {"plan", "rejected"} /\ contains_node(request.source))
  <2>1. items = << >>
    BY <1>1 DEF TravInv, Common, Phase, Fresh
  <2>2. DOMAIN items = {}
    BY <2>1
  <2> QED BY <2>2 DEF TraversalInOrder, NoRepeats, NodePlaces, EdgePlaces
<1>2. CASE pc \notin {"plan", "rejected"} /\ contains_node(request.source)
  <2>1. Emits /\ InReach
    BY <1>2 DEF TravInv
  <2>2. request.source \in NodeIds
    BY <1>2 DEF contains_node, Common, IsRequest
  <2>3. NodePlaces = Places(items, "node") /\ EdgePlaces = Places(items, "edge")
    BY DEF NodePlaces, EdgePlaces, Places
  <2>4. NoRepeats(DOMAIN items)
    <3> SUFFICES ASSUME NEW i \in DOMAIN items, NEW j \in DOMAIN items, items[i] = items[j]
                 PROVE  i = j
      BY DEF NoRepeats
    <3>1. i \in Places(items, "node") \/ i \in Places(items, "edge")
      BY <2>1, PlacesAddUp DEF Emits
    <3>2. CASE i \in Places(items, "node")
      <4>1. j \in Places(items, "node")
        BY <3>2 DEF Places
      <4> QED BY <2>1, <3>2, <4>1 DEF Emits, Distinct
    <3>3. CASE i \in Places(items, "edge")
      <4>1. j \in Places(items, "edge")
        BY <3>3 DEF Places
      <4> QED BY <2>1, <3>3, <4>1 DEF Emits, Distinct
    <3> QED BY <3>1, <3>2, <3>3
  <2>5. ASSUME NEW i \in NodePlaces, NEW j \in NodePlaces, i < j
        PROVE  HopsTo(NodeAt(i)) <= HopsTo(NodeAt(j))
    <3>1. items[i][2] \in visited_nodes /\ items[j][2] \in visited_nodes
      BY <2>1, <2>3 DEF Emits, Shown
    <3>2. PICK a \in 0 .. request.max_depth : items[i][2] \in Layer("forward", a)
      BY <2>1, <3>1 DEF InReach
    <3>3. PICK b \in 0 .. request.max_depth : items[j][2] \in Layer("forward", b)
      BY <2>1, <3>1 DEF InReach
    <3>4. a \in Nat /\ b \in Nat
      BY DEF Common, IsRequest
    <3>5. a <= b
      BY <2>1, <2>3, <2>5, <3>2, <3>3, <3>4 DEF InReach
    <3>6. HopsTo(items[i][2]) = a /\ HopsTo(items[j][2]) = b
      BY <2>2, <3>2, <3>3, <3>4, HopsToIs
    <3> QED BY <3>5, <3>6 DEF NodeAt
  <2>6. ASSUME NEW j \in EdgePlaces
        PROVE  \E i \in NodePlaces, n \in NodeIds : i < j /\ Leads(NodeAt(j), NodeAt(i), n)
    BY <2>1, <2>3 DEF InReach, NodeAt
  <2> QED BY <2>4, <2>5, <2>6 DEF TraversalInOrder
<1> QED BY <1>1, <1>2

\* A traversal returns every node within max_hops, or limit of them, and below
\* the limit every edge it may follow, nearest first and each once: whatever
\* order TraversalExecutionIter expands the edges of a node in.
THEOREM TraversalSoundAlways == Spec => []TraversalSound
<1>1. Common /\ TravInv => TraversalSound
  BY CompleteIsExact, ReachIsInOrder DEF TraversalSound
<1> QED BY <1>1, CommonAlways, TravAlways, PTL

-----------------------------------------------------------------------------
(* ShortestPath: walks from both ends                                      *)

\* HasPath, with the walks of the forward side.
PathOf(k) ==
    IF k = 1 THEN /\ Hop(request.source, request.target)
                  /\ Labelled(request.source) \/ Labelled(request.target)
    ELSE \E m \in Walks("forward")[k - 1] : Hop(m, request.target)

Ends == request.source \in NodeIds /\ request.target \in NodeIds

LEMMA HasPathIs ==
    ASSUME Ends, NEW k \in Nat \ {0}
    PROVE  HasPath(k) <=> PathOf(k)
<1>1. k - 1 \in Nat
  OBVIOUS
<1>2. Reached(k - 1) = Walks("forward")[k - 1]
  BY <1>1, ReachedIs DEF Ends
<1> QED BY <1>2 DEF HasPath, PathOf

LEMMA WalksBothWays ==
    ASSUME Ends
    PROVE  /\ Origin("forward") = request.source /\ Origin("backward") = request.target
           /\ \A side \in Sides : Origin(side) \in NodeIds
           /\ Walks("forward")[0] = {request.source}
           /\ Walks("backward")[0] = {request.target}
           /\ \A k \in Nat : \A n : n \in Walks("forward")[k + 1] <=>
                 n \in NodeIds /\ Labelled(n) /\ \E m \in Walks("forward")[k] : Hop(m, n)
           /\ \A k \in Nat : \A n : n \in Walks("backward")[k + 1] <=>
                 n \in NodeIds /\ Labelled(n) /\ \E m \in Walks("backward")[k] : Hop(n, m)
           /\ \A k \in Nat : Walks("forward")[k] \subseteq NodeIds
           /\ \A k \in Nat : Walks("backward")[k] \subseteq NodeIds
<1>1. Origin("forward") = request.source /\ Origin("backward") = request.target
  BY DEF Origin
<1>2. \A side \in Sides : Origin(side) \in NodeIds
  BY <1>1 DEF Ends, Sides
<1>3. /\ Walks("forward") \in [Nat -> SUBSET NodeIds]
      /\ Walks("forward")[0] = {Origin("forward")}
      /\ \A k \in Nat : Walks("forward")[k + 1] =
            {n \in NodeIds : Labelled(n) /\ \E m \in Walks("forward")[k] : StepTo("forward", m, n)}
  BY <1>2, WalksIterate DEF Sides
<1>4. /\ Walks("backward") \in [Nat -> SUBSET NodeIds]
      /\ Walks("backward")[0] = {Origin("backward")}
      /\ \A k \in Nat : Walks("backward")[k + 1] =
            {n \in NodeIds : Labelled(n) /\ \E m \in Walks("backward")[k] : StepTo("backward", m, n)}
  BY <1>2, WalksIterate DEF Sides
<1>5. \A m, n : (StepTo("forward", m, n) <=> Hop(m, n)) /\ (StepTo("backward", m, n) <=> Hop(n, m))
  BY DEF StepTo
<1>6. \A k \in Nat : Walks("forward")[k] \subseteq NodeIds /\ Walks("backward")[k] \subseteq NodeIds
  BY <1>3, <1>4
<1>7. \A k \in Nat : \A n : n \in Walks("forward")[k + 1] <=>
         n \in NodeIds /\ Labelled(n) /\ \E m \in Walks("forward")[k] : Hop(m, n)
  BY <1>3, <1>5
<1>8. \A k \in Nat : \A n : n \in Walks("backward")[k + 1] <=>
         n \in NodeIds /\ Labelled(n) /\ \E m \in Walks("backward")[k] : Hop(n, m)
  BY <1>4, <1>5
<1> QED BY <1>1, <1>2, <1>3, <1>4, <1>6, <1>7, <1>8

\* A node that a walk from each end reaches is on a path.
LEMMA WalksMeet ==
    ASSUME Ends, NEW a \in Nat, NEW b \in Nat, a + b # 0,
           NEW x \in Walks("forward")[a], x \in Walks("backward")[b]
    PROVE  PathOf(a + b)
<1> DEFINE F == Walks("forward")
           B == Walks("backward")
           T == {j \in Nat : \A i \in Nat, y \in NodeIds : y \in F[i] /\ y \in B[j + 1] => PathOf(i + (j + 1))}
<1>1. 0 \in T
  <2> SUFFICES ASSUME NEW i \in Nat, NEW y \in NodeIds, y \in F[i], y \in B[0 + 1]
               PROVE  PathOf(i + 1)
    OBVIOUS
  <2>1. Labelled(y) /\ Hop(y, request.target)
    BY WalksBothWays
  <2>2. CASE i = 0
    <3>1. y = request.source
      BY <2>2, WalksBothWays
    <3> QED BY <2>1, <2>2, <3>1 DEF PathOf
  <2>3. CASE i # 0
    <3>1. (i + 1) - 1 = i /\ i + 1 # 1
      BY <2>3
    <3> QED BY <2>1, <3>1 DEF PathOf
  <2> QED BY <2>2, <2>3
<1>2. ASSUME NEW j \in Nat, j \in T PROVE j + 1 \in T
  <2> SUFFICES ASSUME NEW i \in Nat, NEW y \in NodeIds, y \in F[i], y \in B[(j + 1) + 1]
               PROVE  PathOf(i + ((j + 1) + 1))
    OBVIOUS
  <2>1. j + 1 \in Nat /\ i + 1 \in Nat /\ (i + 1) + (j + 1) = i + ((j + 1) + 1)
    OBVIOUS
  <2>2. PICK m \in B[j + 1] : Hop(y, m)
    BY <2>1, WalksBothWays
  <2>3. m \in NodeIds /\ Labelled(m)
    BY <2>2, WalksBothWays
  <2>4. m \in F[i + 1]
    BY <2>2, <2>3, WalksBothWays
  <2>5. PathOf((i + 1) + (j + 1))
    BY <1>2, <2>1, <2>2, <2>3, <2>4
  <2> QED BY <2>1, <2>5
<1> HIDE DEF T
<1>3. Nat \subseteq T
  BY <1>1, <1>2, NaturalsBySuccessor
<1>4. x \in NodeIds
  BY WalksBothWays
<1>5. CASE b # 0
  <2>1. b - 1 \in Nat /\ (b - 1) + 1 = b
    BY <1>5
  <2>2. b - 1 \in T
    BY <1>3, <2>1
  <2>3. \A i \in Nat, y \in NodeIds : y \in F[i] /\ y \in B[(b - 1) + 1] => PathOf(i + ((b - 1) + 1))
    BY <2>2 DEF T
  <2> QED BY <1>4, <2>1, <2>3
<1>6. CASE b = 0
  <2>1. x = request.target
    BY <1>6, WalksBothWays
  <2>2. a - 1 \in Nat /\ (a - 1) + 1 = a /\ a + b = a
    BY <1>6
  <2>3. x \in F[(a - 1) + 1]
    BY <2>2
  <2>4. Labelled(x) /\ \E m \in F[a - 1] : Hop(m, x)
    BY <2>2, <2>3, WalksBothWays
  <2>5. CASE a = 1
    <3>1. F[a - 1] = {request.source}
      BY <2>5, WalksBothWays
    <3> QED BY <2>1, <2>2, <2>4, <2>5, <3>1 DEF PathOf
  <2>6. CASE a # 1
    BY <2>1, <2>2, <2>4, <2>6 DEF PathOf
  <2> QED BY <2>5, <2>6
<1> QED BY <1>5, <1>6

\* Every inner place of a path is reached by walks from both ends.
LEMMA PathsSplit ==
    ASSUME Ends, NEW k \in Nat, k > 1, PathOf(k), NEW i \in 1 .. k - 1
    PROVE  \E x : x \in Walks("forward")[i] /\ x \in Walks("backward")[k - i]
<1> DEFINE F == Walks("forward")
           B == Walks("backward")
           T == {j \in Nat : j < k - 1 => \E x : x \in F[(k - 1) - j] /\ x \in B[j + 1]}
<1>1. 0 \in T
  <2>1. PICK m \in F[k - 1] : Hop(m, request.target)
    BY DEF PathOf
  <2>2. k - 2 \in Nat /\ (k - 2) + 1 = k - 1 /\ (k - 1) - 0 = k - 1 /\ 0 + 1 = 1
    OBVIOUS
  <2>3. m \in F[(k - 2) + 1]
    BY <2>2
  <2>4. m \in NodeIds /\ Labelled(m)
    BY <2>2, <2>3, WalksBothWays
  <2>5. m \in B[0 + 1]
    BY <2>1, <2>4, WalksBothWays
  <2> QED BY <2>2, <2>5
<1>2. ASSUME NEW j \in Nat, j \in T PROVE j + 1 \in T
  <2> SUFFICES ASSUME j + 1 < k - 1
               PROVE  \E x : x \in F[(k - 1) - (j + 1)] /\ x \in B[(j + 1) + 1]
    OBVIOUS
  <2>1. j < k - 1
    OBVIOUS
  <2>2. PICK x : x \in F[(k - 1) - j] /\ x \in B[j + 1]
    BY <1>2, <2>1
  <2> DEFINE l == (k - 1) - (j + 1)
  <2>3. l \in Nat /\ l # 0 /\ l + 1 = (k - 1) - j /\ l - 1 \in Nat /\ (l - 1) + 1 = l
        /\ j + 1 \in Nat
    OBVIOUS
  <2> HIDE DEF l
  <2>4. PICK m \in F[l] : Hop(m, x)
    BY <2>2, <2>3, WalksBothWays
  <2>5. m \in F[(l - 1) + 1]
    BY <2>3
  <2>6. m \in NodeIds /\ Labelled(m)
    BY <2>3, <2>5, WalksBothWays
  <2>7. m \in B[(j + 1) + 1]
    BY <2>2, <2>3, <2>4, <2>6, WalksBothWays
  <2> QED BY <2>7 DEF l
<1> HIDE DEF T
<1>3. Nat \subseteq T
  BY <1>1, <1>2, NaturalsBySuccessor
<1> DEFINE j == (k - 1) - i
<1>4. j \in Nat /\ j < k - 1 /\ (k - 1) - j = i /\ j + 1 = k - i
  OBVIOUS
<1> HIDE DEF j
<1>5. j \in T
  BY <1>3, <1>4
<1> QED BY <1>4, <1>5 DEF T

\* S holds the nodes that up to k steps reach from the end of a side.
Covers(S, side, k) == \A j \in 0 .. k : Layer(side, j) \subseteq S

LEMMA CoversWalks ==
    ASSUME NEW S, NEW side, NEW k \in Nat, Covers(S, side, k), NEW j \in 0 .. k
    PROVE  Walks(side)[j] \subseteq S
<1> SUFFICES ASSUME NEW x \in Walks(side)[j] PROVE x \in S
  OBVIOUS
<1>1. j \in Nat
  OBVIOUS
<1>2. PICK i \in 0 .. j : x \in Layer(side, i)
  BY <1>1, LayerOfWalk
<1>3. i \in 0 .. k
  OBVIOUS
<1> QED BY <1>2, <1>3 DEF Covers

\* Two searches that have not met leave no path between what they cover, ...
LEMMA ApartLeavesNoPath ==
    ASSUME Ends, NEW S, NEW R, S \cap R = {}, NEW a \in Nat, NEW b \in Nat, a # 0, b # 0,
           Covers(S, "forward", a), Covers(R, "backward", b), NEW k \in 1 .. a + b
    PROVE  ~PathOf(k)
<1> SUFFICES ASSUME PathOf(k) PROVE FALSE
  OBVIOUS
<1> DEFINE F == Walks("forward")
           B == Walks("backward")
<1>1. /\ \A j \in 0 .. a : F[j] \subseteq S
      /\ \A j \in 0 .. b : B[j] \subseteq R
  BY CoversWalks
<1>2. request.source \in F[0] /\ request.target \in B[0]
  BY WalksBothWays
<1>3. CASE k = 1
  <2>1. Hop(request.source, request.target)
        /\ (Labelled(request.source) \/ Labelled(request.target))
    BY <1>3 DEF PathOf
  <2>2. CASE Labelled(request.target)
    <3>1. request.target \in F[0 + 1]
      BY <1>2, <2>1, <2>2, WalksBothWays DEF Ends
    <3>2. 0 + 1 \in 0 .. a /\ 0 \in 0 .. b
      OBVIOUS
    <3> QED BY <1>1, <1>2, <3>1, <3>2
  <2>3. CASE Labelled(request.source)
    <3>1. request.source \in B[0 + 1]
      BY <1>2, <2>1, <2>3, WalksBothWays DEF Ends
    <3>2. 0 + 1 \in 0 .. b /\ 0 \in 0 .. a
      OBVIOUS
    <3> QED BY <1>1, <1>2, <3>1, <3>2
  <2> QED BY <2>1, <2>2, <2>3
<1>4. CASE k # 1
  <2> DEFINE i == IF a <= k - 1 THEN a ELSE k - 1
  <2>1. k \in Nat /\ k > 1 /\ i \in 1 .. k - 1 /\ i \in 0 .. a /\ k - i \in 0 .. b
    BY <1>4
  <2> HIDE DEF i
  <2>2. PICK x : x \in F[i] /\ x \in B[k - i]
    BY <2>1, PathsSplit
  <2> QED BY <1>1, <2>1, <2>2
<1> QED BY <1>3, <1>4

\* ... except for an edge to a target without the labels, which is looked at
\* from the target only.
LEMMA SourceLevelLeavesNoEdge ==
    ASSUME Ends, NEW S, NEW R, S \cap R = {}, Covers(S, "forward", 1), Covers(R, "backward", 0),
           PathOf(1)
    PROVE  ~Labelled(request.target)
<1> SUFFICES ASSUME Labelled(request.target) PROVE FALSE
  OBVIOUS
<1>1. Hop(request.source, request.target)
  BY DEF PathOf
<1>2. request.source \in Walks("forward")[0] /\ request.target \in Walks("backward")[0]
  BY WalksBothWays
<1>3. request.target \in Walks("forward")[0 + 1]
  BY <1>1, <1>2, WalksBothWays DEF Ends
<1>4. Walks("forward")[1] \subseteq S
  BY CoversWalks
<1>5. Walks("backward")[0] \subseteq R
  BY CoversWalks
<1> QED BY <1>2, <1>3, <1>4, <1>5

-----------------------------------------------------------------------------
(* ShortestPath: the path that the parent maps hold                        *)

ParentEntry == [previous : NodeIds \cup {None}, via_edge : EdgeIds \cup {None}]

\* The entry of a node names a node one layer nearer to the end of the side and
\* an edge from it; only the end has no parent.
LinkedMap(side, P) ==
    /\ P[Origin(side)] = Root
    /\ \A n \in NodeIds : P[n] # None /\ n # Origin(side) =>
          \E k \in Nat, e \in EdgeIds, m \in NodeIds :
              /\ P[m] # None /\ m \in Layer(side, k) /\ n \in Layer(side, k + 1)
              /\ LeadsTo(side, e, m, n)
              /\ P[n] = [previous |-> m, via_edge |-> e]

\* Chain and Edges, of a given parent map.
ChainOf(P, from) ==
    LET chain[i \in 0 .. Cardinality(NodeIds)] ==
            IF i = 0 THEN << from >>
            ELSE LET p == P[Last(chain[i - 1])]
                 IN  IF p.previous = None THEN chain[i - 1]
                     ELSE Append(chain[i - 1], p.previous)
    IN  chain[Cardinality(NodeIds)]

EdgesOf(P, nodes) == [i \in 1 .. Len(nodes) - 1 |-> P[nodes[i]].via_edge]

\* One turn of the loop of reconstruct_path.
Longer(P, c) ==
    IF P[Last(c)].previous = None THEN c ELSE Append(c, P[Last(c)].previous)

Mapped(P) == {n \in NodeIds : P[n] # None}

\* The chain of a node of layer d, after some turns.
PartOfChain(side, P, d, c) ==
    /\ c \in Seq(Mapped(P)) /\ Len(c) \in 1 .. d + 1
    /\ \A i \in 1 .. Len(c) : c[i] \in Layer(side, (d + 1) - i)
    /\ \A i \in 1 .. Len(c) - 1 :
          /\ P[c[i]].previous = c[i + 1]
          /\ P[c[i]].via_edge \in EdgeIds
          /\ LeadsTo(side, P[c[i]].via_edge, c[i + 1], c[i])

LEMMA LongerChain ==
    ASSUME NEW side, Origin(side) \in NodeIds, NEW P, LinkedMap(side, P), NEW d \in Nat,
           NEW c, PartOfChain(side, P, d, c)
    PROVE  /\ PartOfChain(side, P, d, Longer(P, c))
           /\ Len(c) = d + 1 => Longer(P, c) = c
           /\ Len(c) # d + 1 => Len(Longer(P, c)) = Len(c) + 1
           /\ Longer(P, c)[1] = c[1]
<1> DEFINE l == Len(c)
           last == c[l]
<1>1. l \in Nat /\ l \in 1 .. d + 1 /\ (d + 1) - l \in Nat /\ c \in Seq(Mapped(P))
  BY DEF PartOfChain
<1>2. Last(c) = last /\ last \in Mapped(P) /\ last \in Layer(side, (d + 1) - l)
  BY <1>1 DEF Last, PartOfChain
<1>3. Layer(side, 0) = {Origin(side)}
  BY LayerNodes
<1>4. CASE l = d + 1
  <2>1. (d + 1) - l = 0
    BY <1>4
  <2>2. last = Origin(side)
    BY <1>2, <1>3, <2>1
  <2>3. Longer(P, c) = c
    BY <1>2, <2>2 DEF Longer, LinkedMap, Root
  <2> QED BY <1>4, <2>3
<1>5. CASE l # d + 1
  <2>1. (d + 1) - l # 0 /\ d - l \in Nat /\ (d - l) + 1 = (d + 1) - l
    BY <1>1, <1>5
  <2>2. last # Origin(side)
    BY <1>1, <1>2, <1>3, <2>1, LayerUnique
  <2>3. PICK k \in Nat, e \in EdgeIds, m \in NodeIds :
            /\ P[m] # None /\ m \in Layer(side, k) /\ last \in Layer(side, k + 1)
            /\ LeadsTo(side, e, m, last)
            /\ P[last] = [previous |-> m, via_edge |-> e]
    BY <1>2, <2>2 DEF LinkedMap, Mapped
  <2>4. k + 1 = (d + 1) - l
    BY <1>1, <1>2, <2>3, LayerUnique
  <2>5. k = d - l
    BY <1>1, <2>4
  <2>6. m \in Mapped(P) /\ P[last].previous = m /\ P[last].via_edge = e /\ m # None
    BY <2>3, NoneAssumption DEF Mapped
  <2>7. Longer(P, c) = Append(c, m)
    BY <1>2, <2>6 DEF Longer
  <2> DEFINE t == Append(c, m)
  <2>8. /\ t \in Seq(Mapped(P)) /\ Len(t) = l + 1
        /\ \A i \in 1 .. l : t[i] = c[i]
        /\ t[l + 1] = m
    BY <1>1, <2>6
  <2> HIDE DEF t
  <2>9. Len(t) \in 1 .. d + 1 /\ Len(t) - 1 = l
    BY <1>1, <1>5, <2>8
  <2>10. \A i \in 1 .. l + 1 : t[i] \in Layer(side, (d + 1) - i)
    <3> SUFFICES ASSUME NEW i \in 1 .. l + 1 PROVE t[i] \in Layer(side, (d + 1) - i)
      OBVIOUS
    <3>1. CASE i = l + 1
      <4>1. (d + 1) - i = d - l
        BY <1>1, <3>1
      <4> QED BY <2>3, <2>5, <2>8, <3>1, <4>1
    <3>2. CASE i # l + 1
      <4>1. i \in 1 .. l
        BY <1>1, <3>2
      <4> QED BY <2>8, <4>1 DEF PartOfChain
    <3> QED BY <3>1, <3>2
  <2>11. ASSUME NEW i \in 1 .. l
         PROVE  /\ P[t[i]].previous = t[i + 1]
                /\ P[t[i]].via_edge \in EdgeIds
                /\ LeadsTo(side, P[t[i]].via_edge, t[i + 1], t[i])
    <3>1. CASE i = l
      <4>1. t[i] = last /\ t[i + 1] = m
        BY <1>1, <2>8, <3>1
      <4> HIDE DEF last
      <4> QED BY <2>3, <2>6, <4>1
    <3>2. CASE i # l
      <4>1. i \in 1 .. l - 1 /\ i + 1 \in 1 .. l
        BY <1>1, <3>2
      <4>2. t[i] = c[i] /\ t[i + 1] = c[i + 1]
        BY <2>8, <4>1
      <4> QED BY <4>1, <4>2 DEF PartOfChain
    <3> QED BY <3>1, <3>2
  <2>12. PartOfChain(side, P, d, t)
    BY <2>8, <2>9, <2>10, <2>11 DEF PartOfChain
  <2>13. t[1] = c[1]
    <3>1. 1 \in 1 .. l
      BY <1>1
    <3> QED BY <2>8, <3>1
  <2> QED BY <1>5, <2>7, <2>8, <2>12, <2>13 DEF t
<1> QED BY <1>4, <1>5

\* The chain leads from a node to the end of its side, along edges.
LEMMA ChainLinks ==
    ASSUME NEW side, Origin(side) \in NodeIds, NEW P, LinkedMap(side, P), NEW d \in Nat,
           NEW from \in Layer(side, d), from \in Mapped(P)
    PROVE  LET c == ChainOf(P, from)
           IN  PartOfChain(side, P, d, c) /\ Len(c) = d + 1 /\ c[1] = from
<1> DEFINE N == Cardinality(NodeIds)
           W == {c \in Seq(Mapped(P)) : PartOfChain(side, P, d, c)}
           start == << from >>
           step == [c \in W |-> Longer(P, c)]
<1>1. N \in Nat /\ d + 1 <= N
  BY LayerBound
<1>2. start \in W /\ Len(start) = 1 /\ start[1] = from
  <2>1. start \in Seq(Mapped(P)) /\ Len(start) = 1 /\ start[1] = from
    OBVIOUS
  <2>2. Len(start) \in 1 .. d + 1 /\ \A i \in 1 .. 1 : i = 1
    BY <2>1
  <2>3. (d + 1) - 1 = d
    OBVIOUS
  <2> HIDE DEF start
  <2>4. PartOfChain(side, P, d, start)
    BY <2>1, <2>2, <2>3 DEF PartOfChain
  <2> QED BY <2>1, <2>4
<1> HIDE DEF N, start
<1>3. step \in [W -> W]
  <2>1. ASSUME NEW c \in W PROVE Longer(P, c) \in W
    BY LongerChain DEF PartOfChain
  <2> QED BY <2>1
<1>4. \A c \in W : step[c] = Longer(P, c)
  OBVIOUS
<1> HIDE DEF step, W
<1>5. IsIteration(W, start, step)
  BY <1>2, <1>3 DEF IsIteration
<1>6. PICK G : IteratesAll(G, W, start, step)
  BY <1>5, Iteration
<1>7. /\ \A i \in Nat : G[i] \in W
      /\ G[0] = start
      /\ \A i \in Nat : G[i + 1] = Longer(P, G[i])
  BY <1>4, <1>6 DEF IteratesAll
<1> DEFINE T == {i \in Nat : Len(G[i]) = (IF i <= d THEN i + 1 ELSE d + 1) /\ G[i][1] = from}
<1>8. 0 \in T
  BY <1>2, <1>7
<1>9. ASSUME NEW i \in Nat, i \in T PROVE i + 1 \in T
  <2>1. PartOfChain(side, P, d, G[i]) /\ G[i + 1] = Longer(P, G[i])
    BY <1>7 DEF W
  <2>2. /\ Len(G[i]) = d + 1 => G[i + 1] = G[i]
        /\ Len(G[i]) # d + 1 => Len(G[i + 1]) = Len(G[i]) + 1
        /\ G[i + 1][1] = G[i][1]
    BY <2>1, LongerChain
  <2>3. Len(G[i]) = (IF i <= d THEN i + 1 ELSE d + 1) /\ G[i][1] = from
    BY <1>9
  <2>4. Len(G[i + 1]) = (IF i + 1 <= d THEN (i + 1) + 1 ELSE d + 1)
    BY <2>2, <2>3
  <2> QED BY <2>2, <2>3, <2>4
<1> HIDE DEF T
<1>10. Nat \subseteq T
  BY <1>8, <1>9, NaturalsBySuccessor
<1>11. Len(G[N]) = d + 1 /\ G[N][1] = from /\ PartOfChain(side, P, d, G[N])
  <2>1. N \in T /\ ~(N <= d)
    BY <1>1, <1>10
  <2> QED BY <1>1, <1>7, <2>1 DEF T, W
<1> DEFINE value(f, i) == IF i = 0 THEN start ELSE Longer(P, f[i - 1])
           chains(f) == f = [i \in 0 .. N |-> value(f, i)]
           H == [i \in 0 .. N |-> G[i]]
<1>12. ASSUME NEW i \in 0 .. N PROVE H[i] = value(H, i)
  <2>1. CASE i = 0
    BY <1>1, <1>7, <2>1
  <2>2. CASE i # 0
    <3>1. i - 1 \in Nat /\ i - 1 \in 0 .. N /\ (i - 1) + 1 = i
      BY <1>1, <2>2
    <3>2. H[i] = G[(i - 1) + 1] /\ H[i - 1] = G[i - 1]
      BY <3>1
    <3> HIDE DEF H
    <3> QED BY <1>7, <2>2, <3>1, <3>2
  <2> QED BY <2>1, <2>2
<1>13. chains(H)
  BY <1>12
<1> DEFINE chain == CHOOSE f : chains(f)
<1>14. chains(chain)
  BY <1>13
<1>15. ChainOf(P, from) = chain[N]
  BY DEF ChainOf, Longer, N, start
<1> HIDE DEF chain, H
<1>16. chain[0] = G[0]
  BY <1>1, <1>7, <1>14
<1>17. ASSUME NEW i \in 0 .. N - 1, chain[i] = G[i] PROVE chain[i + 1] = G[i + 1]
  <2>1. i + 1 \in 0 .. N /\ i + 1 # 0 /\ (i + 1) - 1 = i /\ i \in Nat
    BY <1>1
  <2>2. chain[i + 1] = Longer(P, chain[i])
    BY <1>14, <2>1
  <2> QED BY <1>7, <1>17, <2>1, <2>2
<1>18. chain[N] = G[N]
  <2> HIDE DEF chains
  <2>1. \A i \in 0 .. N : chain[i] = G[i]
    BY <1>1, <1>16, <1>17, AgreeBySuccessor
  <2> QED BY <1>1, <2>1
<1> QED BY <1>11, <1>15, <1>18

LEMMA ReversedItems ==
    ASSUME NEW V, NEW s \in Seq(V)
    PROVE  /\ Reverse(s) \in Seq(V) /\ Len(Reverse(s)) = Len(s) /\ Len(s) \in Nat
           /\ \A i \in 1 .. Len(s) : Reverse(s)[i] = s[(Len(s) - i) + 1]
<1>1. Len(s) \in Nat /\ \A i \in 1 .. Len(s) : s[i] \in V
  OBVIOUS
<1>2. \A i \in 1 .. Len(s) : (Len(s) - i) + 1 \in 1 .. Len(s)
  BY <1>1
<1>3. Reverse(s) \in [1 .. Len(s) -> V]
  BY <1>1, <1>2 DEF Reverse
<1>4. \A i \in 1 .. Len(s) : Reverse(s)[i] = s[(Len(s) - i) + 1]
  BY DEF Reverse
<1>5. Reverse(s) \in Seq(V) /\ Len(Reverse(s)) = Len(s)
  BY <1>1, <1>3
<1> QED BY <1>1, <1>4, <1>5

LEMMA JoinedItems ==
    ASSUME NEW V, NEW s \in Seq(V), NEW t \in Seq(V)
    PROVE  /\ s \o t \in Seq(V) /\ Len(s \o t) = Len(s) + Len(t)
           /\ \A i \in 1 .. Len(s) : (s \o t)[i] = s[i]
           /\ \A i \in Len(s) + 1 .. Len(s) + Len(t) : (s \o t)[i] = t[i - Len(s)]
OBVIOUS

\* Two chains from one node, with their edges, ...
CanJoin(a, b, l, r, f, g) ==
    /\ l \in Seq(NodeIds) /\ r \in Seq(NodeIds) /\ f \in Seq(EdgeIds) /\ g \in Seq(EdgeIds)
    /\ Len(l) = a + 1 /\ Len(r) = b + 1 /\ Len(f) = a /\ Len(g) = b
    /\ l[1] = r[1]

\* ... are one path, the first of them the other way round.
Joined(a, b, l, r, f, g, nodes, edges) ==
    /\ nodes \in Seq(NodeIds) /\ Len(nodes) = a + b + 1
    /\ edges \in Seq(EdgeIds) /\ Len(edges) = a + b
    /\ Head(nodes) = l[a + 1] /\ Last(nodes) = r[b + 1]
    /\ \A i \in 1 .. a : /\ edges[i] = f[(a + 1) - i]
                         /\ nodes[i] = l[((a + 1) - i) + 1]
                         /\ nodes[i + 1] = l[(a + 1) - i]
    /\ \A i \in a + 1 .. a + b : /\ edges[i] = g[i - a]
                                 /\ nodes[i] = r[i - a]
                                 /\ nodes[i + 1] = r[(i - a) + 1]

LEMMA JoinedChains ==
    ASSUME NEW a \in Nat, NEW b \in Nat, NEW l, NEW r, NEW f, NEW g, CanJoin(a, b, l, r, f, g)
    PROVE  Joined(a, b, l, r, f, g, Reverse(l) \o Tail(r), Reverse(f) \o g)
<1> USE DEF CanJoin
<1> DEFINE x == Reverse(l)
           y == Tail(r)
           u == Reverse(f)
           nodes == x \o y
           edges == u \o g
<1>1. x \in Seq(NodeIds) /\ Len(x) = a + 1 /\ \A i \in 1 .. a + 1 : x[i] = l[(a + 2) - i]
  <2>1. /\ x \in Seq(NodeIds) /\ Len(x) = Len(l)
        /\ \A i \in 1 .. Len(l) : x[i] = l[(Len(l) - i) + 1]
    BY ReversedItems, Zenon
  <2>2. \A i \in 1 .. a + 1 : ((a + 1) - i) + 1 = (a + 2) - i
    OBVIOUS
  <2> HIDE DEF x
  <2> QED BY <2>1, <2>2
<1>2. y \in Seq(NodeIds) /\ Len(y) = b /\ \A i \in 1 .. b : y[i] = r[i + 1]
  OBVIOUS
<1>3. u \in Seq(EdgeIds) /\ Len(u) = a /\ \A i \in 1 .. a : u[i] = f[(a + 1) - i]
  <2>1. /\ u \in Seq(EdgeIds) /\ Len(u) = Len(f)
        /\ \A i \in 1 .. Len(f) : u[i] = f[(Len(f) - i) + 1]
    BY ReversedItems, Zenon
  <2>2. \A i \in 1 .. a : (a - i) + 1 = (a + 1) - i
    OBVIOUS
  <2> HIDE DEF u
  <2> QED BY <2>1, <2>2
<1> HIDE DEF x, y, u
<1>4. /\ nodes \in Seq(NodeIds) /\ Len(nodes) = a + b + 1
      /\ \A i \in 1 .. a + 1 : nodes[i] = x[i]
      /\ \A i \in a + 2 .. a + b + 1 : nodes[i] = y[i - (a + 1)]
  <2>1. /\ nodes \in Seq(NodeIds) /\ Len(nodes) = Len(x) + Len(y)
        /\ \A i \in 1 .. Len(x) : nodes[i] = x[i]
        /\ \A i \in Len(x) + 1 .. Len(x) + Len(y) : nodes[i] = y[i - Len(x)]
    <3>1. x \in Seq(NodeIds)
      BY <1>1
    <3>2. y \in Seq(NodeIds)
      BY <1>2
    <3> QED BY <3>1, <3>2, JoinedItems
  <2>2. (a + 1) + b = a + b + 1 /\ (a + 1) + 1 = a + 2
    OBVIOUS
  <2> HIDE DEF nodes
  <2> QED BY <1>1, <1>2, <2>1, <2>2
<1>5. /\ edges \in Seq(EdgeIds) /\ Len(edges) = a + b
      /\ \A i \in 1 .. a : edges[i] = u[i]
      /\ \A i \in a + 1 .. a + b : edges[i] = g[i - a]
  BY <1>3
<1> HIDE DEF nodes, edges
<1>6. \A i \in 1 .. a + 1 : nodes[i] = l[(a + 2) - i]
  BY <1>1, <1>4
<1>7. \A i \in a + 1 .. a + b + 1 : nodes[i] = r[i - a]
  <2> SUFFICES ASSUME NEW i \in a + 1 .. a + b + 1 PROVE nodes[i] = r[i - a]
    OBVIOUS
  <2>1. CASE i = a + 1
    <3>1. i \in 1 .. a + 1 /\ (a + 2) - i = 1 /\ i - a = 1
      BY <2>1
    <3> QED BY <1>6, <3>1
  <2>2. CASE i # a + 1
    <3>1. i \in a + 2 .. a + b + 1 /\ i - (a + 1) \in 1 .. b /\ (i - (a + 1)) + 1 = i - a
      BY <2>2
    <3> QED BY <1>2, <1>4, <3>1
  <2> QED BY <2>1, <2>2
<1>8. Head(nodes) = l[a + 1] /\ Last(nodes) = r[b + 1]
  <2>1. 1 \in 1 .. a + 1 /\ (a + 2) - 1 = a + 1
    OBVIOUS
  <2>2. a + b + 1 \in a + 1 .. a + b + 1 /\ (a + b + 1) - a = b + 1
    OBVIOUS
  <2>3. Head(nodes) = nodes[1] /\ Last(nodes) = nodes[a + b + 1]
    BY <1>4 DEF Last
  <2> QED BY <1>6, <1>7, <2>1, <2>2, <2>3
<1>9. ASSUME NEW i \in 1 .. a
      PROVE  /\ edges[i] = f[(a + 1) - i]
             /\ nodes[i] = l[((a + 1) - i) + 1]
             /\ nodes[i + 1] = l[(a + 1) - i]
  <2>1. /\ i \in 1 .. a + 1 /\ i + 1 \in 1 .. a + 1
        /\ (a + 2) - i = ((a + 1) - i) + 1 /\ (a + 2) - (i + 1) = (a + 1) - i
    OBVIOUS
  <2>2. edges[i] = f[(a + 1) - i]
    BY <1>3, <1>5
  <2>3. nodes[i] = l[(a + 2) - i] /\ nodes[i + 1] = l[(a + 2) - (i + 1)]
    BY <1>6, <2>1
  <2> QED BY <2>1, <2>2, <2>3
<1>10. ASSUME NEW i \in a + 1 .. a + b
       PROVE  edges[i] = g[i - a] /\ nodes[i] = r[i - a] /\ nodes[i + 1] = r[(i - a) + 1]
  <2>1. i \in a + 1 .. a + b + 1 /\ i + 1 \in a + 1 .. a + b + 1 /\ (i + 1) - a = (i - a) + 1
    OBVIOUS
  <2>2. nodes[i] = r[i - a] /\ nodes[i + 1] = r[(i + 1) - a]
    BY <1>7, <2>1
  <2> QED BY <1>5, <2>1, <2>2
<1>11. Joined(a, b, l, r, f, g, nodes, edges)
  BY <1>4, <1>5, <1>8, <1>9, <1>10 DEF Joined
<1> QED BY <1>11 DEF nodes, edges, x, y, u

\* A path of h hops from the source to the target.
IsPath(p, h) ==
    /\ p # None
    /\ Len(p.node_ids) = h + 1 /\ Len(p.edge_ids) = h
    /\ DOMAIN p.edge_ids = 1 .. h
    /\ \A i \in 1 .. h : Leads(p.edge_ids[i], p.node_ids[i], p.node_ids[i + 1])

\* The path through a node that both sides have found.
LEMMA RebuiltPath ==
    ASSUME Ends, LinkedMap("forward", parents'["forward"]),
           LinkedMap("backward", parents'["backward"]),
           NEW a \in Nat, NEW b \in Nat, NEW meet,
           meet \in Layer("forward", a), meet \in Layer("backward", b),
           meet \in Mapped(parents'["forward"]), meet \in Mapped(parents'["backward"])
    PROVE  IsPath(reconstruct_path(meet), a + b)
<1> DEFINE P == parents'["forward"]
           Q == parents'["backward"]
           l == ChainOf(P, meet)
           r == ChainOf(Q, meet)
           f == EdgesOf(P, l)
           g == EdgesOf(Q, r)
<1>1. Chain("forward", meet) = l /\ Chain("backward", meet) = r
  BY DEF Chain, ChainOf
<1>2. Edges("forward", l) = f /\ Edges("backward", r) = g
  BY DEF Edges, EdgesOf
<1>3. Origin("forward") \in NodeIds /\ Origin("backward") \in NodeIds
      /\ Origin("forward") = request.source /\ Origin("backward") = request.target
  BY WalksBothWays DEF Sides
<1>4. PartOfChain("forward", P, a, l) /\ Len(l) = a + 1 /\ l[1] = meet
  BY <1>3, ChainLinks
<1>5. PartOfChain("backward", Q, b, r) /\ Len(r) = b + 1 /\ r[1] = meet
  BY <1>3, ChainLinks
<1> HIDE DEF l, r, P, Q
<1>6. /\ \A i \in 1 .. a : /\ P[l[i]].via_edge \in EdgeIds
                           /\ Leads(P[l[i]].via_edge, l[i + 1], l[i])
      /\ \A i \in 1 .. b : /\ Q[r[i]].via_edge \in EdgeIds
                           /\ Leads(Q[r[i]].via_edge, r[i], r[i + 1])
  <2>1. Len(l) - 1 = a /\ Len(r) - 1 = b
    BY <1>4, <1>5
  <2> QED BY <1>4, <1>5, <2>1 DEF PartOfChain, LeadsTo
<1>7. f \in Seq(EdgeIds) /\ Len(f) = a /\ \A i \in 1 .. a : f[i] = P[l[i]].via_edge
  <2>1. f = [i \in 1 .. a |-> P[l[i]].via_edge]
    BY <1>4 DEF EdgesOf
  <2> HIDE DEF f
  <2> QED BY <1>6, <2>1
<1>8. g \in Seq(EdgeIds) /\ Len(g) = b /\ \A i \in 1 .. b : g[i] = Q[r[i]].via_edge
  <2>1. g = [i \in 1 .. b |-> Q[r[i]].via_edge]
    BY <1>5 DEF EdgesOf
  <2> HIDE DEF g
  <2> QED BY <1>6, <2>1
<1> HIDE DEF f, g
<1>9. l \in Seq(NodeIds) /\ r \in Seq(NodeIds)
  BY <1>4, <1>5 DEF PartOfChain, Mapped
<1>10. l[a + 1] = request.source /\ r[b + 1] = request.target
  <2>1. Layer("forward", 0) = {request.source} /\ Layer("backward", 0) = {request.target}
    BY <1>3, LayerNodes
  <2>2. l[a + 1] \in Layer("forward", (a + 1) - (a + 1))
    BY <1>4 DEF PartOfChain
  <2>3. r[b + 1] \in Layer("backward", (b + 1) - (b + 1))
    BY <1>5 DEF PartOfChain
  <2>4. (a + 1) - (a + 1) = 0 /\ (b + 1) - (b + 1) = 0
    OBVIOUS
  <2> QED BY <2>1, <2>2, <2>3, <2>4
<1> DEFINE nodes == Reverse(l) \o Tail(r)
           edges == Reverse(f) \o g
           p == [node_ids |-> nodes, edge_ids |-> edges]
<1> HIDE DEF p
<1>11. /\ nodes \in Seq(NodeIds) /\ Len(nodes) = a + b + 1
       /\ edges \in Seq(EdgeIds) /\ Len(edges) = a + b
       /\ Head(nodes) = request.source /\ Last(nodes) = request.target
       /\ \A i \in 1 .. a : /\ edges[i] = f[(a + 1) - i]
                            /\ nodes[i] = l[((a + 1) - i) + 1]
                            /\ nodes[i + 1] = l[(a + 1) - i]
       /\ \A i \in a + 1 .. a + b : /\ edges[i] = g[i - a]
                                    /\ nodes[i] = r[i - a]
                                    /\ nodes[i + 1] = r[(i - a) + 1]
  <2>1. CanJoin(a, b, l, r, f, g)
    BY <1>4, <1>5, <1>7, <1>8, <1>9 DEF CanJoin
  <2>2. Joined(a, b, l, r, f, g, nodes, edges)
    BY <2>1, JoinedChains, Zenon
  <2> HIDE DEF nodes, edges
  <2> QED BY <1>10, <2>2 DEF Joined
<1> HIDE DEF nodes, edges
<1>12. reconstruct_path(meet) = p
  BY <1>1, <1>2, <1>11 DEF reconstruct_path, nodes, edges, p
<1>13. p # None
  BY <1>11, NoneAssumption DEF p
<1>14. ASSUME NEW i \in 1 .. a + b PROVE Leads(edges[i], nodes[i], nodes[i + 1])
  <2>1. CASE i \in 1 .. a
    <3>1. (a + 1) - i \in 1 .. a
      BY <2>1
    <3> QED BY <1>6, <1>7, <1>11, <2>1, <3>1
  <2>2. CASE i \notin 1 .. a
    <3>1. i \in a + 1 .. a + b /\ i - a \in 1 .. b
      BY <2>2
    <3> QED BY <1>6, <1>8, <1>11, <3>1
  <2> QED BY <2>1, <2>2
<1>15. p.node_ids = nodes /\ p.edge_ids = edges /\ DOMAIN edges = 1 .. a + b
  BY <1>11 DEF p
<1> QED BY <1>11, <1>12, <1>13, <1>14, <1>15 DEF IsPath

-----------------------------------------------------------------------------
(* ShortestPath: one side of the search                                    *)

InQueue(q, n) == \E i \in DOMAIN q : q[i][1] = n

\* Every edge of n but those of left was followed.
Spreads(side, P, n, left) ==
    \A next \in expand_neighbors(n, Direction(side)) \ left : next[2] \in Mapped(P)

\* The queue holds lv entries of layer c and then entries of layer c + 1.
LevelOk(side, q, P, c, lv) ==
    /\ q \in Seq(NodeIds \X Nat) /\ lv \in 0 .. Len(q)
    /\ \A i \in DOMAIN q :
          /\ q[i][2] = IF i <= lv THEN c ELSE c + 1
          /\ q[i][2] <= request.max_depth
          /\ q[i][1] \in Layer(side, q[i][2]) /\ q[i][1] \in Mapped(P)

\* What is found are the layers up to c and a part of layer c + 1, which is
\* queued.
FoundOk(side, q, P, c) ==
    /\ \A n \in Mapped(P) : \E k \in 0 .. request.max_depth : k <= c + 1 /\ n \in Layer(side, k)
    /\ \A k \in 0 .. request.max_depth : k <= c => Layer(side, k) \subseteq Mapped(P)
    /\ \A n \in Mapped(P) : n \in Layer(side, c + 1) => InQueue(q, n)

\* What is not queued and not under expansion has been expanded.
SpreadOk(side, q, P, c, node, left) ==
    \A k \in 0 .. c, n \in NodeIds : n \in Layer(side, k) /\ k < request.max_depth =>
        \/ InQueue(q, n)
        \/ Spreads(side, P, n, {})
        \/ n = node /\ Spreads(side, P, n, left)

UnderExpansion(side, P, c, node, left) ==
    left # {} =>
        /\ c < request.max_depth
        /\ node \in NodeIds /\ node \in Layer(side, c) /\ node \in Mapped(P)
        /\ left \subseteq expand_neighbors(node, Direction(side))

\* A side with queue q and parent map P that has lv entries of layer c left,
\* and the edges left of node.
SideOk(side, q, P, c, lv, node, left) ==
    /\ P \in [NodeIds -> ParentEntry \cup {None}]
    /\ LevelOk(side, q, P, c, lv)
    /\ FoundOk(side, q, P, c)
    /\ SpreadOk(side, q, P, c, node, left)
    /\ UnderExpansion(side, P, c, node, left)
    /\ LinkedMap(side, P)

LEMMA SideStays ==
    ASSUME graph' = graph, request' = request,
           NEW side, NEW q, NEW P, NEW c, NEW lv, NEW node, NEW left
    PROVE  SideOk(side, q, P, c, lv, node, left)' <=> SideOk(side, q, P, c, lv, node, left)
<1>1. \A a, b : Layer(a, b)' = Layer(a, b)
  BY LayerStays
<1>2. Direction(side)' = Direction(side) /\ Origin(side)' = Origin(side)
  BY DEF Direction, Origin
<1>3. \A n, d : expand_neighbors(n, d)' = expand_neighbors(n, d)
  BY ExpandStays
<1>4. \A n, l : Spreads(side, P, n, l)' <=> Spreads(side, P, n, l)
  BY <1>2, <1>3 DEF Spreads
<1>5. \A e, m, n : LeadsTo(side, e, m, n)' <=> LeadsTo(side, e, m, n)
  BY LeadsStays DEF LeadsTo
<1>6. LevelOk(side, q, P, c, lv)' <=> LevelOk(side, q, P, c, lv)
  BY <1>1 DEF LevelOk
<1>7. FoundOk(side, q, P, c)' <=> FoundOk(side, q, P, c)
  BY <1>1 DEF FoundOk
<1>8. SpreadOk(side, q, P, c, node, left)' <=> SpreadOk(side, q, P, c, node, left)
  BY <1>1, <1>4 DEF SpreadOk
<1>9. UnderExpansion(side, P, c, node, left)' <=> UnderExpansion(side, P, c, node, left)
  BY <1>1, <1>2, <1>3 DEF UnderExpansion
<1>10. LinkedMap(side, P)' <=> LinkedMap(side, P)
  BY <1>1, <1>2, <1>5 DEF LinkedMap
<1> QED BY <1>6, <1>7, <1>8, <1>9, <1>10 DEF SideOk

\* A side starts with its end.
LEMMA SideStarts ==
    ASSUME Ends, request.max_depth \in Nat, NEW side \in Sides, NEW P,
           P \in [NodeIds -> ParentEntry \cup {None}],
           \A n \in NodeIds : P[n] = IF n = Origin(side) THEN Root ELSE None
    PROVE  SideOk(side, << <<Origin(side), 0>> >>, P, 0, 1, None, {})
<1> DEFINE o == Origin(side)
           q == << <<o, 0>> >>
<1>1. o \in NodeIds /\ Layer(side, 0) = {o}
  BY WalksBothWays, LayerNodes
<1>2. q \in Seq(NodeIds \X Nat) /\ Len(q) = 1 /\ DOMAIN q = {1} /\ q[1][1] = o /\ q[1][2] = 0
  BY <1>1
<1>3. Root # None
  BY NoneAssumption DEF Root
<1>4. Mapped(P) = {o}
  BY <1>1, <1>3 DEF Mapped
<1> HIDE DEF q, o
<1>5. LevelOk(side, q, P, 0, 1)
  BY <1>1, <1>2, <1>4 DEF LevelOk
<1>6. ASSUME NEW k \in Nat, o \in Layer(side, k) PROVE k = 0
  BY <1>1, <1>6, LayerUnique
<1>7. FoundOk(side, q, P, 0)
  <2>1. o \notin Layer(side, 0 + 1)
    BY <1>6
  <2>2. \A k \in 0 .. request.max_depth : k <= 0 => k = 0
    OBVIOUS
  <2>3. 0 \in 0 .. request.max_depth /\ 0 <= 0 + 1
    OBVIOUS
  <2> QED BY <1>1, <1>4, <2>1, <2>2, <2>3 DEF FoundOk
<1>8. SpreadOk(side, q, P, 0, None, {})
  <2>1. InQueue(q, o)
    BY <1>2 DEF InQueue
  <2>2. \A k \in 0 .. 0 : k = 0
    OBVIOUS
  <2> QED BY <1>1, <2>1, <2>2 DEF SpreadOk
<1>9. UnderExpansion(side, P, 0, None, {})
  BY DEF UnderExpansion
<1>10. LinkedMap(side, P)
  BY <1>1 DEF LinkedMap, o
<1>11. SideOk(side, q, P, 0, 1, None, {})
  BY <1>5, <1>7, <1>8, <1>9, <1>10 DEF SideOk
<1> QED BY <1>11 DEF q, o

\* The next node of the level is expanded.
LEMMA SidePops ==
    ASSUME Common, Ends, NEW side \in Sides, NEW q, NEW P, NEW c \in Nat, NEW lv, NEW node,
           SideOk(side, q, P, c, lv, node, {}), lv > 0
    PROVE  LET n == Head(q)[1]
               depth == Head(q)[2]
               left == IF depth = request.max_depth THEN {}
                       ELSE expand_neighbors(n, Direction(side))
           IN  /\ n \in NodeIds /\ depth = c
               /\ SideOk(side, Tail(q), P, c, lv - 1, n, left)
<1> DEFINE n == Head(q)[1]
           depth == Head(q)[2]
           left == IF depth = request.max_depth THEN {}
                   ELSE expand_neighbors(n, Direction(side))
           r == Tail(q)
<1>1. /\ LevelOk(side, q, P, c, lv) /\ FoundOk(side, q, P, c)
      /\ SpreadOk(side, q, P, c, node, {}) /\ LinkedMap(side, P)
      /\ P \in [NodeIds -> ParentEntry \cup {None}]
  BY DEF SideOk
<1>2. /\ q \in Seq(NodeIds \X Nat) /\ lv \in 0 .. Len(q) /\ Len(q) \in Nat /\ lv \in Nat
      /\ lv - 1 \in Nat /\ request.max_depth \in Nat
  BY <1>1 DEF LevelOk, Common, IsRequest
<1>3. q # << >>
  BY <1>2
<1>4. /\ r \in Seq(NodeIds \X Nat) /\ Len(r) = Len(q) - 1
      /\ 1 \in DOMAIN q /\ q[1] = Head(q) /\ q[1] \in NodeIds \X Nat
      /\ \A i \in DOMAIN q : i \in Nat /\ (i # 1 => i - 1 \in DOMAIN r)
      /\ \A i \in DOMAIN r : i \in Nat \ {0} /\ i + 1 \in DOMAIN q /\ r[i] = q[i + 1]
  BY <1>2, <1>3, RestOfQueue
<1> HIDE DEF r
<1>5. /\ n \in NodeIds /\ depth = c /\ c <= request.max_depth
      /\ n \in Layer(side, c) /\ n \in Mapped(P)
  <2>1. n = q[1][1] /\ depth = q[1][2] /\ 1 <= lv
    BY <1>2, <1>4
  <2> QED BY <1>1, <1>4, <2>1 DEF LevelOk
<1> HIDE DEF n, depth
<1>6. LevelOk(side, r, P, c, lv - 1)
  <2>1. lv - 1 \in 0 .. Len(r)
    BY <1>2, <1>4
  <2>2. ASSUME NEW i \in DOMAIN r
        PROVE  /\ r[i][2] = IF i <= lv - 1 THEN c ELSE c + 1
               /\ r[i][2] <= request.max_depth
               /\ r[i][1] \in Layer(side, r[i][2]) /\ r[i][1] \in Mapped(P)
    <3>1. i + 1 \in DOMAIN q /\ r[i] = q[i + 1] /\ (i + 1 <= lv <=> i <= lv - 1)
      BY <1>2, <1>4
    <3> QED BY <1>1, <3>1 DEF LevelOk
  <2> QED BY <1>4, <2>1, <2>2 DEF LevelOk
<1>7. ASSUME NEW m, InQueue(q, m), m # n PROVE InQueue(r, m)
  <2>1. PICK i \in DOMAIN q : q[i][1] = m
    BY <1>7 DEF InQueue
  <2>2. i # 1
    BY <1>4, <1>7, <2>1 DEF n
  <2>3. i - 1 \in DOMAIN r /\ i \in Nat
    BY <1>4, <2>2
  <2>4. r[i - 1] = q[(i - 1) + 1] /\ (i - 1) + 1 = i
    BY <1>4, <2>3
  <2> QED BY <2>1, <2>3, <2>4 DEF InQueue
<1>8. FoundOk(side, r, P, c)
  <2>1. ASSUME NEW m \in Mapped(P), m \in Layer(side, c + 1) PROVE InQueue(r, m)
    <3>1. InQueue(q, m)
      BY <1>1, <2>1 DEF FoundOk
    <3>2. m # n
      <4>1. c + 1 \in Nat /\ c + 1 # c
        OBVIOUS
      <4> QED BY <1>5, <2>1, <4>1, LayerUnique
    <3> QED BY <1>7, <3>1, <3>2
  <2> QED BY <1>1, <2>1 DEF FoundOk
<1>9. SpreadOk(side, r, P, c, n, left)
  <2> SUFFICES ASSUME NEW k \in 0 .. c, NEW m \in NodeIds, m \in Layer(side, k),
                      k < request.max_depth
               PROVE  \/ InQueue(r, m)
                      \/ Spreads(side, P, m, {})
                      \/ m = n /\ Spreads(side, P, m, left)
    BY DEF SpreadOk
  <2>1. InQueue(q, m) \/ Spreads(side, P, m, {})
    BY <1>1 DEF SpreadOk
  <2>2. CASE m = n
    <3>1. k = c
      BY <1>5, <2>2, LayerUnique
    <3>2. left = expand_neighbors(n, Direction(side))
      BY <1>2, <1>5, <3>1
    <3> QED BY <2>2, <3>2 DEF Spreads
  <2>3. CASE m # n
    BY <1>7, <2>1, <2>3
  <2> QED BY <2>2, <2>3
<1>10. UnderExpansion(side, P, c, n, left)
  BY <1>2, <1>5 DEF UnderExpansion
<1>11. SideOk(side, r, P, c, lv - 1, n, left)
  BY <1>1, <1>6, <1>8, <1>9, <1>10 DEF SideOk
<1> QED BY <1>5, <1>11 DEF n, depth, r

\* Where an edge of the node under expansion leads to.
LEMMA SideTarget ==
    ASSUME Common, Ends, NEW side \in Sides, NEW q, NEW P, NEW c \in Nat, NEW lv, NEW node,
           NEW left, SideOk(side, q, P, c, lv, node, left), NEW next \in left
    PROVE  /\ next \in EdgeIds \X NodeIds
           /\ LeadsTo(side, next[1], node, next[2])
           /\ c < request.max_depth
           /\ next[2] \notin Mapped(P) => next[2] \in Layer(side, c + 1)
<1>1. /\ c < request.max_depth
      /\ node \in NodeIds /\ node \in Layer(side, c)
      /\ next \in expand_neighbors(node, Direction(side))
  BY DEF SideOk, UnderExpansion
<1>2. IsGraph(graph) /\ IsRequest(request) /\ request.max_depth \in Nat
  BY DEF Common, IsRequest
<1>3. next \in EdgeIds \X NodeIds /\ Labelled(next[2]) /\ LeadsTo(side, next[1], node, next[2])
  BY <1>1, <1>2, ExpandIs
<1>4. next[1] \in EdgeIds /\ next[2] \in NodeIds
  BY <1>3
<1>5. StepTo(side, node, next[2])
  BY <1>3, <1>4, LeadsStep
<1>6. Origin(side) \in NodeIds
  BY WalksBothWays
<1>7. PICK j \in 0 .. c + 1 : next[2] \in Layer(side, j)
  BY <1>1, <1>3, <1>4, <1>5, <1>6, LayerAfter
<1>8. ASSUME next[2] \notin Mapped(P) PROVE j = c + 1
  <2>1. j \in 0 .. request.max_depth
    BY <1>1, <1>2
  <2>2. ~(j <= c)
    BY <1>7, <1>8, <2>1 DEF SideOk, FoundOk
  <2> QED BY <2>2
<1> QED BY <1>1, <1>3, <1>7, <1>8

\* An edge to a node that this side has found changes nothing.
LEMMA SideSees ==
    ASSUME NEW side, NEW q, NEW P, NEW c, NEW lv, NEW node, NEW left, NEW next,
           SideOk(side, q, P, c, lv, node, left), next[2] \in Mapped(P)
    PROVE  SideOk(side, q, P, c, lv, node, left \ {next})
<1>1. \A n : Spreads(side, P, n, left) => Spreads(side, P, n, left \ {next})
  BY DEF Spreads
<1>2. SpreadOk(side, q, P, c, node, left \ {next})
  BY <1>1 DEF SideOk, SpreadOk
<1>3. UnderExpansion(side, P, c, node, left \ {next})
  BY DEF SideOk, UnderExpansion
<1> QED BY <1>2, <1>3 DEF SideOk

\* The entry of a node that this side finds first.
IsEntered(R, P, node, next) ==
    R = [P EXCEPT ![next[2]] = [previous |-> node, via_edge |-> next[1]]]

LEMMA LinkedAdds ==
    ASSUME Common, Ends, NEW side \in Sides, NEW q, NEW P, NEW c \in Nat, NEW lv, NEW node,
           NEW left, SideOk(side, q, P, c, lv, node, left), NEW next \in left,
           next[2] \notin Mapped(P), NEW R, IsEntered(R, P, node, next)
    PROVE  /\ R \in [NodeIds -> ParentEntry \cup {None}]
           /\ Mapped(R) = Mapped(P) \cup {next[2]}
           /\ LinkedMap(side, R)
<1> DEFINE x == next[2]
           e == next[1]
           entry == [previous |-> node, via_edge |-> e]
<1>1. /\ next \in EdgeIds \X NodeIds /\ LeadsTo(side, next[1], node, next[2])
      /\ c < request.max_depth /\ next[2] \in Layer(side, c + 1)
  BY SideTarget
<1>2. e \in EdgeIds /\ x \in NodeIds /\ LeadsTo(side, e, node, x) /\ x \in Layer(side, c + 1)
  BY <1>1
<1>3. node \in NodeIds /\ node \in Layer(side, c) /\ node \in Mapped(P)
  BY DEF SideOk, UnderExpansion
<1>4. P \in [NodeIds -> ParentEntry \cup {None}] /\ LinkedMap(side, P) /\ x \notin Mapped(P)
  BY DEF SideOk
<1>5. entry \in ParentEntry /\ entry # None
  BY <1>2, <1>3, NoneAssumption DEF ParentEntry
<1>6. R = [P EXCEPT ![x] = entry] /\ entry = [previous |-> node, via_edge |-> e]
  BY DEF IsEntered
<1> HIDE DEF x, e, entry
<1>7. /\ R \in [NodeIds -> ParentEntry \cup {None}]
      /\ R[x] = entry /\ \A n \in NodeIds : n # x => R[n] = P[n]
  BY <1>2, <1>4, <1>5, <1>6
<1>8. Mapped(R) = Mapped(P) \cup {x}
  BY <1>2, <1>4, <1>5, <1>7 DEF Mapped
<1>9. Origin(side) \in NodeIds /\ P[Origin(side)] = Root /\ Root # None
  BY <1>4, NoneAssumption, WalksBothWays DEF LinkedMap, Root
<1>10. x # Origin(side)
  BY <1>4, <1>9 DEF Mapped
<1>11. LinkedMap(side, R)
  <2>1. R[Origin(side)] = Root
    BY <1>7, <1>9, <1>10
  <2>2. ASSUME NEW n \in NodeIds, R[n] # None, n # Origin(side)
        PROVE  \E k \in Nat, f \in EdgeIds, m \in NodeIds :
                   /\ R[m] # None /\ m \in Layer(side, k) /\ n \in Layer(side, k + 1)
                   /\ LeadsTo(side, f, m, n)
                   /\ R[n] = [previous |-> m, via_edge |-> f]
    <3>1. CASE n = x
      <4>1. R[node] # None
        BY <1>3, <1>8 DEF Mapped
      <4> QED BY <1>2, <1>3, <1>6, <1>7, <3>1, <4>1
    <3>2. CASE n # x
      <4>1. P[n] = R[n] /\ P[n] # None
        BY <1>7, <2>2, <3>2
      <4>2. PICK k \in Nat, f \in EdgeIds, m \in NodeIds :
                /\ P[m] # None /\ m \in Layer(side, k) /\ n \in Layer(side, k + 1)
                /\ LeadsTo(side, f, m, n)
                /\ P[n] = [previous |-> m, via_edge |-> f]
        BY <1>4, <2>2, <4>1 DEF LinkedMap
      <4>3. R[m] # None
        <5>1. m \in Mapped(R)
          BY <1>8, <4>2 DEF Mapped
        <5> QED BY <5>1 DEF Mapped
      <4>4. R[n] = [previous |-> m, via_edge |-> f]
        BY <4>1, <4>2
      <4> QED BY <4>2, <4>3, <4>4
    <3> QED BY <3>1, <3>2
  <2> QED BY <2>1, <2>2 DEF LinkedMap
<1> QED BY <1>7, <1>8, <1>11 DEF x

LEMMA EnteredMaps ==
    ASSUME Common, Ends, NEW side \in Sides, NEW q, NEW P, NEW c \in Nat, NEW lv, NEW node,
           NEW left, SideOk(side, q, P, c, lv, node, left), NEW next \in left,
           next[2] \notin Mapped(P), NEW R, IsEntered(R, P, node, next)
    PROVE  \A n : n \in Mapped(R) <=> n \in Mapped(P) \/ n = next[2]
<1>1. /\ R \in [NodeIds -> ParentEntry \cup {None}]
      /\ Mapped(R) = Mapped(P) \cup {next[2]}
      /\ LinkedMap(side, R)
  BY LinkedAdds
<1> QED BY <1>1

\* A node that this side finds first is queued for the next level.
LEMMA SideAdds ==
    ASSUME Common, Ends, NEW side \in Sides, NEW q, NEW P, NEW c \in Nat, NEW lv, NEW node,
           NEW left, SideOk(side, q, P, c, lv, node, left), NEW next \in left,
           next[2] \notin Mapped(P), NEW R, IsEntered(R, P, node, next),
           NEW s, s = Append(q, <<next[2], c + 1>>)
    PROVE  SideOk(side, s, R, c, lv, node, left \ {next})
<1> DEFINE x == next[2]
           entry == <<x, c + 1>>
<1>1. c < request.max_depth /\ x \in Layer(side, c + 1) /\ x \in NodeIds
  <2>1. /\ next \in EdgeIds \X NodeIds
        /\ c < request.max_depth /\ next[2] \in Layer(side, c + 1)
    BY SideTarget
  <2> QED BY <2>1
<1>2. /\ R \in [NodeIds -> ParentEntry \cup {None}]
      /\ Mapped(R) = Mapped(P) \cup {x}
      /\ LinkedMap(side, R)
  BY LinkedAdds
<1>3. /\ LevelOk(side, q, P, c, lv) /\ FoundOk(side, q, P, c)
      /\ SpreadOk(side, q, P, c, node, left) /\ UnderExpansion(side, P, c, node, left)
  BY DEF SideOk
<1>4. q \in Seq(NodeIds \X Nat) /\ lv \in 0 .. Len(q) /\ request.max_depth \in Nat
  BY <1>3 DEF LevelOk, Common, IsRequest
<1>5. /\ entry \in NodeIds \X Nat /\ entry[1] = x /\ entry[2] = c + 1
      /\ s = Append(q, entry)
  BY <1>1
<1> HIDE DEF x, entry
<1>6. /\ s \in Seq(NodeIds \X Nat) /\ Len(s) = Len(q) + 1 /\ Len(q) \in Nat
      /\ DOMAIN s = (DOMAIN q) \cup {Len(q) + 1}
      /\ \A i \in DOMAIN q : i \in Nat /\ i < Len(q) + 1 /\ s[i] = q[i]
      /\ s[Len(q) + 1] = entry
  BY <1>4, <1>5, AppendedEntry
<1>7. LevelOk(side, s, R, c, lv)
  <2>1. lv \in 0 .. Len(s)
    BY <1>4, <1>6
  <2>2. ASSUME NEW i \in DOMAIN s
        PROVE  /\ s[i][2] = IF i <= lv THEN c ELSE c + 1
               /\ s[i][2] <= request.max_depth
               /\ s[i][1] \in Layer(side, s[i][2]) /\ s[i][1] \in Mapped(R)
    <3>1. CASE i \in DOMAIN q
      BY <1>2, <1>3, <1>6, <3>1 DEF LevelOk
    <3>2. CASE i = Len(q) + 1
      <4>1. ~(i <= lv)
        BY <1>4, <1>6, <3>2
      <4>2. s[i][1] = x /\ s[i][2] = c + 1
        BY <1>5, <1>6, <3>2
      <4>3. c + 1 <= request.max_depth
        BY <1>1, <1>4
      <4> QED BY <1>1, <1>2, <4>1, <4>2, <4>3
    <3> QED BY <1>6, <3>1, <3>2
  <2> QED BY <1>6, <2>1, <2>2 DEF LevelOk
<1>8. \A n : InQueue(q, n) => InQueue(s, n)
  BY <1>6 DEF InQueue
<1>9. InQueue(s, x)
  BY <1>5, <1>6 DEF InQueue
<1>10. FoundOk(side, s, R, c)
  <2>1. c + 1 \in 0 .. request.max_depth /\ c + 1 <= c + 1
    BY <1>1, <1>4
  <2>2. ASSUME NEW n \in Mapped(R)
        PROVE  \E k \in 0 .. request.max_depth : k <= c + 1 /\ n \in Layer(side, k)
    <3>1. CASE n = x
      BY <1>1, <2>1, <3>1
    <3>2. CASE n \in Mapped(P)
      BY <1>3, <3>2 DEF FoundOk
    <3> QED BY <1>2, <3>1, <3>2
  <2>3. ASSUME NEW n \in Mapped(R), n \in Layer(side, c + 1) PROVE InQueue(s, n)
    BY <1>2, <1>3, <1>8, <1>9, <2>3 DEF FoundOk
  <2>4. \A k \in 0 .. request.max_depth : k <= c => Layer(side, k) \subseteq Mapped(R)
    BY <1>2, <1>3 DEF FoundOk
  <2> QED BY <2>2, <2>3, <2>4 DEF FoundOk
<1>11. SpreadOk(side, s, R, c, node, left \ {next})
  <2>1. \A n, l : Spreads(side, P, n, l) => Spreads(side, R, n, l)
    BY <1>2 DEF Spreads
  <2>2. \A n : Spreads(side, P, n, left) => Spreads(side, R, n, left \ {next})
    BY <1>2 DEF Spreads, x
  <2> QED BY <1>3, <1>8, <2>1, <2>2 DEF SpreadOk
<1>12. UnderExpansion(side, R, c, node, left \ {next})
  BY <1>2, <1>3 DEF UnderExpansion
<1> QED BY <1>2, <1>7, <1>10, <1>11, <1>12 DEF SideOk

\* An expanded level leaves the queue with the next layer.
LEMMA SideNextLevel ==
    ASSUME Common, Ends, NEW side \in Sides, NEW q, NEW P, NEW c \in Nat, NEW node,
           SideOk(side, q, P, c, 0, node, {})
    PROVE  SideOk(side, q, P, c + 1, Len(q), None, {})
<1>1. /\ LevelOk(side, q, P, c, 0) /\ FoundOk(side, q, P, c)
      /\ SpreadOk(side, q, P, c, node, {})
      /\ P \in [NodeIds -> ParentEntry \cup {None}] /\ LinkedMap(side, P)
  BY DEF SideOk
<1>2. q \in Seq(NodeIds \X Nat) /\ request.max_depth \in Nat
  BY <1>1 DEF LevelOk, Common, IsRequest
<1>3. DOMAIN q = 1 .. Len(q) /\ Len(q) \in Nat /\ Len(q) \in 0 .. Len(q)
  BY <1>2
<1>4. ASSUME NEW i \in DOMAIN q PROVE q[i][2] = c + 1 /\ i <= Len(q)
  <2>1. ~(i <= 0) /\ i <= Len(q)
    BY <1>3
  <2> QED BY <1>1, <2>1 DEF LevelOk
<1>5. LevelOk(side, q, P, c + 1, Len(q))
  BY <1>1, <1>2, <1>3, <1>4 DEF LevelOk
<1>6. Origin(side) \in NodeIds
  BY WalksBothWays
<1>7. ASSUME NEW k \in 0 .. c, NEW n \in NodeIds, n \in Layer(side, k), k < request.max_depth
      PROVE  Spreads(side, P, n, {})
  <2>1. InQueue(q, n) \/ Spreads(side, P, n, {})
    BY <1>1, <1>7 DEF SpreadOk
  <2>2. ~InQueue(q, n)
    <3> SUFFICES ASSUME NEW i \in DOMAIN q, q[i][1] = n PROVE FALSE
      BY DEF InQueue
    <3>1. n \in Layer(side, c + 1)
      BY <1>1, <1>4 DEF LevelOk
    <3>2. c + 1 \in Nat /\ k \in Nat /\ k # c + 1
      OBVIOUS
    <3> QED BY <1>7, <3>1, <3>2, LayerUnique
  <2> QED BY <2>1, <2>2
<1>8. ASSUME c + 1 <= request.max_depth, NEW n \in Layer(side, c + 1) PROVE n \in Mapped(P)
  <2>1. PICK m \in Layer(side, c) : StepTo(side, m, n)
    BY <1>6, LayerBefore
  <2>2. n \in NodeIds /\ Labelled(n)
    BY <1>6, LayerBefore
  <2>3. m \in NodeIds /\ c \in 0 .. c /\ c < request.max_depth
    BY <1>2, <1>6, <1>8, LayerNodes
  <2>4. Spreads(side, P, m, {})
    BY <1>7, <2>3
  <2>5. PICK e \in EdgeIds : LeadsTo(side, e, m, n)
    BY <2>1 DEF StepTo, Hop, LeadsTo
  <2> DEFINE next == <<e, n>>
  <2>6. /\ next \in EdgeIds \X NodeIds /\ next[1] = e /\ next[2] = n
    BY <2>2
  <2> HIDE DEF next
  <2>7. next \in expand_neighbors(m, Direction(side))
    BY <2>2, <2>3, <2>5, <2>6, ExpandIs DEF Common
  <2> QED BY <2>4, <2>6, <2>7 DEF Spreads
<1>9. FoundOk(side, q, P, c + 1)
  <2>1. ASSUME NEW n \in Mapped(P)
        PROVE  \E k \in 0 .. request.max_depth : k <= (c + 1) + 1 /\ n \in Layer(side, k)
    BY <1>1 DEF FoundOk
  <2>2. ASSUME NEW k \in 0 .. request.max_depth, k <= c + 1
        PROVE  Layer(side, k) \subseteq Mapped(P)
    <3>1. CASE k <= c
      BY <1>1, <3>1 DEF FoundOk
    <3>2. CASE k = c + 1
      BY <1>8, <1>2, <3>2
    <3> QED BY <2>2, <3>1, <3>2
  <2>3. ASSUME NEW n \in Mapped(P), n \in Layer(side, (c + 1) + 1) PROVE FALSE
    <3>1. PICK k \in 0 .. request.max_depth : k <= c + 1 /\ n \in Layer(side, k)
      BY <1>1 DEF FoundOk
    <3>2. (c + 1) + 1 \in Nat /\ k \in Nat /\ k # (c + 1) + 1
      BY <3>1
    <3> QED BY <2>3, <3>1, <3>2, LayerUnique
  <2> QED BY <2>1, <2>2, <2>3 DEF FoundOk
<1>10. SpreadOk(side, q, P, c + 1, None, {})
  <2> SUFFICES ASSUME NEW k \in 0 .. c + 1, NEW n \in NodeIds, n \in Layer(side, k),
                      k < request.max_depth
               PROVE  InQueue(q, n) \/ Spreads(side, P, n, {})
    BY DEF SpreadOk
  <2>1. CASE k \in 0 .. c
    BY <1>7, <2>1
  <2>2. CASE k = c + 1
    <3>1. n \in Mapped(P)
      BY <1>2, <1>8, <2>2
    <3> QED BY <1>1, <2>2, <3>1 DEF FoundOk
  <2> QED BY <2>1, <2>2
<1>11. UnderExpansion(side, P, c + 1, None, {})
  BY DEF UnderExpansion
<1> QED BY <1>1, <1>5, <1>9, <1>10, <1>11 DEF SideOk

\* What a side has found up to layer c.
LEMMA SideCovers ==
    ASSUME NEW side, NEW q, NEW P, NEW c, NEW lv, NEW node, NEW left,
           SideOk(side, q, P, c, lv, node, left), request.max_depth \in Nat,
           NEW k \in Nat, k <= request.max_depth, \A j \in 0 .. k : j <= c
    PROVE  Covers(Mapped(P), side, k)
<1>1. \A j \in 0 .. k : j \in 0 .. request.max_depth
  OBVIOUS
<1> QED BY <1>1 DEF Covers, SideOk, FoundOk

\* A side between two levels has found no more than layer c, which it has
\* queued ...
LEMMA SideRests ==
    ASSUME Common, Ends, NEW side \in Sides, NEW q, NEW P, NEW c \in Nat,
           SideOk(side, q, P, c, Len(q), None, {})
    PROVE  /\ \A n \in Mapped(P) :
                 \E k \in 0 .. request.max_depth : k <= c /\ n \in Layer(side, k)
           /\ q # << >> => c <= request.max_depth /\ Layer(side, c) # {}
<1>1. /\ LevelOk(side, q, P, c, Len(q)) /\ FoundOk(side, q, P, c)
  BY DEF SideOk
<1>2. q \in Seq(NodeIds \X Nat) /\ request.max_depth \in Nat
  BY <1>1 DEF LevelOk, Common, IsRequest
<1>3. DOMAIN q = 1 .. Len(q) /\ Len(q) \in Nat
  BY <1>2
<1>4. ASSUME NEW i \in DOMAIN q
      PROVE  q[i][1] \in Layer(side, c) /\ c <= request.max_depth
  <2>1. i <= Len(q)
    BY <1>3
  <2> QED BY <1>1, <2>1 DEF LevelOk
<1>5. ASSUME NEW n \in Mapped(P) PROVE n \notin Layer(side, c + 1)
  <2> SUFFICES ASSUME n \in Layer(side, c + 1) PROVE FALSE
    OBVIOUS
  <2>1. PICK i \in DOMAIN q : q[i][1] = n
    BY <1>1 DEF FoundOk, InQueue
  <2>2. n \in Layer(side, c) /\ c + 1 \in Nat /\ c + 1 # c
    BY <1>4, <2>1
  <2> QED BY <2>2, LayerUnique
<1>6. ASSUME NEW n \in Mapped(P)
      PROVE  \E k \in 0 .. request.max_depth : k <= c /\ n \in Layer(side, k)
  <2>1. PICK k \in 0 .. request.max_depth : k <= c + 1 /\ n \in Layer(side, k)
    BY <1>1 DEF FoundOk
  <2>2. k # c + 1
    BY <1>5, <2>1
  <2>3. k <= c
    BY <1>2, <2>1, <2>2
  <2> QED BY <2>1, <2>3
<1>7. ASSUME q # << >> PROVE c <= request.max_depth /\ Layer(side, c) # {}
  <2>1. 1 \in DOMAIN q
    BY <1>2, <1>7, RestOfQueue
  <2> QED BY <1>4, <2>1
<1> QED BY <1>6, <1>7

\* ... and with an empty queue there is nothing more to find.
LEMMA SideExhausted ==
    ASSUME Common, Ends, NEW side \in Sides, NEW q, NEW P, NEW c \in Nat,
           SideOk(side, q, P, c, Len(q), None, {}), q = << >>, c < request.max_depth,
           NEW k \in Nat
    PROVE  Covers(Mapped(P), side, k)
<1>1. FoundOk(side, q, P, c) /\ SpreadOk(side, q, P, c, None, {})
      /\ request.max_depth \in Nat
  BY DEF SideOk, Common, IsRequest
<1>2. \A n : ~InQueue(q, n)
  BY DEF InQueue
<1>3. Origin(side) \in NodeIds
  BY WalksBothWays
<1>4. Layer(side, c + 1) = {}
  <2> SUFFICES ASSUME NEW n \in Layer(side, c + 1) PROVE FALSE
    OBVIOUS
  <2>1. PICK m \in Layer(side, c) : StepTo(side, m, n)
    BY <1>3, LayerBefore
  <2>2. n \in NodeIds /\ Labelled(n)
    BY <1>3, LayerBefore
  <2>3. m \in NodeIds /\ c \in 0 .. c
    BY <1>3, LayerNodes
  <2>4. Spreads(side, P, m, {})
    BY <1>1, <1>2, <2>3 DEF SpreadOk
  <2>5. PICK e \in EdgeIds : LeadsTo(side, e, m, n)
    BY <2>1 DEF StepTo, Hop, LeadsTo
  <2> DEFINE next == <<e, n>>
  <2>6. /\ next \in EdgeIds \X NodeIds /\ next[1] = e /\ next[2] = n
    BY <2>2
  <2> HIDE DEF next
  <2>7. next \in expand_neighbors(m, Direction(side))
    BY <2>2, <2>3, <2>5, <2>6, ExpandIs DEF Common
  <2>8. n \in Mapped(P)
    BY <2>4, <2>6, <2>7 DEF Spreads
  <2> QED BY <1>1, <1>2, <2>8 DEF FoundOk
<1>5. ASSUME NEW j \in 0 .. k PROVE Layer(side, j) \subseteq Mapped(P)
  <2>1. CASE j <= c
    <3>1. j \in 0 .. request.max_depth
      BY <1>1, <2>1
    <3> QED BY <1>1, <2>1, <3>1 DEF FoundOk
  <2>2. CASE ~(j <= c)
    <3>1. j \in Nat /\ c + 1 \in 0 .. j
      BY <2>2
    <3>2. Layer(side, j) = {}
      BY <1>3, <1>4, <3>1, LayersBelow
    <3> QED BY <3>2
  <2> QED BY <2>1, <2>2
<1> QED BY <1>5 DEF Covers

-----------------------------------------------------------------------------
(* ShortestPath: both sides                                                *)

Searching ==
    /\ contains_node(request.source) /\ contains_node(request.target)
    /\ request.source # request.target

\* Between two levels a side has found the layers up to c.
Resting(side, c) ==
    SideOk(side, queue[side], parents[side], c, Len(queue[side]), None, {})

Apart == Mapped(parents["forward"]) \cap Mapped(parents["backward"]) = {}

\* At the head of the loop, in round r.
AtLoop(r) ==
    /\ Resting("forward", r) /\ Resting("backward", r) /\ Apart
    /\ r = 0 => queue["forward"] # << >> /\ queue["backward"] # << >>

\* In the middle of a level of round r.
AtLevel(r) ==
    /\ SideOk(expanding.side, queue[expanding.side], parents[expanding.side], r, level,
              expanding.node, expanding.left)
    /\ Resting(Other(expanding.side), IF expanding.side = "forward" THEN r ELSE r + 1)
    /\ Apart
    /\ expanding.left # {} => expanding.depth = r
    /\ 2 * r + 2 < request.limit

\* A path that may be the answer.
IsAnswer(p, h) ==
    /\ h \in 1 .. 2 * request.max_depth /\ h + 1 <= request.limit
    /\ IsPath(p, h) /\ PathOf(h)
    /\ \A k \in 1 .. 2 * request.max_depth :
          PathOf(k) => h <= k \/ (h = 2 /\ ~Labelled(request.target))

NoAnswer == \A k \in 1 .. 2 * request.max_depth : ~PathOf(k)

PathTypes ==
    /\ queue \in [Sides -> Seq(NodeIds \X Nat)]
    /\ parents \in [Sides -> [NodeIds -> ParentEntry \cup {None}]]
    /\ expanding \in Expanding /\ level \in Nat

PathResult ==
    /\ Searching /\ path = None => cut \/ NoAnswer
    /\ Searching /\ path # None => \E h \in Nat : IsAnswer(path, h)
    /\ ~Searching /\ path # None => Len(path.node_ids) = 1 /\ Len(path.edge_ids) = 0

PathInv ==
    request.kind = PathKind =>
        /\ items = << >> /\ ranked = {} /\ PathTypes
        /\ pc = "path" => Searching /\ path = None /\ \E r \in Nat : AtLoop(r)
        /\ pc = "frontier" => Searching /\ path = None /\ \E r \in Nat : AtLevel(r)
        /\ pc \in {"respond", "done", "refused"} => PathResult

LEMMA PathStays ==
    ASSUME graph' = graph, request' = request
    PROVE  /\ \A k : PathOf(k)' <=> PathOf(k)
           /\ \A p, h : IsPath(p, h)' <=> IsPath(p, h)
           /\ \A p, h : IsAnswer(p, h)' <=> IsAnswer(p, h)
           /\ NoAnswer' <=> NoAnswer
           /\ Searching' <=> Searching
<1>1. /\ \A m, n : Hop(m, n)' <=> Hop(m, n)
      /\ \A n : Labelled(n)' <=> Labelled(n)
  BY HopStays
<1>2. Walks("forward")' = Walks("forward")
  <2>1. Origin("forward")' = Origin("forward")
    BY DEF Origin
  <2>2. Onward("forward")' = Onward("forward")
    BY HopStays DEF Onward, StepTo
  <2> QED BY <2>1, <2>2 DEF Walks
<1>3. \A k : PathOf(k)' <=> PathOf(k)
  BY <1>1, <1>2 DEF PathOf
<1>4. \A p, h : IsPath(p, h)' <=> IsPath(p, h)
  BY LeadsStays DEF IsPath
<1>5. \A p, h : IsAnswer(p, h)' <=> IsAnswer(p, h)
  BY <1>1, <1>3, <1>4 DEF IsAnswer
<1>6. NoAnswer' <=> NoAnswer
  BY <1>3 DEF NoAnswer
<1>7. Searching' <=> Searching
  BY DEF Searching, contains_node
<1> QED BY <1>3, <1>4, <1>5, <1>6, <1>7

LEMMA SearchingEnds ==
    ASSUME Common, Searching
    PROVE  Ends /\ request.source # request.target
BY DEF Common, IsRequest, Searching, Ends, contains_node

\* A node found by both sides gives the shortest path: when the forward side
\* meets the other, ...
LEMMA ForwardIsShortest ==
    ASSUME Ends, NEW S, NEW R, S \cap R = {}, NEW r \in Nat,
           Covers(S, "forward", r), Covers(R, "backward", r), NEW h \in 1 .. 2 * r + 1,
           NEW k \in Nat \ {0}, PathOf(k)
    PROVE  h <= k
<1>1. CASE r = 0
  BY <1>1
<1>2. CASE r # 0
  <2>1. k \notin 1 .. r + r
    BY <1>2, ApartLeavesNoPath
  <2> QED BY <2>1
<1> QED BY <1>1, <1>2

\* ... and when the backward side does.
LEMMA BackwardIsShortest ==
    ASSUME Ends, NEW S, NEW R, S \cap R = {}, NEW r \in Nat,
           Covers(S, "forward", r + 1), Covers(R, "backward", r), NEW h \in 1 .. 2 * r + 2,
           NEW k \in Nat \ {0}, PathOf(k)
    PROVE  h <= k \/ (h = 2 /\ ~Labelled(request.target))
<1>1. CASE r = 0
  <2>1. CASE k = 1
    <3>1. Covers(S, "forward", 1) /\ Covers(R, "backward", 0) /\ PathOf(1)
      <4>1. r + 1 = 1
        BY <1>1
      <4> QED BY <1>1, <2>1, <4>1
    <3>2. ~Labelled(request.target)
      BY <3>1, SourceLevelLeavesNoEdge
    <3>3. h = 1 \/ h = 2
      BY <1>1
    <3> QED BY <2>1, <3>2, <3>3
  <2>2. CASE k # 1
    BY <1>1, <2>2
  <2> QED BY <2>1, <2>2
<1>2. CASE r # 0
  <2>1. r + 1 \in Nat /\ r + 1 # 0 /\ r # 0
    BY <1>2
  <2>2. k \notin 1 .. (r + 1) + r
    BY <2>1, ApartLeavesNoPath
  <2> QED BY <2>2
<1> QED BY <1>1, <1>2

LEMMA MeetingIsAnswer ==
    ASSUME Ends, NEW a \in Nat, NEW b \in Nat, NEW x \in Layer("forward", a),
           x \in Layer("backward", b), NEW p, IsPath(p, a + b),
           a + b \in 1 .. 2 * request.max_depth, a + b + 1 <= request.limit,
           \A k \in Nat \ {0} :
               PathOf(k) => a + b <= k \/ (a + b = 2 /\ ~Labelled(request.target)),
           request.max_depth \in Nat
    PROVE  \E h \in Nat : IsAnswer(p, h)
<1>1. x \in Walks("forward")[a] /\ x \in Walks("backward")[b]
  BY DEF Layer
<1>2. PathOf(a + b)
  BY <1>1, WalksMeet
<1>3. \A k \in 1 .. 2 * request.max_depth : k \in Nat \ {0}
  OBVIOUS
<1>4. IsAnswer(p, a + b) /\ a + b \in Nat
  BY <1>2, <1>3 DEF IsAnswer
<1> QED BY <1>4

\* The step of an edge that leads to a node of the other side.
LEMMA SidesMeet ==
    ASSUME Common, Ends, PathTypes, NEW r \in Nat, AtLevel(r), NEW next \in expanding.left,
           next[2] \notin Mapped(parents[expanding.side]),
           next[2] \in Mapped(parents[Other(expanding.side)]),
           IsEntered(parents'[expanding.side], parents[expanding.side], expanding.node, next),
           parents'[Other(expanding.side)] = parents[Other(expanding.side)]
    PROVE  \E h \in Nat : IsAnswer(reconstruct_path(next[2]), h)
<1> DEFINE side == expanding.side
           x == next[2]
           S == Mapped(parents["forward"])
           R == Mapped(parents["backward"])
           P == parents'[side]
<1>1. side \in Sides /\ (side = "forward" \/ side = "backward") /\ Other(side) \in Sides
  BY DEF PathTypes, Expanding, Sides, Other
<1>2. request.max_depth \in Nat /\ request.limit \in Nat
  BY DEF Common, IsRequest
<1>3. /\ SideOk(side, queue[side], parents[side], r, level, expanding.node, expanding.left)
      /\ S \cap R = {} /\ 2 * r + 2 < request.limit
  BY DEF AtLevel, Apart
<1>4. r < request.max_depth /\ x \in Layer(side, r + 1)
  <2>1. next[2] \notin Mapped(parents[side])
    OBVIOUS
  <2> HIDE DEF side
  <2>2. /\ r < request.max_depth
        /\ next[2] \notin Mapped(parents[side]) => next[2] \in Layer(side, r + 1)
    BY <1>1, <1>3, SideTarget
  <2> QED BY <2>1, <2>2
<1>5. LinkedMap(side, P) /\ Mapped(P) = Mapped(parents[side]) \cup {x}
  <2>1. next[2] \notin Mapped(parents[side])
    OBVIOUS
  <2>2. IsEntered(P, parents[side], expanding.node, next)
    OBVIOUS
  <2> HIDE DEF side, P
  <2>3. LinkedMap(side, P) /\ Mapped(P) = Mapped(parents[side]) \cup {next[2]}
    BY <1>1, <1>3, <2>1, <2>2, LinkedAdds
  <2> QED BY <2>3
<1>6. x \in Mapped(P)
  BY <1>5
<1>7. x \in Mapped(parents'[Other(side)]) /\ x \in Mapped(parents[Other(side)])
  OBVIOUS
<1> HIDE DEF x, P
<1>8. CASE side = "forward"
  <2>1. Resting("backward", r) /\ Other(side) = "backward"
    BY <1>8 DEF AtLevel, Other
  <2>2. SideOk("backward", queue["backward"], parents["backward"], r,
               Len(queue["backward"]), None, {}) /\ "backward" \in Sides
    BY <2>1 DEF Resting, Sides
  <2>3. PICK k \in 0 .. request.max_depth : k <= r /\ x \in Layer("backward", k)
    BY <1>7, <2>1, <2>2, SideRests
  <2>4. LinkedMap("backward", parents'["backward"])
    BY <2>1, <2>2 DEF SideOk
  <2>5. r + 1 \in Nat /\ k \in Nat /\ r \in Nat
    BY <1>2
  <2>6. IsPath(reconstruct_path(x), (r + 1) + k)
    BY <1>4, <1>5, <1>6, <1>7, <1>8, <2>1, <2>3, <2>4, <2>5, RebuiltPath DEF P
  <2>7. Covers(S, "forward", r) /\ Covers(R, "backward", r)
    <3>1. \A j \in 0 .. r : j <= r
      OBVIOUS
    <3>2. r <= request.max_depth
      BY <1>2, <1>4
    <3>3. Covers(Mapped(parents["forward"]), "forward", r)
      BY <1>2, <1>3, <1>8, <3>1, <3>2, SideCovers
    <3>4. Covers(Mapped(parents["backward"]), "backward", r)
      BY <1>2, <2>2, <3>1, <3>2, SideCovers
    <3> QED BY <3>3, <3>4
  <2>8. /\ (r + 1) + k \in 1 .. 2 * r + 1 /\ (r + 1) + k \in 1 .. 2 * request.max_depth
        /\ (r + 1) + k + 1 <= request.limit
    BY <1>2, <1>3, <1>4, <2>3, <2>5
  <2> HIDE DEF S, R
  <2>9. \A j \in Nat \ {0} : PathOf(j) => (r + 1) + k <= j
    BY <1>3, <2>7, <2>8, ForwardIsShortest
  <2>10. \E h \in Nat : IsAnswer(reconstruct_path(x), h)
    BY <1>2, <1>4, <1>8, <2>3, <2>5, <2>6, <2>8, <2>9, MeetingIsAnswer
  <2> QED BY <2>10 DEF x
<1>9. CASE side = "backward"
  <2>1. Resting("forward", r + 1) /\ Other(side) = "forward"
    BY <1>9 DEF AtLevel, Other
  <2>2. SideOk("forward", queue["forward"], parents["forward"], r + 1,
               Len(queue["forward"]), None, {}) /\ "forward" \in Sides /\ r + 1 \in Nat
    BY <2>1 DEF Resting, Sides
  <2>3. PICK k \in 0 .. request.max_depth : k <= r + 1 /\ x \in Layer("forward", k)
    BY <1>7, <2>1, <2>2, SideRests
  <2>4. LinkedMap("forward", parents'["forward"])
    BY <2>1, <2>2 DEF SideOk
  <2>5. r + 1 \in Nat /\ k \in Nat /\ r \in Nat
    BY <1>2
  <2>6. IsPath(reconstruct_path(x), k + (r + 1))
    BY <1>4, <1>5, <1>6, <1>7, <1>9, <2>1, <2>3, <2>4, <2>5, RebuiltPath DEF P
  <2>7. Covers(S, "forward", r + 1) /\ Covers(R, "backward", r)
    <3>1. (\A j \in 0 .. r : j <= r) /\ (\A j \in 0 .. r + 1 : j <= r + 1)
      OBVIOUS
    <3>2. r <= request.max_depth /\ r + 1 <= request.max_depth
      BY <1>2, <1>4
    <3>3. Covers(Mapped(parents["forward"]), "forward", r + 1)
      BY <1>2, <2>2, <3>1, <3>2, SideCovers
    <3>4. Covers(Mapped(parents["backward"]), "backward", r)
      BY <1>2, <1>3, <1>9, <3>1, <3>2, SideCovers
    <3> QED BY <3>3, <3>4
  <2>8. /\ k + (r + 1) \in 1 .. 2 * r + 2 /\ k + (r + 1) \in 1 .. 2 * request.max_depth
        /\ k + (r + 1) + 1 <= request.limit
    BY <1>2, <1>3, <1>4, <2>3, <2>5
  <2> HIDE DEF S, R
  <2>9. \A j \in Nat \ {0} : PathOf(j) =>
            k + (r + 1) <= j \/ (k + (r + 1) = 2 /\ ~Labelled(request.target))
    BY <1>3, <2>7, <2>8, BackwardIsShortest
  <2>10. \E h \in Nat : IsAnswer(reconstruct_path(x), h)
    BY <1>2, <1>4, <1>9, <2>3, <2>5, <2>6, <2>8, <2>9, MeetingIsAnswer
  <2> QED BY <2>10 DEF x
<1> QED BY <1>1, <1>8, <1>9

\* The search that runs out of nodes leaves no path.
LEMMA SearchEnds ==
    ASSUME Common, Ends, Valid(request), request.kind = PathKind, NEW r \in Nat, AtLoop(r),
           queue["forward"] = << >> \/ queue["backward"] = << >>
    PROVE  NoAnswer
<1> DEFINE S == Mapped(parents["forward"])
           R == Mapped(parents["backward"])
           d == request.max_depth
<1>1. d \in Nat /\ d # 0 /\ r # 0 /\ "forward" \in Sides /\ "backward" \in Sides
  BY DEF Common, IsRequest, AtLoop, Valid, PathKind, Sides
<1>2. /\ SideOk("forward", queue["forward"], parents["forward"], r,
                Len(queue["forward"]), None, {})
      /\ SideOk("backward", queue["backward"], parents["backward"], r,
                Len(queue["backward"]), None, {})
      /\ S \cap R = {}
  BY DEF AtLoop, Resting, Apart
<1>3. ASSUME NEW a \in Nat, NEW b \in Nat, a # 0, b # 0, Covers(S, "forward", a),
             Covers(R, "backward", b), 2 * d <= a + b
      PROVE  NoAnswer
  <2>1. \A k \in 1 .. 2 * d : k \in 1 .. a + b
    BY <1>1, <1>3
  <2> HIDE DEF S, R
  <2>2. \A k \in 1 .. a + b : ~PathOf(k)
    BY <1>2, <1>3, ApartLeavesNoPath
  <2> QED BY <2>1, <2>2 DEF NoAnswer
<1>4. CASE r >= d
  <2>1. d <= request.max_depth /\ \A j \in 0 .. d : j <= r
    BY <1>1, <1>4
  <2>2. Covers(S, "forward", d) /\ Covers(R, "backward", d)
    BY <1>1, <1>2, <2>1, SideCovers
  <2>3. 2 * d <= d + d
    BY <1>1
  <2> HIDE DEF S, R, d
  <2> QED BY <1>1, <1>3, <2>2, <2>3
<1>5. CASE r < d
  <2>1. 1 \in Nat /\ 1 <= d /\ \A j \in 0 .. 1 : j <= r
    BY <1>1, <1>5
  <2>2. Covers(S, "forward", 1) /\ Covers(R, "backward", 1)
    BY <1>1, <1>2, <2>1, SideCovers
  <2>3. 2 * d \in Nat /\ 2 * d # 0 /\ 2 * d <= 2 * d + 1 /\ 2 * d <= 1 + 2 * d
    BY <1>1
  <2>4. CASE queue["forward"] = << >>
    <3>1. Covers(S, "forward", 2 * d)
      BY <1>1, <1>2, <1>5, <2>3, <2>4, SideExhausted
    <3> HIDE DEF S, R, d
    <3> QED BY <1>3, <2>1, <2>2, <2>3, <3>1
  <2>5. CASE queue["backward"] = << >>
    <3>1. Covers(R, "backward", 2 * d)
      BY <1>1, <1>2, <1>5, <2>3, <2>5, SideExhausted
    <3> HIDE DEF S, R, d
    <3> QED BY <1>3, <2>1, <2>2, <2>3, <3>1
  <2> QED BY <2>4, <2>5
<1> QED BY <1>1, <1>4, <1>5

\* The state of both sides after a step, from the values it gives them.
LEMMA LevelAfter ==
    ASSUME graph' = graph, request' = request, NEW r, NEW side \in Sides, NEW q, NEW P, NEW lv,
           NEW node, NEW left, NEW s, NEW Q,
           SideOk(side, q, P, r, lv, node, left),
           SideOk(Other(side), s, Q, IF side = "forward" THEN r ELSE r + 1, Len(s), None, {}),
           Mapped(P) \cap Mapped(Q) = {},
           expanding'.side = side, expanding'.node = node, expanding'.left = left,
           left # {} => expanding'.depth = r, level' = lv,
           queue'[side] = q, queue'[Other(side)] = s,
           parents'[side] = P, parents'[Other(side)] = Q,
           2 * r + 2 < request.limit
    PROVE  AtLevel(r)'
<1> DEFINE o == Other(side)
           c == IF side = "forward" THEN r ELSE r + 1
<1>1. SideOk(side, q, P, r, lv, node, left)'
  BY SideStays
<1>2. SideOk(o, s, Q, c, Len(s), None, {})'
  BY SideStays
<1>3. Resting(o, c)'
  BY <1>2 DEF Resting
<1>4. Apart'
  BY DEF Apart, Other, Sides
<1>5. Other(expanding.side)' = o /\ (IF expanding'.side = "forward" THEN r ELSE r + 1) = c
  BY DEF Other
<1>6. Resting(Other(expanding.side), IF expanding.side = "forward" THEN r ELSE r + 1)'
  BY <1>3, <1>5
<1>7. SideOk(expanding.side, queue[expanding.side], parents[expanding.side], r, level,
             expanding.node, expanding.left)'
  BY <1>1
<1> QED BY <1>4, <1>6, <1>7 DEF AtLevel

LEMMA LoopAfter ==
    ASSUME graph' = graph, request' = request, NEW r, NEW q, NEW P, NEW s, NEW Q,
           SideOk("forward", q, P, r, Len(q), None, {}),
           SideOk("backward", s, Q, r, Len(s), None, {}),
           Mapped(P) \cap Mapped(Q) = {},
           queue'["forward"] = q, queue'["backward"] = s,
           parents'["forward"] = P, parents'["backward"] = Q,
           r = 0 => q # << >> /\ s # << >>
    PROVE  AtLoop(r)'
<1>1. SideOk("forward", q, P, r, Len(q), None, {})'
  BY SideStays
<1>2. SideOk("backward", s, Q, r, Len(s), None, {})'
  BY SideStays
<1>3. Resting("forward", r)' /\ Resting("backward", r)'
  BY <1>1, <1>2 DEF Resting
<1>4. Apart'
  BY DEF Apart
<1> QED BY <1>3, <1>4 DEF AtLoop

\* StartPath: each side has found its end.
LEMMA SearchOpens ==
    ASSUME Common, Ends, Fresh, request.source # request.target,
           graph' = graph, request' = request, expanding' = expanding, level' = level,
           queue' = [forward |-> << <<request.source, 0>> >>,
                     backward |-> << <<request.target, 0>> >>],
           parents' = [forward |-> [parents.forward EXCEPT ![request.source] = Root],
                       backward |-> [parents.backward EXCEPT ![request.target] = Root]]
    PROVE  PathTypes' /\ AtLoop(0)'
<1>1. /\ request.source \in NodeIds /\ request.target \in NodeIds /\ request.max_depth \in Nat
      /\ Origin("forward") = request.source /\ Origin("backward") = request.target
      /\ Sides = {"forward", "backward"}
  BY DEF Ends, Common, IsRequest, Origin, Sides
<1>2. Root \in ParentEntry /\ Root # None
  BY NoneAssumption DEF Root, ParentEntry
<1>3. parents["forward"] = [n \in NodeIds |-> None] /\ parents["backward"] = [n \in NodeIds |-> None]
  BY DEF Fresh, Sides
<1>4. PICK P : P = [[n \in NodeIds |-> None] EXCEPT ![request.source] = Root]
  OBVIOUS
<1>5. PICK Q : Q = [[n \in NodeIds |-> None] EXCEPT ![request.target] = Root]
  OBVIOUS
<1>6. parents'["forward"] = P /\ parents'["backward"] = Q /\ DOMAIN parents' = Sides
      /\ parents' = [side \in Sides |-> parents'[side]]
  BY <1>1, <1>3, <1>4, <1>5
<1>7. /\ P \in [NodeIds -> ParentEntry \cup {None}]
      /\ \A n \in NodeIds : P[n] = IF n = request.source THEN Root ELSE None
  BY <1>1, <1>2, <1>4
<1>8. /\ Q \in [NodeIds -> ParentEntry \cup {None}]
      /\ \A n \in NodeIds : Q[n] = IF n = request.target THEN Root ELSE None
  BY <1>1, <1>2, <1>5
<1>9. PICK q : q = << <<request.source, 0>> >>
  OBVIOUS
<1>10. PICK s : s = << <<request.target, 0>> >>
  OBVIOUS
<1>11. /\ q \in Seq(NodeIds \X Nat) /\ s \in Seq(NodeIds \X Nat)
       /\ Len(q) = 1 /\ Len(s) = 1 /\ q # << >> /\ s # << >>
  BY <1>1, <1>9, <1>10
<1>12. queue'["forward"] = q /\ queue'["backward"] = s
       /\ queue' = [side \in Sides |-> queue'[side]]
  BY <1>1, <1>9, <1>10
<1>13. SideOk("forward", q, P, 0, Len(q), None, {})
  BY <1>1, <1>7, <1>9, <1>11, SideStarts
<1>14. SideOk("backward", s, Q, 0, Len(s), None, {})
  BY <1>1, <1>8, <1>10, <1>11, SideStarts
<1>15. Mapped(P) \cap Mapped(Q) = {}
  BY <1>7, <1>8 DEF Mapped
<1>16. AtLoop(0)'
  BY <1>6, <1>11, <1>12, <1>13, <1>14, <1>15, LoopAfter
<1>17. queue' \in [Sides -> Seq(NodeIds \X Nat)]
  BY <1>1, <1>11, <1>12
<1>18. parents' \in [Sides -> [NodeIds -> ParentEntry \cup {None}]]
  BY <1>1, <1>6, <1>7, <1>8
<1>19. expanding' \in Expanding /\ level' \in Nat
  BY DEF Fresh, Idle, Expanding, Sides
<1> QED BY <1>16, <1>17, <1>18, <1>19 DEF PathTypes

\* PathLoop: the forward side begins a level; the nodes of the layers that both
\* sides have found are fewer than the limit.
LEMMA LevelOpens ==
    ASSUME Common, Ends, PathTypes, NEW r \in Nat, AtLoop(r),
           queue["forward"] # << >>, queue["backward"] # << >>,
           Cardinality(Found("forward")) + Cardinality(Found("backward")) < request.limit,
           graph' = graph, request' = request, queue' = queue, parents' = parents,
           level' = LevelSize("forward"), expanding' = Idle
    PROVE  PathTypes' /\ AtLevel(r)'
<1>1. PICK q : q = queue["forward"]
  OBVIOUS
<1>2. PICK s : s = queue["backward"]
  OBVIOUS
<1>3. PICK P : P = parents["forward"]
  OBVIOUS
<1>4. PICK Q : Q = parents["backward"]
  OBVIOUS
<1>5. /\ SideOk("forward", q, P, r, Len(q), None, {})
      /\ SideOk("backward", s, Q, r, Len(s), None, {})
      /\ Mapped(P) \cap Mapped(Q) = {}
  BY <1>1, <1>2, <1>3, <1>4 DEF AtLoop, Resting, Apart
<1>6. /\ "forward" \in Sides /\ "backward" \in Sides /\ Other("forward") = "backward"
      /\ request.limit \in Nat /\ request.max_depth \in Nat
  BY DEF Sides, Other, Common, IsRequest
<1>7. /\ r <= request.max_depth /\ Layer("forward", r) # {}
      /\ Layer("backward", r) # {}
  BY <1>1, <1>2, <1>5, <1>6, SideRests
<1>8. \A j \in 0 .. r : j <= r
  OBVIOUS
<1>9. Covers(Mapped(P), "forward", r) /\ Covers(Mapped(Q), "backward", r)
  BY <1>5, <1>6, <1>7, <1>8, SideCovers
<1>10. Mapped(P) \in SUBSET NodeIds /\ Mapped(Q) \in SUBSET NodeIds
       /\ Origin("forward") \in NodeIds /\ Origin("backward") \in NodeIds
  BY <1>6, WalksBothWays DEF Mapped
<1>11. /\ Cardinality(Mapped(P)) \in Nat /\ r + 1 <= Cardinality(Mapped(P))
       /\ Cardinality(Mapped(Q)) \in Nat /\ r + 1 <= Cardinality(Mapped(Q))
  BY <1>7, <1>9, <1>10, LayersCount DEF Covers
<1>12. Found("forward") = Mapped(P) /\ Found("backward") = Mapped(Q)
  BY <1>3, <1>4 DEF Found, Mapped
<1>13. 2 * r + 2 < request.limit
  BY <1>6, <1>11, <1>12
<1>14. /\ expanding'.side = "forward" /\ expanding'.node = None /\ expanding'.left = {}
       /\ expanding' \in Expanding
  BY <1>6 DEF Idle, Expanding
<1>15. level' = Len(q) /\ level' \in Nat
  BY <1>1, <1>6 DEF LevelSize, PathTypes
<1>16. AtLevel(r)'
  <2>1. SideOk(Other("forward"), s, Q, IF "forward" = "forward" THEN r ELSE r + 1,
               Len(s), None, {})
    BY <1>5, <1>6
  <2>2. queue'["forward"] = q /\ queue'[Other("forward")] = s
    BY <1>1, <1>2, <1>6
  <2>3. parents'["forward"] = P /\ parents'[Other("forward")] = Q
    BY <1>3, <1>4, <1>6
  <2> QED BY <1>5, <1>6, <1>13, <1>14, <1>15, <2>1, <2>2, <2>3, LevelAfter
<1> QED BY <1>14, <1>15, <1>16 DEF PathTypes

\* The state of both sides in the middle of a level, by its values.
LevelValues(r, side, q, P, node, left, s, Q) ==
    /\ side \in Sides /\ Other(side) \in Sides /\ Other(side) # side
    /\ side = expanding.side /\ node = expanding.node /\ left = expanding.left
    /\ q = queue[side] /\ P = parents[side]
    /\ s = queue[Other(side)] /\ Q = parents[Other(side)]
    /\ SideOk(side, q, P, r, level, node, left)
    /\ SideOk(Other(side), s, Q, IF side = "forward" THEN r ELSE r + 1, Len(s), None, {})
    /\ Mapped(P) \cap Mapped(Q) = {}
    /\ left # {} => expanding.depth = r
    /\ 2 * r + 2 < request.limit

LEMMA LevelBefore ==
    ASSUME PathTypes, NEW r, AtLevel(r)
    PROVE  \E side, q, P, node, left, s, Q : LevelValues(r, side, q, P, node, left, s, Q)
<1>1. PICK side : side = expanding.side
  OBVIOUS
<1>2. side \in Sides /\ Other(side) \in Sides /\ Other(side) # side
      /\ Sides = {"forward", "backward"}
  BY <1>1 DEF PathTypes, Expanding, Sides, Other
<1>3. PICK q : q = queue[side]
  OBVIOUS
<1>4. PICK P : P = parents[side]
  OBVIOUS
<1>5. PICK s : s = queue[Other(side)]
  OBVIOUS
<1>6. PICK Q : Q = parents[Other(side)]
  OBVIOUS
<1>7. SideOk(side, q, P, r, level, expanding.node, expanding.left)
  BY <1>1, <1>3, <1>4 DEF AtLevel
<1>8. Resting(Other(side), IF side = "forward" THEN r ELSE r + 1)
  BY <1>1 DEF AtLevel
<1>9. SideOk(Other(side), s, Q, IF side = "forward" THEN r ELSE r + 1, Len(s), None, {})
  BY <1>5, <1>6, <1>8 DEF Resting
<1>10. Mapped(P) \cap Mapped(Q) = {}
  BY <1>2, <1>4, <1>6 DEF AtLevel, Apart, Other
<1>11. (expanding.left # {} => expanding.depth = r) /\ 2 * r + 2 < request.limit
  BY DEF AtLevel
<1>12. LevelValues(r, side, q, P, expanding.node, expanding.left, s, Q)
  BY <1>1, <1>2, <1>3, <1>4, <1>5, <1>6, <1>7, <1>9, <1>10, <1>11 DEF LevelValues
<1> QED BY <1>12

\* FrontierPop.
LEMMA LevelPops ==
    ASSUME Common, Ends, PathTypes, NEW r \in Nat, AtLevel(r), expanding.left = {}, level > 0,
           graph' = graph, request' = request, parents' = parents, level' = level - 1,
           queue' = [queue EXCEPT ![expanding.side] = Tail(@)],
           expanding' = [side |-> expanding.side, node |-> Head(queue[expanding.side])[1],
                         depth |-> Head(queue[expanding.side])[2],
                         left |-> IF Head(queue[expanding.side])[2] = request.max_depth THEN {}
                                  ELSE expand_neighbors(Head(queue[expanding.side])[1],
                                                        Direction(expanding.side))]
    PROVE  PathTypes' /\ AtLevel(r)'
<1>1. PICK side, q, P, node, left, s, Q : LevelValues(r, side, q, P, node, left, s, Q)
  BY LevelBefore
<1>2. /\ SideOk(side, q, P, r, level, node, {}) /\ side \in Sides /\ side = expanding.side
      /\ SideOk(Other(side), s, Q, IF side = "forward" THEN r ELSE r + 1, Len(s), None, {})
      /\ q = queue[side] /\ s = queue[Other(side)] /\ Other(side) \in Sides
      /\ P = parents[side] /\ Q = parents[Other(side)]
      /\ Mapped(P) \cap Mapped(Q) = {} /\ Other(side) # side /\ 2 * r + 2 < request.limit
  BY <1>1 DEF LevelValues
<1> DEFINE n == Head(q)[1]
           depth == Head(q)[2]
           rest == IF depth = request.max_depth THEN {}
                   ELSE expand_neighbors(n, Direction(side))
<1>3. n \in NodeIds /\ depth = r /\ SideOk(side, Tail(q), P, r, level - 1, n, rest)
  BY <1>2, SidePops
<1>4. expanding' = [side |-> side, node |-> n, depth |-> depth, left |-> rest]
  BY <1>2
<1>5. q \in Seq(NodeIds \X Nat) /\ q # << >> /\ level \in 0 .. Len(q)
  BY <1>2 DEF SideOk, LevelOk
<1>6. Tail(q) \in Seq(NodeIds \X Nat)
  BY <1>5, RestOfQueue
<1>7. PICK t : t = Tail(q)
  OBVIOUS
<1>8. queue' \in [Sides -> Seq(NodeIds \X Nat)] /\ queue'[side] = t /\ queue'[Other(side)] = s
  BY <1>2, <1>6, <1>7 DEF PathTypes
<1>9. rest \subseteq EdgeIds \X NodeIds
  <2>1. IsGraph(graph) /\ IsRequest(request)
    BY DEF Common
  <2>2. ASSUME NEW x \in expand_neighbors(n, Direction(side)) PROVE x \in EdgeIds \X NodeIds
    BY <1>2, <1>3, <2>1, <2>2, ExpandIs
  <2> QED BY <2>2
<1>10. SideOk(side, t, P, r, level - 1, n, rest)
  BY <1>3, <1>7
<1> HIDE DEF n, depth, rest
<1>11. /\ expanding'.side = side /\ expanding'.node = n /\ expanding'.left = rest
       /\ expanding'.depth = r /\ expanding' \in Expanding
  BY <1>2, <1>3, <1>4, <1>9 DEF Expanding
<1>12. level - 1 \in Nat
  BY DEF PathTypes
<1>13. PICK m : m = n
  OBVIOUS
<1>14. PICK l : l = rest
  OBVIOUS
<1>15. PICK lv : lv = level - 1
  OBVIOUS
<1>16. AtLevel(r)'
  <2>1. SideOk(side, t, P, r, lv, m, l)
    BY <1>10, <1>13, <1>14, <1>15
  <2>2. expanding'.node = m /\ expanding'.left = l /\ level' = lv
    BY <1>11, <1>13, <1>14, <1>15
  <2> QED BY <1>2, <1>8, <1>11, <2>1, <2>2, LevelAfter
<1> QED BY <1>8, <1>11, <1>12, <1>16 DEF PathTypes

\* EndLevel: the backward side begins its level, or the round is over.
LEMMA LevelCloses ==
    ASSUME Common, Ends, PathTypes, NEW r \in Nat, AtLevel(r), expanding.left = {}, level = 0,
           graph' = graph, request' = request, parents' = parents, queue' = queue
    PROVE  /\ /\ expanding.side = "forward"
              /\ expanding' = [Idle EXCEPT !.side = "backward"]
              /\ level' = LevelSize("backward")
              => PathTypes' /\ AtLevel(r)'
           /\ expanding.side = "backward" => AtLoop(r + 1)'
<1>1. PICK side, q, P, node, left, s, Q : LevelValues(r, side, q, P, node, left, s, Q)
  BY LevelBefore
<1>2. /\ SideOk(side, q, P, r, 0, node, {}) /\ side \in Sides /\ side = expanding.side
      /\ SideOk(Other(side), s, Q, IF side = "forward" THEN r ELSE r + 1, Len(s), None, {})
      /\ q = queue[side] /\ s = queue[Other(side)] /\ Other(side) \in Sides
      /\ P = parents[side] /\ Q = parents[Other(side)]
      /\ Mapped(P) \cap Mapped(Q) = {} /\ Other(side) # side /\ 2 * r + 2 < request.limit
  BY <1>1 DEF LevelValues
<1>3. SideOk(side, q, P, r + 1, Len(q), None, {})
  BY <1>2, SideNextLevel
<1>4. ASSUME side = "forward", expanding' = [Idle EXCEPT !.side = "backward"],
             level' = LevelSize("backward")
      PROVE  PathTypes' /\ AtLevel(r)'
  <2>1. /\ Other(side) = "backward" /\ "backward" \in Sides /\ Other("backward") = "forward"
        /\ "backward" # "forward"
    BY <1>4 DEF Other, Sides
  <2>2. SideOk("backward", s, Q, r, Len(s), None, {})
    BY <1>2, <1>4, <2>1
  <2>3. SideOk(Other("backward"), q, P, IF "backward" = "forward" THEN r ELSE r + 1,
               Len(q), None, {})
    BY <1>3, <1>4, <2>1
  <2>4. /\ expanding'.side = "backward" /\ expanding'.node = None /\ expanding'.left = {}
        /\ expanding' \in Expanding
    BY <1>4, <2>1 DEF Idle, Expanding, Sides
  <2>5. level' = Len(s) /\ level' \in Nat
    BY <1>2, <1>4, <2>1 DEF LevelSize, PathTypes
  <2>6. queue'["backward"] = s /\ queue'[Other("backward")] = q
        /\ parents'["backward"] = Q /\ parents'[Other("backward")] = P
    BY <1>2, <1>4, <2>1
  <2>7. Mapped(Q) \cap Mapped(P) = {}
    BY <1>2
  <2>8. AtLevel(r)'
    BY <1>2, <2>1, <2>2, <2>3, <2>4, <2>5, <2>6, <2>7, LevelAfter
  <2> QED BY <2>4, <2>5, <2>8 DEF PathTypes
<1>5. ASSUME side = "backward" PROVE AtLoop(r + 1)'
  <2>1. Other(side) = "forward" /\ "backward" # "forward"
    BY <1>5 DEF Other
  <2>2. SideOk("forward", s, Q, r + 1, Len(s), None, {})
    BY <1>2, <1>5, <2>1
  <2>3. SideOk("backward", q, P, r + 1, Len(q), None, {})
    BY <1>3, <1>5
  <2>4. queue'["forward"] = s /\ queue'["backward"] = q
        /\ parents'["forward"] = Q /\ parents'["backward"] = P
    BY <1>2, <1>5, <2>1
  <2>5. Mapped(Q) \cap Mapped(P) = {} /\ r + 1 # 0
    BY <1>2
  <2>6. PICK k : k = r + 1
    OBVIOUS
  <2>7. AtLoop(k)'
    BY <2>2, <2>3, <2>4, <2>5, <2>6, LoopAfter
  <2> QED BY <2>6, <2>7
<1> QED BY <1>2, <1>4, <1>5

LEMMA FoundIsMapped ==
    ASSUME NEW side
    PROVE  Found(side) = Mapped(parents[side])
BY DEF Found, Mapped

\* What FrontierEdge writes.
EntersNext(next) ==
    parents' = [parents EXCEPT ![expanding.side][next[2]] =
                   [previous |-> expanding.node, via_edge |-> next[1]]]
QueuesNext(next) ==
    queue' = [queue EXCEPT ![expanding.side] = Append(@, <<next[2], expanding.depth + 1>>)]
LeavesRest(next) == expanding' = [expanding EXCEPT !.left = @ \ {next}]

\* FrontierEdge, of an edge that leads to nothing new.
LEMMA LevelSees ==
    ASSUME Common, Ends, PathTypes, NEW r \in Nat, AtLevel(r), NEW next \in expanding.left,
           next[2] \in Mapped(parents[expanding.side]),
           graph' = graph, request' = request, parents' = parents, level' = level,
           queue' = queue, LeavesRest(next)
    PROVE  PathTypes' /\ AtLevel(r)'
<1>1. PICK side, q, P, node, left, s, Q : LevelValues(r, side, q, P, node, left, s, Q)
  BY LevelBefore
<1>2. /\ SideOk(side, q, P, r, level, node, left) /\ side \in Sides /\ side = expanding.side
      /\ SideOk(Other(side), s, Q, IF side = "forward" THEN r ELSE r + 1, Len(s), None, {})
      /\ q = queue[side] /\ s = queue[Other(side)] /\ Other(side) \in Sides
      /\ P = parents[side] /\ Q = parents[Other(side)]
      /\ node = expanding.node /\ left = expanding.left
      /\ Mapped(P) \cap Mapped(Q) = {} /\ Other(side) # side /\ 2 * r + 2 < request.limit
      /\ left # {} => expanding.depth = r
  BY <1>1 DEF LevelValues
<1>3. PICK rest : rest = left \ {next}
  OBVIOUS
<1>4. next[2] \in Mapped(P)
  BY <1>2
<1>5. SideOk(side, q, P, r, level, node, rest)
  BY <1>2, <1>3, <1>4, SideSees
<1>6. /\ expanding'.side = side /\ expanding'.node = node /\ expanding'.left = rest
      /\ expanding'.depth = r /\ expanding' \in Expanding
  BY <1>2, <1>3 DEF PathTypes, Expanding, LeavesRest
<1>7. PICK lv : lv = level
  OBVIOUS
<1>8. AtLevel(r)'
  <2>1. SideOk(side, q, P, r, lv, node, rest) /\ level' = lv
    BY <1>5, <1>7
  <2>2. /\ queue'[side] = q /\ queue'[Other(side)] = s
        /\ parents'[side] = P /\ parents'[Other(side)] = Q
    BY <1>2
  <2>3. /\ side \in Sides /\ Mapped(P) \cap Mapped(Q) = {} /\ 2 * r + 2 < request.limit
        /\ SideOk(Other(side), s, Q, IF side = "forward" THEN r ELSE r + 1, Len(s), None, {})
    BY <1>2
  <2>4. /\ expanding'.side = side /\ expanding'.node = node /\ expanding'.left = rest
        /\ rest # {} => expanding'.depth = r
    BY <1>6
  <2> QED BY <2>1, <2>2, <2>3, <2>4, LevelAfter
<1> QED BY <1>6, <1>8 DEF PathTypes

\* FrontierEdge, of an edge to a node that no side has found.
LEMMA LevelGrows ==
    ASSUME Common, Ends, PathTypes, NEW r \in Nat, AtLevel(r), NEW next \in expanding.left,
           next[2] \notin Mapped(parents[expanding.side]),
           next[2] \notin Mapped(parents[Other(expanding.side)]),
           graph' = graph, request' = request, level' = level,
           EntersNext(next),
           QueuesNext(next),
           LeavesRest(next)
    PROVE  PathTypes' /\ AtLevel(r)'
<1>1. PICK side, q, P, node, left, s, Q : LevelValues(r, side, q, P, node, left, s, Q)
  BY LevelBefore
<1>2. /\ SideOk(side, q, P, r, level, node, left) /\ side \in Sides /\ side = expanding.side
      /\ SideOk(Other(side), s, Q, IF side = "forward" THEN r ELSE r + 1, Len(s), None, {})
      /\ q = queue[side] /\ s = queue[Other(side)] /\ Other(side) \in Sides
      /\ P = parents[side] /\ Q = parents[Other(side)]
      /\ node = expanding.node /\ left = expanding.left
      /\ Mapped(P) \cap Mapped(Q) = {} /\ Other(side) # side /\ 2 * r + 2 < request.limit
      /\ left # {} => expanding.depth = r
  BY <1>1 DEF LevelValues
<1>3. next \in left /\ next[2] \notin Mapped(P) /\ next[2] \notin Mapped(Q)
      /\ expanding.depth = r
  BY <1>2
<1>4. PICK R : R = [P EXCEPT ![next[2]] = [previous |-> node, via_edge |-> next[1]]]
  OBVIOUS
<1>5. PICK t : t = Append(q, <<next[2], r + 1>>)
  OBVIOUS
<1>6. IsEntered(R, P, node, next)
  BY <1>4 DEF IsEntered
<1>7. /\ R \in [NodeIds -> ParentEntry \cup {None}]
      /\ Mapped(R) = Mapped(P) \cup {next[2]}
  <2>1. side \in Sides /\ SideOk(side, q, P, r, level, node, left)
    BY <1>2
  <2>2. next \in left /\ next[2] \notin Mapped(P)
    BY <1>3
  <2>3. R \in [NodeIds -> ParentEntry \cup {None}]
    BY <1>6, <2>1, <2>2, LinkedAdds
  <2>4. \A n : n \in Mapped(R) <=> n \in Mapped(P) \/ n = next[2]
    BY <1>6, <2>1, <2>2, EnteredMaps
  <2> QED BY <2>3, <2>4
<1>8. PICK rest : rest = left \ {next}
  OBVIOUS
<1>9. SideOk(side, t, R, r, level, node, rest)
  BY <1>2, <1>3, <1>5, <1>6, <1>8, SideAdds
<1>10. parents'[side] = R /\ parents'[Other(side)] = Q
       /\ parents' \in [Sides -> [NodeIds -> ParentEntry \cup {None}]]
  <2>1. parents \in [Sides -> [NodeIds -> ParentEntry \cup {None}]]
    BY DEF PathTypes
  <2>2. parents' = [parents EXCEPT ![side] = R]
    BY <1>2, <1>4, <2>1 DEF EntersNext
  <2> QED BY <1>2, <1>7, <2>1, <2>2
<1>11. t \in Seq(NodeIds \X Nat)
  BY <1>9 DEF SideOk, LevelOk
<1>12. queue'[side] = t /\ queue'[Other(side)] = s
       /\ queue' \in [Sides -> Seq(NodeIds \X Nat)]
  <2>1. queue \in [Sides -> Seq(NodeIds \X Nat)]
    BY DEF PathTypes
  <2>2. queue' = [queue EXCEPT ![side] = t]
    BY <1>2, <1>3, <1>5, <2>1 DEF QueuesNext
  <2> QED BY <1>2, <1>11, <2>1, <2>2
<1>13. /\ expanding'.side = side /\ expanding'.node = node /\ expanding'.left = rest
       /\ expanding'.depth = r /\ expanding' \in Expanding
  BY <1>2, <1>3, <1>8 DEF PathTypes, Expanding, LeavesRest
<1>14. PICK lv : lv = level
  OBVIOUS
<1>15. Mapped(R) \cap Mapped(Q) = {}
  BY <1>2, <1>3, <1>7
<1>16. AtLevel(r)'
  <2>1. SideOk(side, t, R, r, lv, node, rest) /\ level' = lv
    BY <1>9, <1>14
  <2>2. /\ queue'[side] = t /\ queue'[Other(side)] = s
        /\ parents'[side] = R /\ parents'[Other(side)] = Q
    BY <1>10, <1>12
  <2>3. /\ side \in Sides /\ Mapped(R) \cap Mapped(Q) = {} /\ 2 * r + 2 < request.limit
        /\ SideOk(Other(side), s, Q, IF side = "forward" THEN r ELSE r + 1, Len(s), None, {})
    BY <1>2, <1>15
  <2>4. /\ expanding'.side = side /\ expanding'.node = node /\ expanding'.left = rest
        /\ rest # {} => expanding'.depth = r
    BY <1>13
  <2> QED BY <2>1, <2>2, <2>3, <2>4, LevelAfter
<1> QED BY <1>10, <1>12, <1>13, <1>16 DEF PathTypes

\* FrontierEdge, of an edge to a node of the other side.
LEMMA LevelMeets ==
    ASSUME Common, Ends, PathTypes, NEW r \in Nat, AtLevel(r), NEW next \in expanding.left,
           next[2] \notin Mapped(parents[expanding.side]),
           next[2] \in Mapped(parents[Other(expanding.side)]),
           EntersNext(next),
           queue' = queue, level' = level,
           LeavesRest(next)
    PROVE  PathTypes' /\ \E h \in Nat : IsAnswer(reconstruct_path(next[2]), h)
<1>1. PICK side : side = expanding.side
  OBVIOUS
<1>2. side \in Sides /\ Other(side) \in Sides /\ Other(side) # side
  BY <1>1 DEF PathTypes, Expanding, Sides, Other
<1>3. parents \in [Sides -> [NodeIds -> ParentEntry \cup {None}]]
  BY DEF PathTypes
<1>4. PICK P : P = parents[side]
  OBVIOUS
<1>5. PICK R : R = [P EXCEPT ![next[2]] = [previous |-> expanding.node, via_edge |-> next[1]]]
  OBVIOUS
<1>6. parents' = [parents EXCEPT ![side] = R]
  BY <1>1, <1>3, <1>4, <1>5 DEF EntersNext
<1>7. parents'[side] = R /\ parents'[Other(side)] = parents[Other(side)]
  BY <1>2, <1>3, <1>6
<1>8. IsEntered(parents'[side], parents[side], expanding.node, next)
  BY <1>4, <1>5, <1>7 DEF IsEntered
<1>9. \E h \in Nat : IsAnswer(reconstruct_path(next[2]), h)
  <2>1. IsEntered(parents'[expanding.side], parents[expanding.side], expanding.node, next)
    BY <1>1, <1>8
  <2>2. parents'[Other(expanding.side)] = parents[Other(expanding.side)]
    BY <1>1, <1>7
  <2> QED BY <2>1, <2>2, SidesMeet
<1>10. SideOk(side, queue[side], P, r, level, expanding.node, expanding.left)
  BY <1>1, <1>4 DEF AtLevel
<1>11. next[2] \notin Mapped(P) /\ IsEntered(R, P, expanding.node, next)
  BY <1>1, <1>4, <1>7, <1>8
<1>12. R \in [NodeIds -> ParentEntry \cup {None}]
  BY <1>2, <1>10, <1>11, LinkedAdds
<1>13. parents' \in [Sides -> [NodeIds -> ParentEntry \cup {None}]]
  BY <1>2, <1>3, <1>6, <1>12
<1>14. expanding' \in Expanding
  BY DEF PathTypes, Expanding, LeavesRest
<1> QED BY <1>9, <1>13, <1>14 DEF PathTypes

LEMMA PathStep ==
    ASSUME Common, PathInv, [Next]_vars
    PROVE  PathInv'
<1> SUFFICES ASSUME request.kind = PathKind PROVE PathInv'
  BY SnapshotStays DEF PathInv
<1>1. graph' = graph /\ request' = request
  BY SnapshotStays
<1>2. items = << >> /\ ranked = {} /\ PathTypes
  BY DEF PathInv
<1>3. /\ \A p, h : IsAnswer(p, h)' <=> IsAnswer(p, h)
      /\ NoAnswer' <=> NoAnswer
      /\ Searching' <=> Searching
  BY <1>1, PathStays
<1>4. Searching => Ends
  BY SearchingEnds
<1>5. ASSUME path' = path, cut' = cut, PathResult PROVE PathResult'
  BY <1>3, <1>5 DEF PathResult
<1>6. CASE UNCHANGED vars
  <2>1. /\ queue' = queue /\ parents' = parents /\ expanding' = expanding /\ level' = level
        /\ items' = items /\ ranked' = ranked /\ path' = path /\ cut' = cut /\ pc' = pc
    BY <1>6 DEF vars
  <2>2. PathTypes'
    BY <1>2, <2>1 DEF PathTypes
  <2>3. ASSUME pc' = "path" PROVE Searching' /\ path' = None /\ \E r \in Nat : AtLoop(r)'
    <3>1. PICK r \in Nat : AtLoop(r)
      BY <2>1, <2>3 DEF PathInv
    <3>2. AtLoop(r)'
      <4>1. PICK q : q = queue["forward"]
        OBVIOUS
      <4>2. PICK s : s = queue["backward"]
        OBVIOUS
      <4>3. PICK P : P = parents["forward"]
        OBVIOUS
      <4>4. PICK Q : Q = parents["backward"]
        OBVIOUS
      <4>5. /\ SideOk("forward", q, P, r, Len(q), None, {})
            /\ SideOk("backward", s, Q, r, Len(s), None, {})
            /\ Mapped(P) \cap Mapped(Q) = {}
            /\ r = 0 => q # << >> /\ s # << >>
        BY <3>1, <4>1, <4>2, <4>3, <4>4 DEF AtLoop, Resting, Apart
      <4> QED BY <1>1, <2>1, <4>1, <4>2, <4>3, <4>4, <4>5, LoopAfter
    <3> QED BY <1>3, <2>1, <2>3, <3>2 DEF PathInv
  <2>4. ASSUME pc' = "frontier" PROVE Searching' /\ path' = None /\ \E r \in Nat : AtLevel(r)'
    <3>1. PICK r \in Nat : AtLevel(r)
      BY <2>1, <2>4 DEF PathInv
    <3>2. PICK side, q, P, node, left, s, Q : LevelValues(r, side, q, P, node, left, s, Q)
      BY <1>2, <3>1, LevelBefore
    <3>3. PICK lv : lv = level
      OBVIOUS
    <3>4. AtLevel(r)'
      BY <1>1, <2>1, <3>2, <3>3, LevelAfter DEF LevelValues
    <3> QED BY <1>3, <2>1, <2>4, <3>4 DEF PathInv
  <2>5. pc' \in {"respond", "done", "refused"} => PathResult'
    BY <1>5, <2>1 DEF PathInv
  <2> QED BY <1>2, <2>1, <2>2, <2>3, <2>4, <2>5 DEF PathInv
<1>7. CASE Reject
  <2>1. /\ queue' = queue /\ parents' = parents /\ expanding' = expanding /\ level' = level
        /\ items' = items /\ ranked' = ranked /\ pc' = "rejected"
    BY <1>7 DEF Reject
  <2>2. PathTypes'
    BY <1>2, <2>1 DEF PathTypes
  <2> QED BY <1>2, <2>1, <2>2 DEF PathInv
<1>8. CASE Respond
  <2>1. /\ queue' = queue /\ parents' = parents /\ expanding' = expanding /\ level' = level
        /\ items' = items /\ ranked' = ranked /\ path' = path /\ cut' = cut
        /\ pc = "respond" /\ pc' \in {"done", "refused"}
    BY <1>8 DEF Respond
  <2>2. PathTypes'
    BY <1>2, <2>1 DEF PathTypes
  <2>3. PathResult'
    BY <1>5, <2>1 DEF PathInv
  <2> QED BY <1>2, <2>1, <2>2, <2>3 DEF PathInv
<1>9. CASE StartPath
  <2>1. /\ pc = "plan" /\ Fresh /\ items' = items /\ ranked' = ranked
        /\ expanding' = expanding /\ level' = level /\ path = None
    BY <1>9 DEF StartPath, Common, Phase, Fresh
  <2>2. CASE Searching
    <3>1. /\ pc' = "path" /\ path' = path
          /\ queue' = [forward |-> << <<request.source, 0>> >>,
                       backward |-> << <<request.target, 0>> >>]
          /\ parents' = [forward |-> [parents.forward EXCEPT ![request.source] = Root],
                         backward |-> [parents.backward EXCEPT ![request.target] = Root]]
      BY <1>9, <2>2 DEF StartPath, Searching
    <3>2. PathTypes' /\ AtLoop(0)' /\ 0 \in Nat
      BY <1>1, <1>4, <2>1, <2>2, <3>1, SearchOpens DEF Searching
    <3> QED BY <1>2, <1>3, <2>1, <2>2, <3>1, <3>2 DEF PathInv
  <2>3. CASE ~Searching
    <3>1. pc' = "respond" /\ queue' = queue /\ parents' = parents
      BY <1>9, <2>3 DEF StartPath, Searching
    <3>2. path' # None => Len(path'.node_ids) = 1 /\ Len(path'.edge_ids) = 0
      <4>1. \/ path' = [node_ids |-> << request.source >>, edge_ids |-> << >>]
            \/ path' = path
        BY <1>9, <2>3 DEF StartPath, Searching
      <4> QED BY <2>1, <4>1
    <3>3. PathTypes'
      BY <1>2, <2>1, <3>1 DEF PathTypes
    <3>4. PathResult'
      BY <1>3, <2>3, <3>2 DEF PathResult
    <3> QED BY <1>2, <2>1, <3>1, <3>3, <3>4 DEF PathInv
  <2> QED BY <2>2, <2>3
<1>10. CASE PathLoop
  <2>1. /\ pc = "path" /\ queue' = queue /\ parents' = parents
        /\ items' = items /\ ranked' = ranked /\ path' = path
    BY <1>10 DEF PathLoop
  <2>2. Searching /\ path = None /\ \E r \in Nat : AtLoop(r)
    BY <2>1 DEF PathInv
  <2>3. PICK r \in Nat : AtLoop(r)
    BY <2>2
  <2>4. CASE /\ queue["forward"] = << >> \/ queue["backward"] = << >>
             /\ pc' = "respond" /\ expanding' = expanding /\ level' = level /\ cut' = cut
    <3>1. NoAnswer
      <4>1. Valid(request)
        BY <2>1 DEF Common, Phase
      <4> QED BY <1>4, <2>2, <2>3, <2>4, <4>1, SearchEnds
    <3>2. PathTypes'
      BY <1>2, <2>1, <2>4 DEF PathTypes
    <3>3. PathResult'
      BY <1>3, <2>1, <2>2, <3>1 DEF PathResult
    <3> QED BY <1>2, <2>1, <2>4, <3>2, <3>3 DEF PathInv
  <2>5. CASE cut' = TRUE /\ pc' = "respond" /\ expanding' = expanding /\ level' = level
    <3>1. PathTypes'
      BY <1>2, <2>1, <2>5 DEF PathTypes
    <3>2. PathResult'
      BY <1>3, <2>1, <2>2, <2>5 DEF PathResult
    <3> QED BY <1>2, <2>1, <2>5, <3>1, <3>2 DEF PathInv
  <2>6. CASE /\ queue["forward"] # << >> /\ queue["backward"] # << >>
             /\ Cardinality(Found("forward")) + Cardinality(Found("backward"))
                   < request.limit
             /\ pc' = "frontier" /\ level' = LevelSize("forward") /\ expanding' = Idle
    <3>1. PathTypes' /\ AtLevel(r)'
      BY <1>1, <1>2, <1>4, <2>1, <2>2, <2>3, <2>6, LevelOpens
    <3> QED BY <1>2, <1>3, <2>1, <2>2, <2>6, <3>1 DEF PathInv
  <2> QED BY <1>10, <2>4, <2>5, <2>6 DEF PathLoop
<1>11. CASE FrontierPop
  <2>1. /\ pc = "frontier" /\ pc' = pc /\ parents' = parents /\ expanding.left = {}
        /\ level > 0 /\ level' = level - 1
        /\ items' = items /\ ranked' = ranked /\ path' = path
    BY <1>11 DEF FrontierPop
  <2>2. Searching /\ path = None /\ \E r \in Nat : AtLevel(r)
    BY <2>1 DEF PathInv
  <2>3. PICK r \in Nat : AtLevel(r)
    BY <2>2
  <2>4. /\ queue' = [queue EXCEPT ![expanding.side] = Tail(@)]
        /\ expanding' = [side |-> expanding.side, node |-> Head(queue[expanding.side])[1],
                         depth |-> Head(queue[expanding.side])[2],
                         left |-> IF Head(queue[expanding.side])[2] = request.max_depth THEN {}
                                  ELSE expand_neighbors(Head(queue[expanding.side])[1],
                                                        Direction(expanding.side))]
    BY <1>11 DEF FrontierPop
  <2>5. PathTypes' /\ AtLevel(r)'
    BY <1>1, <1>2, <1>4, <2>1, <2>2, <2>3, <2>4, LevelPops
  <2> QED BY <1>2, <1>3, <2>1, <2>2, <2>5 DEF PathInv
<1>12. CASE FrontierEdge
  <2>1. /\ pc = "frontier" /\ level' = level
        /\ items' = items /\ ranked' = ranked /\ cut' = cut
    BY <1>12 DEF FrontierEdge
  <2>2. Searching /\ path = None /\ \E r \in Nat : AtLevel(r)
    BY <2>1 DEF PathInv
  <2>3. PICK r \in Nat : AtLevel(r)
    BY <2>2
  <2> DEFINE new(next) == next[2] \notin Mapped(parents[expanding.side])
             met(next) == new(next) /\ next[2] \in Mapped(parents[Other(expanding.side)])
  <2>4. PICK next \in expanding.left :
            /\ IF new(next) THEN EntersNext(next) ELSE parents' = parents
            /\ path' = IF met(next) THEN reconstruct_path(next[2]) ELSE path
            /\ pc' = IF met(next) THEN "respond" ELSE pc
            /\ IF new(next) /\ ~met(next) THEN QueuesNext(next) ELSE queue' = queue
            /\ LeavesRest(next)
    BY <1>12, FoundIsMapped DEF FrontierEdge, EntersNext, QueuesNext, LeavesRest
  <2>5. CASE ~new(next)
    <3>1. parents' = parents /\ path' = path /\ pc' = pc /\ queue' = queue /\ LeavesRest(next)
      BY <2>4, <2>5
    <3>2. PathTypes' /\ AtLevel(r)'
      BY <1>1, <1>2, <1>4, <2>1, <2>2, <2>3, <2>5, <3>1, LevelSees
    <3> QED BY <1>2, <1>3, <2>1, <2>2, <3>1, <3>2 DEF PathInv
  <2>6. CASE new(next) /\ ~met(next)
    <3>1. EntersNext(next) /\ path' = path /\ pc' = pc /\ QueuesNext(next) /\ LeavesRest(next)
      BY <2>4, <2>6
    <3>2. PathTypes' /\ AtLevel(r)'
      BY <1>1, <1>2, <1>4, <2>1, <2>2, <2>3, <2>6, <3>1, LevelGrows
    <3> QED BY <1>2, <1>3, <2>1, <2>2, <3>1, <3>2 DEF PathInv
  <2>7. CASE met(next)
    <3>1. /\ EntersNext(next) /\ path' = reconstruct_path(next[2]) /\ pc' = "respond"
          /\ queue' = queue /\ LeavesRest(next)
      BY <2>4, <2>7
    <3>2. PathTypes' /\ \E h \in Nat : IsAnswer(reconstruct_path(next[2]), h)
      BY <1>1, <1>2, <1>4, <2>1, <2>2, <2>3, <2>7, <3>1, LevelMeets
    <3>3. PICK p : p = reconstruct_path(next[2])
      OBVIOUS
    <3>4. PICK h \in Nat : IsAnswer(p, h)
      BY <3>2, <3>3
    <3>5. IsAnswer(p, h)' /\ path' = p /\ p # None
      BY <1>3, <3>1, <3>3, <3>4 DEF IsAnswer, IsPath
    <3>6. IsAnswer(path, h)'
      BY <3>5
    <3>7. PathResult'
      BY <1>3, <2>2, <3>5, <3>6 DEF PathResult
    <3> QED BY <1>2, <2>1, <3>1, <3>2, <3>7 DEF PathInv
  <2> QED BY <2>5, <2>6, <2>7
<1>13. CASE EndLevel
  <2>1. /\ pc = "frontier" /\ parents' = parents /\ queue' = queue
        /\ expanding.left = {} /\ level = 0
        /\ items' = items /\ ranked' = ranked /\ path' = path
    BY <1>13 DEF EndLevel
  <2>2. Searching /\ path = None /\ \E r \in Nat : AtLevel(r)
    BY <2>1 DEF PathInv
  <2>3. PICK r \in Nat : AtLevel(r)
    BY <2>2
  <2>4. /\ /\ expanding.side = "forward"
           /\ expanding' = [Idle EXCEPT !.side = "backward"]
           /\ level' = LevelSize("backward")
           => PathTypes' /\ AtLevel(r)'
        /\ expanding.side = "backward" => AtLoop(r + 1)'
    BY <1>1, <1>2, <1>4, <2>1, <2>2, <2>3, LevelCloses
  <2>5. CASE /\ expanding.side = "forward" /\ expanding' = [Idle EXCEPT !.side = "backward"]
             /\ level' = LevelSize("backward") /\ pc' = pc
    <3>1. PathTypes' /\ AtLevel(r)'
      BY <2>4, <2>5
    <3> QED BY <1>2, <1>3, <2>1, <2>2, <2>5, <3>1 DEF PathInv
  <2>6. CASE /\ expanding.side = "backward" /\ pc' = "path"
             /\ level' = level /\ expanding' = expanding
    <3>1. AtLoop(r + 1)' /\ r + 1 \in Nat
      BY <2>4, <2>6
    <3>2. PathTypes'
      BY <1>2, <2>1, <2>6 DEF PathTypes
    <3>3. \E k \in Nat : AtLoop(k)'
      BY <3>1
    <3> QED BY <1>2, <1>3, <2>1, <2>2, <2>6, <3>2, <3>3 DEF PathInv
  <2> QED BY <1>13, <2>5, <2>6 DEF EndLevel
<1> QED BY <1>6, <1>7, <1>8, <1>9, <1>10, <1>11, <1>12, <1>13, StepsOfPath

LEMMA PathAlways == Spec => []PathInv
<1>1. Init => PathInv
  <2> SUFFICES ASSUME Init PROVE PathInv
    OBVIOUS
  <2>1. Fresh /\ pc = "plan"
    BY CommonInit
  <2>2. PathTypes
    BY <2>1 DEF Fresh, PathTypes, Expanding, Idle, Sides
  <2> QED BY <2>1, <2>2 DEF PathInv, Fresh
<1>2. Common /\ PathInv /\ [Next]_vars => PathInv'
  BY PathStep
<1> QED BY <1>1, <1>2, CommonAlways, PTL DEF Spec

\* The answer of the two-sided search is the reference's.
LEMMA AnswerIsExact ==
    ASSUME Common, PathInv
    PROVE  ShortestPathExact
<1> SUFFICES ASSUME Answered({PathKind}), Searching PROVE ShortestPathExact
  BY DEF ShortestPathExact, Searching
<1> DEFINE hops == {k \in 1 .. 2 * request.max_depth : HasPath(k)}
<1>1. pc \in {"done", "refused"} /\ request.kind = PathKind /\ Ends
      /\ request.max_depth \in Nat
  BY SearchingEnds DEF Answered, Common, IsRequest
<1>2. PathResult
  BY <1>1 DEF PathInv
<1>3. \A k \in 1 .. 2 * request.max_depth : HasPath(k) <=> PathOf(k)
  <2>1. \A k \in 1 .. 2 * request.max_depth : k \in Nat \ {0}
    OBVIOUS
  <2> QED BY <1>1, <2>1, HasPathIs
<1>4. ASSUME path = None PROVE hops = {} \/ cut
  BY <1>2, <1>3, <1>4 DEF PathResult, NoAnswer
<1>5. ASSUME path # None
      PROVE  /\ Len(path.node_ids) = Len(path.edge_ids) + 1
             /\ \A i \in DOMAIN path.edge_ids :
                   Leads(path.edge_ids[i], path.node_ids[i], path.node_ids[i + 1])
             /\ Len(path.edge_ids) \in hops
             /\ \A k \in hops :
                   \/ Len(path.edge_ids) <= k
                   \/ Len(path.edge_ids) = 2 /\ ~Labelled(request.target)
  <2>1. PICK h \in Nat : IsAnswer(path, h)
    BY <1>2, <1>5 DEF PathResult
  <2>2. /\ Len(path.node_ids) = h + 1 /\ Len(path.edge_ids) = h
        /\ \A i \in DOMAIN path.edge_ids :
              Leads(path.edge_ids[i], path.node_ids[i], path.node_ids[i + 1])
    BY <2>1 DEF IsAnswer, IsPath
  <2>3. h \in hops
    BY <1>3, <2>1 DEF IsAnswer
  <2>4. \A k \in hops : h <= k \/ (h = 2 /\ ~Labelled(request.target))
    BY <1>3, <2>1 DEF IsAnswer
  <2> HIDE DEF hops
  <2> QED BY <2>2, <2>3, <2>4
<1> QED BY <1>4, <1>5 DEF ShortestPathExact

\* The two-sided search of ShortestPath finds a path whenever the graph, the
\* labels and the depth allow one, and the one it finds is as short as any,
\* for every graph and every order in which the edges of a node come; only to
\* a target without the labels it may take two hops beside a direct edge.
THEOREM ShortestPathExactAlways == Spec => []ShortestPathExact
<1>1. Common /\ PathInv => ShortestPathExact
  BY AnswerIsExact
<1> QED BY <1>1, CommonAlways, PathAlways, PTL

-----------------------------------------------------------------------------
(* The response                                                            *)

\* Only a query of a known kind is answered, and only its size refuses it.
RefusalInv ==
    /\ pc \in {"respond", "done", "refused"} =>
          request.kind \in ScanKinds \cup RankKinds \cup {"ListNeighbors", "Traverse", PathKind}
    /\ pc = "refused" /\ ~request.stream => ResponseItems > MaxResponseItems

LEMMA RefusalStep ==
    ASSUME Common, RefusalInv, [Next]_vars
    PROVE  RefusalInv'
<1> DEFINE Known == request.kind \in
                       ScanKinds \cup RankKinds \cup {"ListNeighbors", "Traverse", PathKind}
<1>1. graph' = graph /\ request' = request
  BY SnapshotStays
<1>2. \/ pc = "respond" \/ pc' = pc
      \/ pc' \in {"rejected", "scan", "traverse", "path", "rank", "frontier"}
      \/ pc' = "respond" /\ Known
  <2>1. CASE Reject \/ StartScan \/ StartTraversal \/ StartRanking \/ Respond \/ UNCHANGED vars
    BY <2>1 DEF Reject, StartScan, StartTraversal, StartRanking, Respond, vars
  <2>2. CASE ScanNode \/ ScanNeighbor \/ EndScan
    BY <2>2 DEF ScanNode, ScanNeighbor, EndScan, Common, Phase
  <2>3. CASE TraversePop \/ TraverseEdge \/ EndTraversal
    BY <2>3 DEF TraversePop, TraverseEdge, EndTraversal, Common, Phase
  <2>4. CASE StartPath \/ PathLoop \/ FrontierPop \/ EndLevel
    BY <2>4 DEF StartPath, PathLoop, FrontierPop, EndLevel, Common, Phase
  <2>5. CASE FrontierEdge
    BY <2>5 DEF FrontierEdge, Common, Phase
  <2>6. CASE PushRanked \/ EndRanking
    BY <2>6 DEF PushRanked, EndRanking, Common, Phase
  <2> QED BY <2>1, <2>2, <2>3, <2>4, <2>5, <2>6 DEF Next
<1>3. pc' \in {"respond", "done", "refused"} => Known
  <2>1. pc = "respond" => Known
    BY DEF RefusalInv
  <2> QED BY <1>2, <2>1 DEF RefusalInv
<1>4. ASSUME pc' = "refused", ~request.stream PROVE ResponseItems' > MaxResponseItems
  <2>1. pc = "respond" \/ pc = "refused"
    BY <1>2, <1>4
  <2>2. CASE pc = "respond"
    <3>1. Respond
      BY <1>4, <2>2 DEF Next, vars, Reject, StartScan, ScanNode, ScanNeighbor, EndScan,
         StartTraversal, TraversePop, TraverseEdge, EndTraversal, StartPath,
         PathLoop, FrontierPop, FrontierEdge, EndLevel, StartRanking, PushRanked, EndRanking
    <3>2. ResponseItems > MaxResponseItems
      BY <1>4, <3>1 DEF Respond
    <3>3. items' = items /\ path' = path /\ ranked' = ranked
      BY <3>1 DEF Respond
    <3> QED BY <3>2, <3>3 DEF ResponseItems, StreamItems, PathItems
  <2>3. CASE pc = "refused"
    <3>1. UNCHANGED vars
      BY <2>3 DEF Next, Reject, StartScan, ScanNode, ScanNeighbor, EndScan,
         StartTraversal, TraversePop, TraverseEdge, EndTraversal, StartPath,
         PathLoop, FrontierPop, FrontierEdge, EndLevel, StartRanking, PushRanked, EndRanking,
         Respond
    <3>2. items' = items /\ path' = path /\ ranked' = ranked
      BY <3>1 DEF vars
    <3>3. ResponseItems > MaxResponseItems
      BY <1>4, <2>3 DEF RefusalInv
    <3> QED BY <3>2, <3>3 DEF ResponseItems, StreamItems, PathItems
  <2> QED BY <2>1, <2>2, <2>3
<1> QED BY <1>1, <1>3, <1>4 DEF RefusalInv

LEMMA RefusalAlways == Spec => []RefusalInv
<1>1. Init => RefusalInv
  BY DEF Init, RefusalInv
<1>2. Common /\ RefusalInv /\ [Next]_vars => RefusalInv'
  BY RefusalStep
<1> QED BY <1>1, <1>2, CommonAlways, PTL DEF Spec

\* An answer without a path and without a ranking is its nodes and edges.
LEMMA PlainResponse ==
    ASSUME path = None, ranked = {}, items \in Seq(Items)
    PROVE  ResponseItems = Len(items) /\ Len(items) \in Nat
<1>1. Cardinality(ranked) = 0 /\ Len(items) \in Nat
  BY FS_EmptySet
<1> QED BY <1>1 DEF ResponseItems, StreamItems, PathItems

\* An identifier names one node.
LEMMA OneNodeById ==
    ASSUME ScanInv, request.kind = "GetNodeById"
    PROVE  Len(items) <= 1
<1>1. /\ items \in Seq(Items) /\ NoRepeats(DOMAIN items)
      /\ \A i \in DOMAIN items : items[i] \in {"node"} \X LiveNodes
      /\ {NodeAt(i) : i \in DOMAIN items} \subseteq {n \in LiveNodes : Matches(n)}
  BY DEF ScanInv, ScanKinds
<1>2. \A n : Matches(n) => n = request.source
  BY DEF Matches
<1>3. ASSUME NEW i \in DOMAIN items PROVE items[i] = <<"node", request.source>>
  <2>1. items[i] \in {"node"} \X LiveNodes /\ items[i][2] = request.source
    BY <1>1, <1>2 DEF NodeAt
  <2> QED BY <2>1
<1>4. \A i, j \in DOMAIN items : i = j
  BY <1>1, <1>3 DEF NoRepeats
<1>5. DOMAIN items = 1 .. Len(items) /\ Len(items) \in Nat
  BY <1>1
<1>6. ~(Len(items) >= 2)
  <2> SUFFICES ASSUME Len(items) >= 2 PROVE FALSE
    OBVIOUS
  <2>1. 1 \in DOMAIN items /\ 2 \in DOMAIN items
    BY <1>5
  <2>2. 1 = 2
    BY <1>4, <2>1
  <2> QED BY <2>2
<1> QED BY <1>5, <1>6

\* The response budget refuses a buffered response only for a limit above half
\* of it, or a quarter of it for a path: every kind of query holds what it
\* returns to its limit.
THEOREM RefusedOnlyForLargeLimitsAlways == Spec => []RefusedOnlyForLargeLimits
<1>1. ASSUME Common, RefusalInv, ScanInv, NeighborInv, TravInv, RankInv, PathInv
      PROVE  RefusedOnlyForLargeLimits
  <2> SUFFICES ASSUME pc = "refused", ~request.stream
               PROVE  MaxResponseItems < IF request.kind = PathKind THEN 4 * request.limit - 2
                                         ELSE 2 * request.limit
    BY DEF RefusedOnlyForLargeLimits
  <2>1. /\ ResponseItems > MaxResponseItems /\ request.limit \in Nat
        /\ MaxResponseItems \in Nat \ {0}
    BY <1>1, QueryAssumption DEF RefusalInv, Common, IsRequest
  <2>2. request.kind \in ScanKinds \cup RankKinds \cup {"ListNeighbors", "Traverse", PathKind}
    BY <1>1 DEF RefusalInv
  <2>3. CASE request.kind \in ScanKinds
    <3>1. ResponseItems = Len(items) /\ Len(items) \in Nat
      BY <1>1, <2>3, PlainResponse DEF ScanInv
    <3>2. request.kind # "GetNodeById"
      BY <1>1, <2>1, <3>1, OneNodeById
    <3>3. Len(items) <= request.limit /\ request.kind # PathKind
      BY <1>1, <2>3, <3>2 DEF ScanInv, ScanKinds, PathKind
    <3> QED BY <2>1, <3>1, <3>3
  <2>4. CASE request.kind = "ListNeighbors"
    <3>1. ResponseItems = Len(items) /\ Len(items) \in Nat /\ items \in Seq(Items)
      BY <1>1, <2>4, PlainResponse DEF NeighborInv
    <3>2. /\ Cardinality(Places(items, "edge")) <= request.limit
          /\ Cardinality(Places(items, "node")) <= Cardinality(Places(items, "edge"))
      BY <1>1, <2>4 DEF NeighborInv
    <3>3. /\ Len(items) = Cardinality(Places(items, "node")) + Cardinality(Places(items, "edge"))
          /\ Cardinality(Places(items, "node")) \in Nat
          /\ Cardinality(Places(items, "edge")) \in Nat
      BY <3>1, PlacesAddUp, PlacesFinite
    <3>4. request.kind # PathKind
      BY <2>4 DEF PathKind
    <3> QED BY <2>1, <3>1, <3>2, <3>3, <3>4
  <2>5. CASE request.kind = "Traverse"
    <3>1. ResponseItems = Len(items) /\ Len(items) \in Nat /\ items \in Seq(Items)
      BY <1>1, <2>5, PlainResponse DEF TravInv
    <3>2. /\ Len(items) = Cardinality(Places(items, "node")) + Cardinality(Places(items, "edge"))
          /\ Cardinality(Places(items, "node")) \in Nat
          /\ Cardinality(Places(items, "edge")) \in Nat
      BY <3>1, PlacesAddUp, PlacesFinite
    <3>3. request.kind # PathKind
      BY <2>5 DEF PathKind
    <3>4. CASE contains_node(request.source)
      <4>1. Emits
        BY <1>1, <2>5, <3>4 DEF TravInv
      <4>2. Cardinality(visited_nodes) \in Nat /\ Cardinality(visited_edges) \in Nat
        BY <4>1, TravVisited
      <4>3. /\ Cardinality(Places(items, "edge")) <= request.limit
            /\ Cardinality(Places(items, "node")) <= request.limit
        BY <2>1, <4>1, <4>2 DEF Emits
      <4> QED BY <2>1, <3>1, <3>2, <3>3, <4>3
    <3>5. CASE ~contains_node(request.source)
      <4>1. items = << >>
        BY <1>1, <2>5, <3>5 DEF TravInv
      <4>2. Len(items) = 0
        BY <4>1
      <4> QED BY <2>1, <3>1, <4>2
    <3> QED BY <3>4, <3>5
  <2>6. CASE request.kind \in RankKinds
    <3>1. /\ Len(items) = Cardinality(ranked) /\ path = None /\ items \in Seq(Items)
          /\ Cardinality(ranked) <= request.limit /\ request.kind # PathKind
      BY <1>1, <2>6 DEF RankInv, RankKinds, PathKind
    <3>2. Len(items) \in Nat
      BY <3>1
    <3>3. ResponseItems = Len(items) + Len(items)
      BY <3>1, <3>2 DEF ResponseItems, StreamItems, PathItems
    <3> QED BY <2>1, <3>1, <3>2, <3>3
  <2>7. CASE request.kind = PathKind
    <3>1. items = << >> /\ ranked = {} /\ PathResult
      BY <1>1, <2>7 DEF PathInv
    <3>2. Len(items) = 0 /\ Cardinality(ranked) = 0
      BY <3>1, FS_EmptySet
    <3>3. ASSUME NEW k \in Nat, PathItems = k PROVE ResponseItems = 2 * k
      BY <3>2, <3>3 DEF ResponseItems, StreamItems
    <3>4. path # None
      <4> SUFFICES ASSUME path = None PROVE FALSE
        OBVIOUS
      <4>1. PathItems = 0
        BY DEF PathItems
      <4>2. ResponseItems = 2 * 0
        BY <3>3, <4>1
      <4> QED BY <2>1, <4>2
    <3>5. CASE Searching
      <4>1. PICK h \in Nat : IsAnswer(path, h)
        BY <3>1, <3>4, <3>5 DEF PathResult
      <4>2. Len(path.node_ids) = h + 1 /\ Len(path.edge_ids) = h /\ h + 1 <= request.limit
        BY <4>1 DEF IsAnswer, IsPath
      <4>3. PathItems = (h + 1) + h /\ (h + 1) + h \in Nat
        BY <3>4, <4>2 DEF PathItems
      <4>4. ResponseItems = 2 * ((h + 1) + h)
        BY <3>3, <4>3
      <4> QED BY <2>1, <2>7, <4>2, <4>4
    <3>6. CASE ~Searching
      <4>1. Len(path.node_ids) = 1 /\ Len(path.edge_ids) = 0
        BY <3>1, <3>4, <3>6 DEF PathResult
      <4>2. PathItems = 1
        BY <3>4, <4>1 DEF PathItems
      <4>3. ResponseItems = 2 * 1
        BY <3>3, <4>2
      <4>4. Valid(request)
        BY <1>1 DEF Common, Phase
      <4>5. request.limit # 0
        BY <2>7, <4>4 DEF Valid, resolve_required_result_limit, PathKind
      <4> QED BY <2>1, <2>7, <4>3, <4>5
    <3> QED BY <3>5, <3>6
  <2> QED BY <2>2, <2>3, <2>4, <2>5, <2>6, <2>7
<1>2. Common /\ RefusalInv /\ ScanInv /\ NeighborInv /\ TravInv /\ RankInv /\ PathInv
        => RefusedOnlyForLargeLimits
  BY <1>1
<1> QED BY <1>2, CommonAlways, RefusalAlways, ScanAlways, NeighborAlways, TravAlways,
          RankAlways, PathAlways, PTL

=============================================================================
