-------------------------------- MODULE Index -------------------------------
(***************************************************************************)
(* The graph index of crates/index/src/lib.rs: what an index holds, what   *)
(* each mutation does to it, what a rebuild gives, and the lookups of a    *)
(* snapshot and of a session's overlay (crates/query/src/lib.rs).          *)
(*                                                                         *)
(* The label index and the temporal index are both buckets of node         *)
(* identifiers under something the body determines, so they are one set of *)
(* pairs here.  An HNSW runtime is what it stores: a vector per node.  A   *)
(* clone of an index shares it (Arc), so it lives in a heap and an index   *)
(* holds a reference; 0 is no runtime.                                     *)
(***************************************************************************)
EXTENDS Graph, FiniteSets

CONSTANTS
    BucketsOf,      \* label and timestamp of a body
    KeyOf,          \* the unique_key of a body, or Absent
    VectorNames,    \* names of vector spaces
    VectorOf,       \* the vector a vector map has under a name, or Absent
    DimensionOf,    \* the length of a vector, above 0
    IdOrder,        \* the order of node identifiers
    ExactFallbackThreshold,
    SidecarOf,      \* the file that sanitize_vector_name gives a space
    Refs            \* addresses of runtimes, positive

ASSUME IndexAssumption ==
    /\ ExactFallbackThreshold \in Nat
    /\ Absent \notin NodeIds
    /\ Refs # {} /\ 0 \notin Refs
    /\ \A m, n \in NodeIds :
          IdOrder[m] \in Nat /\ (IdOrder[m] = IdOrder[n] => m = n)

Vec(record, name) == VectorOf[record.vectors][name]

-----------------------------------------------------------------------------
(* Mutations: what a batch removes from and adds to the index              *)

\* The upserts of an edge that the plan keeps: not of an end the batch deletes.
KeptUpserts(b, e) ==
    {i \in DOMAIN b.edges_upserted :
        /\ b.edges_upserted[i].id = e
        /\ ~Incident(b.edges_upserted[i].value, b.deleted_node_ids)}
LastKept(b, e) ==
    b.edges_upserted[CHOOSE i \in KeptUpserts(b, e) :
                        \A j \in KeptUpserts(b, e) : j <= i].value

\* Database::plan_batch_mutation, from the engine's graph before the batch.
\* An edge the engine holds at a deleted node is removed, whatever the batch
\* makes of it.
plan_batch_mutation(g, b) ==
    LET cascaded(e) == Live(g, e) /\ Incident(g[e], b.deleted_node_ids)
    IN  [removed |-> [k \in Keys |->
            IF k \in BatchKeys(b) \/ (k \in EdgeIds /\ cascaded(k))
            THEN g[k] ELSE Absent],
         added |-> [k \in Keys |->
            IF k \in NodeIds
            THEN IF k \in Upserted(b.nodes_upserted) \ b.deleted_node_ids
                 THEN LastUpsert(b.nodes_upserted, k) ELSE Absent
            ELSE IF /\ KeptUpserts(b, k) # {}
                    /\ k \notin b.deleted_edge_ids
                    /\ ~cascaded(k)
                 THEN LastKept(b, k) ELSE Absent]]

\* Edges on which the plan and the engine part: moved away from a node that
\* the same batch deletes, or moved to one after another version was staged.
Rewired(g, b) ==
    {e \in Upserted(b.edges_upserted) :
        IF Incident(LastUpsert(b.edges_upserted, e), b.deleted_node_ids)
        THEN KeptUpserts(b, e) # {}
        ELSE Live(g, e) /\ Incident(g[e], b.deleted_node_ids)}

\* snapshot_with_mutation on the two maps.
MutatedGraph(g, m) ==
    [k \in Keys |-> IF Live(m.added, k) THEN m.added[k]
                    ELSE IF Live(m.removed, k) THEN Absent ELSE g[k]]

-----------------------------------------------------------------------------
(* The structural part of an index                                         *)

NodeBuckets(g, n) == {<<bucket, n>> : bucket \in BucketsOf[g[n].body]}
LiveNodes(g) == {n \in NodeIds : Live(g, n)}
LiveEdges(g) == {e \in EdgeIds : Live(g, e)}

AllBuckets(g) == UNION {NodeBuckets(g, n) : n \in LiveNodes(g)}
Outgoing(g) == {<<g[e].source, e>> : e \in LiveEdges(g)}
Incoming(g) == {<<g[e].target, e>> : e \in LiveEdges(g)}

UniqueKeys == {KeyOf[body] : body \in Bodies} \ {Absent}
Owners(g, key) == {n \in LiveNodes(g) : KeyOf[g[n].body] = key}

\* Nodes are inserted in the order of their identifiers: the last one stays.
LastOwner(g, key) ==
    CHOOSE n \in Owners(g, key) :
        \A m \in Owners(g, key) : IdOrder[m] <= IdOrder[n]

\* rebuild_internal without the vector index.
RebuiltStructure(g) ==
    [node_ids |-> LiveNodes(g), buckets |-> AllBuckets(g),
     unique_key |-> [key \in UniqueKeys |->
        IF Owners(g, key) = {} THEN Absent ELSE LastOwner(g, key)],
     adjacency |-> Outgoing(g), reverse_adjacency |-> Incoming(g)]

\* delete_node and upsert_node on the label and temporal index.
MutatedBuckets(index, m) ==
    (index.buckets \ AllBuckets(m.removed)) \cup AllBuckets(m.added)

\* delete_node gives a key up only if it is the node's own.
MutatedKeys(index, m) ==
    [key \in UniqueKeys |->
        IF Owners(m.added, key) # {} THEN LastOwner(m.added, key)
        ELSE IF index.unique_key[key] \in Owners(m.removed, key) THEN Absent
        ELSE index.unique_key[key]]

\* indexes_with_mutation: edges out, nodes out, nodes in, edges in.
MutatedStructure(index, m) ==
    [node_ids |-> (index.node_ids \ LiveNodes(m.removed)) \cup LiveNodes(m.added),
     buckets |-> MutatedBuckets(index, m),
     unique_key |-> MutatedKeys(index, m),
     adjacency |-> (index.adjacency \ Outgoing(m.removed)) \cup Outgoing(m.added),
     reverse_adjacency |->
        (index.reverse_adjacency \ Incoming(m.removed)) \cup Incoming(m.added)]

-----------------------------------------------------------------------------
(* Lookups of a snapshot and of an overlay on it                           *)

ByBucket(index, bucket) == {n \in NodeIds : <<bucket, n>> \in index.buckets}
EdgesFor(index, n) ==
    {e \in EdgeIds : <<n, e>> \in index.adjacency \cup index.reverse_adjacency}
lookup_unique_key(index, key) == index.unique_key[key]

\* OverlayGraphView::get_node, get_edge.
Overlaid(g, m) == MutatedGraph(g, m)

\* Mutant: a base node is not looked up again in the overlay.
OverlayByBucketUnfiltered(g, index, m, bucket) ==
    ByBucket(index, bucket) \cup
        {n \in LiveNodes(m.added) : bucket \in BucketsOf[m.added[n].body]}

\* Base hits that the overlay still has under the bucket, and its additions.
OverlayByBucket(g, index, m, bucket) ==
    {n \in ByBucket(index, bucket) :
        /\ Live(Overlaid(g, m), n)
        /\ bucket \in BucketsOf[Overlaid(g, m)[n].body]}
    \cup {n \in LiveNodes(m.added) : bucket \in BucketsOf[m.added[n].body]}

Touches(edge, n) == edge.source = n \/ edge.target = n

OverlayEdgesFor(g, index, m, n) ==
    {e \in EdgesFor(index, n) :
        Live(Overlaid(g, m), e) /\ Touches(Overlaid(g, m)[e], n)}
    \cup {e \in LiveEdges(m.added) : Touches(m.added[e], n)}

\* An added owner first, else the base's if it still owns the key.
OverlayLookup(g, index, m, key) ==
    LET base == lookup_unique_key(index, key)
    IN  IF Owners(m.added, key) # {}
        THEN CHOOSE n \in Owners(m.added, key) :
                \A o \in Owners(m.added, key) : IdOrder[n] <= IdOrder[o]
        ELSE IF base \in Owners(Overlaid(g, m), key) THEN base ELSE Absent

-----------------------------------------------------------------------------
(* Vector spaces                                                           *)

\* The space of a name that no node has a vector under.
NoSpace == [candidates |-> {}, dimension |-> 0, runtime |-> 0]
EmptyContent == [n \in NodeIds |-> Absent]

Holders(g, name) == {n \in LiveNodes(g) : Vec(g[n], name) # Absent}

\* hnsw_spaces_from_nodes and the upserts of rebuild_internal: the first
\* holder fixes the dimension, the others of that dimension are candidates.
RebuiltSpace(g, name, ref) ==
    LET holders == Holders(g, name)
        first == CHOOSE n \in holders : \A m \in holders : IdOrder[n] <= IdOrder[m]
        dimension == DimensionOf[Vec(g[first], name)]
        candidates == {n \in holders : DimensionOf[Vec(g[n], name)] = dimension}
        build == /\ candidates = holders
                 /\ Cardinality(candidates) > ExactFallbackThreshold
    IN  IF holders = {} THEN NoSpace
        ELSE [candidates |-> candidates, dimension |-> dimension,
              runtime |-> IF build THEN ref ELSE 0]

\* build_runtime inserts every node that has the vector.
BuiltContent(g, name) ==
    [n \in NodeIds |-> IF n \in Holders(g, name) THEN Vec(g[n], name) ELSE Absent]

\* HnswVectorSpace::delete_node; a space without candidates is dropped.
WithoutNode(s, n) ==
    LET left == s.space.candidates \ {n}
    IN  [space |-> IF left = {} THEN NoSpace
                   ELSE [s.space EXCEPT !.candidates = left],
         content |-> IF s.space.runtime = 0 THEN s.content
                     ELSE [s.content EXCEPT ![n] = Absent]]

\* A vector of another length: no candidate, and the index runs without HNSW.
Mismatch(s, n, vector) ==
    LET out == WithoutNode(s, n)
    IN  [out EXCEPT !.space.runtime = 0]

\* HnswVectorSpace::upsert_node.  full: the runtime takes no more vectors.
WithNode(s, n, vector, full) ==
    IF vector = Absent THEN WithoutNode(s, n)
    ELSE IF s.space.candidates = {}
    THEN [s EXCEPT !.space = [candidates |-> {n},
                              dimension |-> DimensionOf[vector], runtime |-> 0]]
    ELSE IF s.space.dimension # DimensionOf[vector] THEN Mismatch(s, n, vector)
    ELSE LET in == [s EXCEPT !.space.candidates = @ \cup {n}]
         IN  IF s.space.runtime = 0 THEN in
             ELSE IF full THEN [in EXCEPT !.space.runtime = 0]
             ELSE [in EXCEPT !.content[n] = vector]

InOrder(nodes) ==
    [i \in 1 .. Cardinality(nodes) |->
        CHOOSE n \in nodes :
            Cardinality({m \in nodes : IdOrder[m] < IdOrder[n]}) = i - 1]

\* One space and the content of its runtime under a mutation.
MutatedSpace(space, content, name, m, full) ==
    LET out == InOrder(LiveNodes(m.removed))
        in == InOrder(LiveNodes(m.added))
        deleted[i \in 0 .. Len(out)] ==
            IF i = 0 THEN [space |-> space, content |-> content]
            ELSE WithoutNode(deleted[i - 1], out[i])
        upserted[i \in 0 .. Len(in)] ==
            IF i = 0 THEN deleted[Len(out)]
            ELSE WithNode(upserted[i - 1], in[i],
                          Vec(m.added[in[i]], name), full)
    IN  upserted[Len(in)]
=============================================================================
