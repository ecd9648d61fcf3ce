------------------------------- MODULE Graph -------------------------------
(***************************************************************************)
(* The property graph held by the storage engine and the write batches     *)
(* that change it: the pure functions of crates/storage/src/lib.rs that    *)
(* the engine, recovery and the transaction layer all share.               *)
(*                                                                         *)
(* The engine keeps two maps, nodes and edges.  A graph here is one total  *)
(* function over NodeIds \cup EdgeIds whose value is Absent for a key the  *)
(* map does not hold.  A node is a body (type and properties) and its      *)
(* vectors, because the two are persisted in different files.  An edge is  *)
(* its two end points: its type and properties never steer the engine.     *)
(***************************************************************************)
EXTENDS Integers, Sequences

CONSTANTS
    NodeIds,        \* node identifiers
    EdgeIds,        \* edge identifiers
    Bodies,         \* node contents other than the vectors
    Vectors,        \* vector maps a node may carry
    NoVectors,      \* the empty vector map
    Absent,         \* the key is not in the map
    NamespaceOf     \* the prefix of a node identifier before ':'

ASSUME GraphAssumption ==
    /\ NodeIds \cap EdgeIds = {}
    /\ NoVectors \in Vectors
    /\ Absent \notin [body : Bodies, vectors : Vectors]
    /\ Absent \notin [source : NodeIds, target : NodeIds]
    /\ Absent \notin Bodies
    /\ Absent \notin Vectors

Keys == NodeIds \cup EdgeIds

NodeRecords == [body : Bodies, vectors : Vectors]
EdgeRecords == [source : NodeIds, target : NodeIds]

Graphs ==
    {g \in [Keys -> NodeRecords \cup EdgeRecords \cup {Absent}] :
        /\ \A n \in NodeIds : g[n] \in NodeRecords \cup {Absent}
        /\ \A e \in EdgeIds : g[e] \in EdgeRecords \cup {Absent}}

EmptyGraph == [k \in Keys |-> Absent]

Live(g, k) == g[k] # Absent

-----------------------------------------------------------------------------
(* Write batches: what a client submits, the WAL logs and deltas store.    *)

WriteBatches ==
    [nodes_upserted   : Seq([id : NodeIds, value : NodeRecords]),
     edges_upserted   : Seq([id : EdgeIds, value : EdgeRecords]),
     deleted_node_ids : SUBSET NodeIds,
     deleted_edge_ids : SUBSET EdgeIds]

EmptyBatch ==
    [nodes_upserted |-> << >>, edges_upserted |-> << >>,
     deleted_node_ids |-> {}, deleted_edge_ids |-> {}]

Upserted(s) == {s[i].id : i \in DOMAIN s}

\* The record a map keeps after inserting the whole vector in order.
LastUpsert(s, k) ==
    s[CHOOSE i \in DOMAIN s :
        s[i].id = k /\ \A j \in DOMAIN s : s[j].id = k => j <= i].value

\* normalize_write_batch accepts the batch: no edge crosses namespaces.
Normalized(b) ==
    \A i \in DOMAIN b.edges_upserted :
        NamespaceOf[b.edges_upserted[i].value.source]
            = NamespaceOf[b.edges_upserted[i].value.target]

\* Every end point of every upserted edge is live or upserted with it; the
\* nodes that the same batch deletes are not subtracted.
validate_batch_against_maps(g, b) ==
    \A i \in DOMAIN b.edges_upserted :
        \A n \in {b.edges_upserted[i].value.source,
                  b.edges_upserted[i].value.target} :
            Live(g, n) \/ n \in Upserted(b.nodes_upserted)

Incident(edge, nodes) == edge.source \in nodes \/ edge.target \in nodes

\* Mutant: a deleted node leaves its edges behind.
ApplyWithoutCascade(g, b) ==
    [k \in Keys |->
        IF k \in b.deleted_node_ids \cup b.deleted_edge_ids THEN Absent
        ELSE IF k \in Upserted(b.nodes_upserted)
             THEN LastUpsert(b.nodes_upserted, k)
        ELSE IF k \in Upserted(b.edges_upserted)
             THEN LastUpsert(b.edges_upserted, k)
        ELSE g[k]]

\* The batch in the code's order: node upserts, edge upserts, node deletes
\* with the edges that touch them, edge deletes.
apply_batch_to_maps_unchecked(g, b) ==
    LET upsertedNode(n) ==
            IF n \in Upserted(b.nodes_upserted)
            THEN LastUpsert(b.nodes_upserted, n) ELSE g[n]
        upsertedEdge(e) ==
            IF e \in Upserted(b.edges_upserted)
            THEN LastUpsert(b.edges_upserted, e) ELSE g[e]
        cascaded(e) ==
            upsertedEdge(e) # Absent
                /\ Incident(upsertedEdge(e), b.deleted_node_ids)
    IN  [k \in Keys |->
            IF k \in NodeIds
            THEN IF k \in b.deleted_node_ids THEN Absent ELSE upsertedNode(k)
            ELSE IF k \in b.deleted_edge_ids \/ cascaded(k)
                 THEN Absent ELSE upsertedEdge(k)]

\* Keys a batch names.
BatchKeys(b) ==
    Upserted(b.nodes_upserted) \cup Upserted(b.edges_upserted)
        \cup b.deleted_node_ids \cup b.deleted_edge_ids

\* Mutant: the edges that go with a deleted node are forgotten.
EffectsWithoutCascade(g, b) == BatchKeys(b)

\* Keys whose lineage a batch moves: the named ones and the live edges that
\* a node delete takes with it.
batch_effects(g, b) ==
    BatchKeys(b) \cup
        {e \in EdgeIds : Live(g, e) /\ Incident(g[e], b.deleted_node_ids)}

\* No edge without both of its end points.
Closed(g) ==
    \A e \in EdgeIds :
        Live(g, e) => Live(g, g[e].source) /\ Live(g, g[e].target)

\* No edge between two namespaces.
NamespaceLocal(g) ==
    \A e \in EdgeIds :
        Live(g, e) => NamespaceOf[g[e].source] = NamespaceOf[g[e].target]
=============================================================================
