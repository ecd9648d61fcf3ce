----------------------------- MODULE MCDatabase -----------------------------
(* Two nodes that share a label, a unique key and a vector space, one edge, *)
(* and the batches of single writes and of committed sessions.              *)
EXTENDS Database, TLC

CONSTANTS a, b, c, e, p, q, v2, w2, v3

MCIdOrder == a :> 1 @@ b :> 2 @@ c :> 3
MCNamespaceOf == [n \in {a, b, c} |-> "default"]
MCBucketsOf == p :> {"label A", "time 1"} @@ q :> {"label A", "time 2"}
MCKeyOf == p :> "k" @@ q :> Absent
MCVectorOf == NoVectors :> ("x" :> Absent) @@ v2 :> ("x" :> "v2")
                @@ w2 :> ("x" :> "w2") @@ v3 :> ("x" :> "v3")
MCDimensionOf == "v2" :> 2 @@ "w2" :> 2 @@ "v3" :> 3
MCSidecarOf == "x" :> "x.hnsw"
MCVectorNames == {"x"}

Node(n, body, vectors) == [id |-> n, value |-> [body |-> body, vectors |-> vectors]]
Edge(s, t) == [id |-> e, value |-> [source |-> s, target |-> t]]
Upsert(n, body, vectors) ==
    [EmptyBatch EXCEPT !.nodes_upserted = <<Node(n, body, vectors)>>]
DeleteNode(n) == [EmptyBatch EXCEPT !.deleted_node_ids = {n}]

MCSingleWrites ==
    {Upsert(a, q, w2), DeleteNode(a),
     [EmptyBatch EXCEPT !.deleted_edge_ids = {e}]}

\* Sessions that create both nodes and their edge, that give both nodes one
\* key and vectors of two lengths, and that move the edge away from a node or
\* onto one before they delete it.
MCSessions ==
    {[EmptyBatch EXCEPT
        !.nodes_upserted = <<Node(a, p, v2), Node(b, q, w2)>>,
        !.edges_upserted = <<Edge(a, b)>>],
     [EmptyBatch EXCEPT
        !.nodes_upserted = <<Node(a, p, v2), Node(b, p, v3)>>],
     [EmptyBatch EXCEPT !.edges_upserted = <<Edge(b, b)>>,
                        !.deleted_node_ids = {a}],
     [EmptyBatch EXCEPT !.edges_upserted = <<Edge(b, b), Edge(a, b)>>,
                        !.deleted_node_ids = {a}]}

MCBatches == MCSingleWrites \cup MCSessions
=============================================================================
