---------------------------- MODULE MCReplication ---------------------------
(* Two databases; clients create a node, link it to itself and delete it.   *)
EXTENDS Replication, TLC

CONSTANTS a, e, p, n1, n2

MCNamespaceOf == a :> "default"
MCBatches ==
    {[EmptyBatch EXCEPT !.nodes_upserted =
        << [id |-> a, value |-> [body |-> p, vectors |-> NoVectors]] >>],
     [EmptyBatch EXCEPT !.edges_upserted =
        << [id |-> e, value |-> [source |-> a, target |-> a]] >>],
     [EmptyBatch EXCEPT !.deleted_node_ids = {a}]}

Symmetry == Permutations({n1, n2})
=============================================================================
