------------------------------ MODULE MCStorage -----------------------------
(* Storage on a small instance: three nodes, one of them in a namespace of *)
(* its own, one edge, one body and two vector maps.                        *)
EXTENDS Storage

CONSTANTS a, b, c, e, body, none, vec

MCNodeIds == {a, b, c}
MCNamespaceOf == [n \in MCNodeIds |-> IF n = c THEN 2 ELSE 1]

Plain(n) == [id |-> n, value |-> [body |-> body, vectors |-> none]]
Embedded(n) == [id |-> n, value |-> [body |-> body, vectors |-> vec]]
Link(s, t) == [id |-> e, value |-> [source |-> s, target |-> t]]

\* Two nodes; one of them with vectors; an edge between them; the delete that
\* takes the edge with it; an edge across namespaces together with its node.
MCBatches ==
    {[EmptyBatch EXCEPT !.nodes_upserted = << Plain(a), Plain(b) >>],
     [EmptyBatch EXCEPT !.nodes_upserted = << Embedded(b) >>],
     [EmptyBatch EXCEPT !.edges_upserted = << Link(a, b) >>],
     [EmptyBatch EXCEPT !.deleted_node_ids = {a}],
     [EmptyBatch EXCEPT !.nodes_upserted = << Plain(b), Plain(c) >>,
                        !.edges_upserted = << Link(b, c) >>]}

\* Only what makes one batch depend on another: nodes, an edge, the delete.
MCDependentBatches ==
    {[EmptyBatch EXCEPT !.nodes_upserted = << Plain(a), Embedded(b) >>],
     [EmptyBatch EXCEPT !.edges_upserted = << Link(a, b) >>],
     [EmptyBatch EXCEPT !.deleted_node_ids = {a}]}

\* Nodes of both namespaces, an edge inside one and an edge across them.
MCNamespaceBatches ==
    {[EmptyBatch EXCEPT !.nodes_upserted = << Plain(a), Embedded(b) >>],
     [EmptyBatch EXCEPT !.edges_upserted = << Link(a, b) >>],
     [EmptyBatch EXCEPT !.nodes_upserted = << Plain(b), Plain(c) >>,
                        !.edges_upserted = << Link(b, c) >>]}
=============================================================================
