--------------------------- MODULE MCTransactions ---------------------------
(* Transactions on a small instance: two nodes, one edge, one body and two *)
(* vector maps, opened on a graph that holds both nodes and the edge.      *)
EXTENDS Transactions, TLC

CONSTANTS a, b, e, body, none, vec

MCNodeIds == {a, b}
MCNamespaceOf == [n \in MCNodeIds |-> 1]

MCInitialGraphs ==
    {[k \in Keys |-> IF k = e THEN [source |-> a, target |-> b]
                     ELSE [body |-> body, vectors |-> none]]}

Plain(n) == [id |-> n, value |-> [body |-> body, vectors |-> none]]
Embedded(n) == [id |-> n, value |-> [body |-> body, vectors |-> vec]]
Link(s, t) == [id |-> e, value |-> [source |-> s, target |-> t]]

\* Concurrent direct writes: a changed node, the delete that takes the edge
\* with it, and both nodes back with the edge turned round.
MCBatches ==
    {[EmptyBatch EXCEPT !.nodes_upserted = << Embedded(a) >>],
     [EmptyBatch EXCEPT !.deleted_node_ids = {a}],
     [EmptyBatch EXCEPT !.nodes_upserted = << Plain(a), Plain(b) >>,
                        !.edges_upserted = << Link(b, a) >>]}

\* Session identifiers are interchangeable.
MCSymmetry == Permutations(TransactionIds)
=============================================================================
