---------------------------- MODULE MCMaintenance ---------------------------
(* Two nodes with the same unique key, one of them stale, and an edge.      *)
EXTENDS Maintenance

CONSTANTS a, b, e, key, none

\* Bound: nothing is claimed of a store once it is broken or has lost a batch,
\* so it is not followed further.
Claimed == ~broken /\ exposure # "lost"

MCNodeOrder == << a, b >>
MCMergeKeys == << key >>
MCNamespaceOf == [n \in {a, b} |-> 1]
MCBodies ==
    [key : {key, None}, importance : 0 .. 2, stale : BOOLEAN,
     archived : BOOLEAN, merged_into : {None, a, b}]

Memo(n, old) ==
    [id |-> n, value |-> [body |-> [key |-> key, importance |-> 2, stale |-> old,
                                    archived |-> FALSE, merged_into |-> None],
                          vectors |-> none]]

Link == [id |-> e, value |-> [source |-> a, target |-> b]]

\* Two nodes and the edge between them; the edge alone; the delete of a node.
MCBatches ==
    {[EmptyBatch EXCEPT !.nodes_upserted = << Memo(a, TRUE), Memo(b, FALSE) >>,
                        !.edges_upserted = << Link >>],
     [EmptyBatch EXCEPT !.edges_upserted = << Link >>],
     [EmptyBatch EXCEPT !.deleted_node_ids = {b}]}
=============================================================================
