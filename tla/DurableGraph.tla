---------------------------- MODULE DurableGraph ----------------------------
(***************************************************************************)
(* What the storage engine promises its callers: one graph, changed only   *)
(* by whole accepted batches, the same after every restart as before it.   *)
(* Nothing of files, logs, checkpoints or compaction is visible here.      *)
(***************************************************************************)
EXTENDS Graph

CONSTANT Batches        \* the batches clients submit

VARIABLES
    store,              \* the graph every acknowledged batch has built
    up                  \* an engine is open and serves requests

dgVars == << store, up >>

DGInit == store = EmptyGraph /\ up = TRUE

\* An acknowledged write.
Commit(b) ==
    /\ up
    /\ b # EmptyBatch
    /\ Normalized(b)
    /\ validate_batch_against_maps(store, b)
    /\ store' = apply_batch_to_maps_unchecked(store, b)
    /\ up' = up

\* The process ends, at any moment and for any reason.
Stop == up /\ up' = FALSE /\ store' = store

\* It comes back with the graph it had acknowledged.
Start == ~up /\ up' = TRUE /\ store' = store

DGNext == (\E b \in Batches : Commit(b)) \/ Stop \/ Start

DGSpec == DGInit /\ [][DGNext]_dgVars
=============================================================================
