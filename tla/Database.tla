------------------------------ MODULE Database ------------------------------
(***************************************************************************)
(* Database (crates/api/src/lib.rs): the storage engine, the index, the    *)
(* published snapshot that queries read, and the index files on disk, kept *)
(* in step by every operation.                                             *)
(*                                                                         *)
(* The engine is what Storage shows it to be, seen from above: a graph, the*)
(* LSNs it hands out, the LSN and clean flag of its manifest, and the      *)
(* graph that a recovery would give.  Operations run under the database    *)
(* lock; a query holds the snapshot it took and reads it without the lock. *)
(***************************************************************************)
EXTENDS Index

CONSTANTS
    Batches,        \* batches of single writes and of committed sessions
    Faults,         \* "metadata_write", "sidecar_write", "vector_set"
    MaxWrites,      \* bound: batches applied
    MaxRestarts,    \* bound: times the process is started again
    MaxRebuilds     \* bound: rebuilds and compactions

ASSUME DatabaseAssumption ==
    /\ Batches \subseteq WriteBatches
    /\ MaxWrites \in Nat
    /\ MaxRestarts \in Nat
    /\ MaxRebuilds \in Nat

VARIABLES
    \* --- the engine
    graph,              \* nodes and edges
    next_lsn,
    latest_applied_lsn,
    manifest,           \* its LSN, last_clean_shutdown, generation of the LSN
    recoverable,        \* the graph an opening gives, Absent: none
    \* --- memory of the database
    pc,
    indexes,
    published,          \* published_snapshot: maps and a clone of the index
    pinned,             \* the snapshot a running query holds, or Absent
    heap,               \* contents of the HNSW runtimes, shared by clones
    \* --- index files
    vector_manifest,    \* vector_index manifest, or Absent
    sidecars,           \* contents of the files of vector spaces
    \* --- history and bounds
    suspect,            \* keys that published and index may have wrong
    collided,           \* unique keys that two live nodes had
    mixed,              \* names that had vectors of two lengths
    touched,            \* nodes written since the running query began
    stale_load,         \* sidecars of another graph were loaded
    generation,         \* compactions so far: LSNs restart at 1 after each
    epoch,              \* generation of latest_applied_lsn
    sidecars_of,        \* position and quality of the index in the sidecars
    writes, restarts, rebuilds

engine == << graph, next_lsn, latest_applied_lsn, manifest, recoverable >>
files == << vector_manifest, sidecars >>
history == << suspect, collided, mixed, touched, stale_load >>
bounds == << writes, restarts, rebuilds >>
vars == << engine, pc, indexes, published, pinned, heap, files, history,
           generation, epoch, sidecars_of, bounds >>

Sidecars == {SidecarOf[name] : name \in VectorNames}
NoRuntimes == [name \in VectorNames |-> [r \in Refs |-> EmptyContent]]
NoFiles == [f \in Sidecars |-> Absent]
EmptyIndex ==
    [structure |-> RebuiltStructure(EmptyGraph),
     spaces |-> [name \in VectorNames |-> NoSpace], max_nodes |-> 0]

-----------------------------------------------------------------------------
(* Building indexes                                                        *)

\* References that no clone of a space holds.
Free(name) ==
    {r \in Refs : /\ indexes.spaces[name].runtime # r
                  /\ published.index.spaces[name].runtime # r
                  /\ pinned # Absent => pinned.index.spaces[name].runtime # r}
Fresh(name) == CHOOSE r \in Free(name) : TRUE

\* GraphIndex::rebuild_with_config.
Rebuilt(g) ==
    [structure |-> RebuiltStructure(g),
     spaces |-> [name \in VectorNames |-> RebuiltSpace(g, name, Fresh(name))],
     max_nodes |-> Cardinality(LiveNodes(g))]

\* Mutant: a rebuild takes the old runtimes away from running queries.
HeapInPlace(g) ==
    [name \in VectorNames |-> [r \in Refs |->
        IF r = RebuiltSpace(g, name, Fresh(name)).runtime
        THEN BuiltContent(g, name) ELSE EmptyContent]]

\* The runtimes after a rebuild: the new ones, and those of a running query.
HeapWith(g) ==
    [name \in VectorNames |-> [r \in Refs |->
        IF r = RebuiltSpace(g, name, Fresh(name)).runtime
        THEN BuiltContent(g, name)
        ELSE IF pinned # Absent /\ r = pinned.index.spaces[name].runtime
        THEN heap[name][r] ELSE EmptyContent]]

\* Mutant: the generation of the files is not compared.
MatchesAnyGeneration(index, expected) ==
    /\ vector_manifest # Absent
    /\ vector_manifest.spaces =
         [name \in VectorNames |->
            [count |-> Cardinality(index.spaces[name].candidates),
             dimension |-> index.spaces[name].dimension]]

\* matches_manifest: the files belong to this LSN and to an index like this.
matches_manifest(index, expected) ==
    /\ vector_manifest # Absent
    /\ vector_manifest.lsn = expected
    /\ vector_manifest.max_nodes = index.max_nodes
    /\ vector_manifest.spaces =
         [name \in VectorNames |->
            [count |-> Cardinality(index.spaces[name].candidates),
             dimension |-> index.spaces[name].dimension]]

\* refresh_indexes and build_snapshot: index and snapshot from the engine.
Refresh ==
    /\ \A name \in VectorNames : Free(name) # {}
    /\ indexes' = Rebuilt(graph)
    /\ published' = [graph |-> graph, index |-> Rebuilt(graph)]
    /\ heap' = HeapWith(graph)
    /\ suspect' = {}
    /\ collided' = {key \in UniqueKeys : Cardinality(Owners(graph, key)) > 1}
    /\ mixed' = {name \in VectorNames :
                    indexes'.spaces[name].candidates # Holders(graph, name)}
    /\ stale_load' = (stale_load /\ pinned # Absent)

-----------------------------------------------------------------------------
(* Writes                                                                  *)

\* Mutant: a removed record stays in the published maps.
SnapshotGraphKeepsRemoved(m) ==
    [k \in Keys |-> IF Live(m.added, k) THEN m.added[k] ELSE published.graph[k]]

\* snapshot_with_mutation on the published maps.
SnapshotGraph(m) == MutatedGraph(published.graph, m)

\* Mutants: the snapshot's index, or its unique keys, are left as they were.
SnapshotIndexUnchanged(m, after) == published.index
SnapshotKeysUnchanged(m, after) ==
    [structure |-> [MutatedStructure(published.index.structure, m) EXCEPT
                      !.unique_key = published.index.structure.unique_key],
     spaces |-> after, max_nodes |-> published.index.max_nodes]

\* The index in the published snapshot, a clone that is mutated on its own.
SnapshotIndex(m, after) ==
    [structure |-> MutatedStructure(published.index.structure, m),
     spaces |-> after, max_nodes |-> published.index.max_nodes]

\* apply_batch_mutation: both clones take the mutation, one after the other,
\* and both write through to the runtimes they share.
ApplyMutation(m, full) ==
    LET own(name) ==
            LET s == indexes.spaces[name]
            IN  MutatedSpace(s, IF s.runtime = 0 THEN EmptyContent
                                ELSE heap[name][s.runtime], name, m, full)
        heapAfter(name) ==
            [r \in Refs |-> IF r = indexes.spaces[name].runtime
                            THEN own(name).content ELSE heap[name][r]]
        clone(name) ==
            LET s == published.index.spaces[name]
            IN  MutatedSpace(s, IF s.runtime = 0 THEN EmptyContent
                                ELSE heapAfter(name)[s.runtime], name, m, full)
    IN  /\ indexes' = [indexes EXCEPT
                        !.structure = MutatedStructure(@, m),
                        !.spaces = [name \in VectorNames |-> own(name).space]]
        /\ published' =
             [graph |-> SnapshotGraph(m),
              index |-> SnapshotIndex(m,
                            [name \in VectorNames |-> clone(name).space])]
        /\ heap' = [name \in VectorNames |->
                      [r \in Refs |->
                         IF r = published.index.spaces[name].runtime
                         THEN clone(name).content ELSE heapAfter(name)[r]]]

Accepted(b) ==
    Normalized(b) /\ b # EmptyBatch /\ validate_batch_against_maps(graph, b)

\* StorageEngine::apply_write_batch; recovery replays a record only if its LSN
\* is above the manifest's, and fails if the record does not fit.
EngineApply(b) ==
    /\ graph' = apply_batch_to_maps_unchecked(graph, b)
    /\ latest_applied_lsn' = next_lsn
    /\ next_lsn' = next_lsn + 1
    /\ epoch' = generation
    /\ recoverable' =
         IF recoverable = Absent \/ next_lsn <= manifest.lsn THEN recoverable
         ELSE IF validate_batch_against_maps(recoverable, b)
         THEN apply_batch_to_maps_unchecked(recoverable, b) ELSE Absent
    /\ UNCHANGED << manifest, generation, sidecars_of >>

\* What the history variables learn from a batch.
Observe(b) ==
    /\ collided' = collided \cup
         {key \in UniqueKeys : Cardinality(Owners(graph', key)) > 1}
    /\ mixed' = mixed \cup
         {name \in VectorNames : \E n, o \in Holders(graph', name) :
            DimensionOf[Vec(graph'[n], name)] # DimensionOf[Vec(graph'[o], name)]}
    /\ touched' = IF pinned = Absent THEN touched
                  ELSE touched \cup (batch_effects(graph, b) \cap NodeIds)

\* upsert_node, delete_node, upsert_edge, delete_edge and commit_transaction:
\* plan, engine, replication metadata, index and snapshot.
Write(b) ==
    /\ pc = "ready"
    /\ writes < MaxWrites
    /\ Accepted(b)
    /\ EngineApply(b)
    /\ \E full \in {FALSE} \cup {"vector_set" \in Faults} :
          ApplyMutation(plan_batch_mutation(graph, b), full)
    /\ suspect' = suspect \cup Rewired(graph, b)
    /\ Observe(b)
    /\ writes' = writes + 1
    /\ UNCHANGED << pc, pinned, files, stale_load, restarts, rebuilds >>

\* record_local_commit cannot write the metadata: the call returns an error,
\* the engine has committed, index and snapshot are left as they were.
WriteUnrecorded(b) ==
    /\ pc = "ready"
    /\ "metadata_write" \in Faults
    /\ writes < MaxWrites
    /\ Accepted(b)
    /\ EngineApply(b)
    /\ suspect' = suspect \cup batch_effects(graph, b)
    /\ Observe(b)
    /\ writes' = writes + 1
    /\ UNCHANGED << pc, indexes, published, pinned, heap, files, stale_load,
                    restarts, rebuilds >>

-----------------------------------------------------------------------------
(* Rebuild, compaction, shutdown                                           *)

rebuild_indexes ==
    /\ pc = "ready"
    /\ rebuilds < MaxRebuilds
    /\ rebuilds' = rebuilds + 1
    /\ Refresh
    /\ pc' = "persist_files"
    /\ UNCHANGED << engine, pinned, files, touched, generation, epoch,
                    sidecars_of, writes, restarts >>

\* StorageEngine::compact publishes a clean manifest and restarts the LSNs.
compact ==
    /\ pc = "ready"
    /\ rebuilds < MaxRebuilds
    /\ rebuilds' = rebuilds + 1
    /\ latest_applied_lsn' = next_lsn
    /\ manifest' = [lsn |-> next_lsn, clean |-> TRUE, epoch |-> generation]
    /\ recoverable' = graph
    /\ next_lsn' = 1
    /\ epoch' = generation
    /\ generation' = generation + 1
    /\ pc' = "refresh"
    /\ UNCHANGED << graph, indexes, published, pinned, heap, files, history,
                    sidecars_of, writes, restarts >>

\* Database::compact goes on with refresh_indexes.
RefreshAfterCompaction ==
    /\ pc = "refresh"
    /\ Refresh
    /\ pc' = "persist_files"
    /\ UNCHANGED << engine, pinned, files, touched, generation, epoch,
                    sidecars_of, bounds >>

\* The engine's part of graceful_shutdown, a clean checkpoint.
graceful_shutdown ==
    /\ pc = "ready"
    /\ latest_applied_lsn' = next_lsn
    /\ next_lsn' = next_lsn + 1
    /\ manifest' = [lsn |-> next_lsn, clean |-> TRUE, epoch |-> generation]
    /\ recoverable' = graph
    /\ epoch' = generation
    /\ pc' = "persist_files_and_stop"
    /\ UNCHANGED << graph, indexes, published, pinned, heap, files, history,
                    generation, sidecars_of, bounds >>

-----------------------------------------------------------------------------
(* persist_index_snapshot                                                  *)

\* The index lacks a write of a node.
Loose == suspect \cap NodeIds # {}

WithRuntime == {name \in VectorNames : indexes.spaces[name].runtime # 0}

\* The file is written once for each space that maps to it; the last stays.
FilesOf(names) ==
    {fs \in [Sidecars -> UNION {{heap[name][indexes.spaces[name].runtime]} :
                                   name \in names} \cup {Absent}] :
        \A f \in Sidecars :
            IF \E name \in names : SidecarOf[name] = f
            THEN \E name \in names :
                    /\ SidecarOf[name] = f
                    /\ fs[f] = heap[name][indexes.spaces[name].runtime]
            ELSE fs[f] = Absent}

\* The files of these spaces have been written, all others are gone.
Replaced(names) ==
    /\ sidecars' \in FilesOf(names)
    /\ sidecars_of' = [lsn |-> latest_applied_lsn, epoch |-> epoch,
                       loose |-> Loose \/ stale_load]

\* Writing the files ended early: some old files are left, or some new ones.
PartlyReplaced ==
    \/ /\ \E kept \in SUBSET Sidecars : sidecars' = [f \in Sidecars |->
             IF f \in kept THEN sidecars[f] ELSE Absent]
       /\ UNCHANGED sidecars_of
    \/ \E names \in SUBSET WithRuntime : Replaced(names)

\* The memory of a process that has ended.
Stopped ==
    /\ pc' = "down"
    /\ graph' = EmptyGraph
    /\ indexes' = EmptyIndex
    /\ published' = [graph |-> EmptyGraph, index |-> EmptyIndex]
    /\ pinned' = Absent
    /\ heap' = NoRuntimes
    /\ suspect' = {} /\ collided' = {} /\ mixed' = {} /\ touched' = {}
    /\ stale_load' = FALSE

\* An operation goes back to serving, a shutdown ends the process.
Finished ==
    \/ /\ pc \in {"persist_files", "persist_manifest"}
       /\ pc' = "ready"
       /\ UNCHANGED << graph, indexes, published, pinned, heap, history >>
    \/ /\ pc \in {"persist_files_and_stop", "persist_manifest_and_stop"}
       /\ Stopped

\* The files of the spaces are removed and written again; without a runtime
\* the manifest goes as well.
PersistFiles ==
    /\ pc \in {"persist_files", "persist_files_and_stop"}
    /\ Replaced(WithRuntime)
    /\ IF WithRuntime = {}
       THEN vector_manifest' = Absent /\ Finished
       ELSE /\ pc' = IF pc = "persist_files" THEN "persist_manifest"
                     ELSE "persist_manifest_and_stop"
            /\ UNCHANGED << vector_manifest, graph, indexes, published, pinned,
                            heap, history >>
    /\ UNCHANGED << next_lsn, latest_applied_lsn, manifest, recoverable,
                    generation, epoch, bounds >>

\* The manifest comes last, and only lists spaces that have a runtime.
PersistManifest ==
    /\ pc \in {"persist_manifest", "persist_manifest_and_stop"}
    /\ vector_manifest' =
         [lsn |-> latest_applied_lsn, max_nodes |-> indexes.max_nodes,
          spaces |-> [name \in VectorNames |->
             IF name \in WithRuntime
             THEN [count |-> Cardinality(indexes.spaces[name].candidates),
                   dimension |-> indexes.spaces[name].dimension]
             ELSE [count |-> 0, dimension |-> 0]],
          epoch |-> epoch]
    /\ Finished
    /\ UNCHANGED << next_lsn, latest_applied_lsn, manifest, recoverable,
                    sidecars, generation, epoch, sidecars_of, bounds >>

\* A file cannot be written: the operation returns an error, what it did to
\* the engine and to memory stays.
PersistFails ==
    /\ "sidecar_write" \in Faults
    /\ pc \in {"persist_files", "persist_manifest"}
    /\ IF pc = "persist_files" THEN PartlyReplaced
       ELSE UNCHANGED << sidecars, sidecars_of >>
    /\ pc' = "ready"
    /\ UNCHANGED << engine, indexes, published, pinned, heap, vector_manifest,
                    history, generation, epoch, bounds >>

-----------------------------------------------------------------------------
(* Stopping, opening, reading                                              *)

Crash ==
    /\ pc # "down"
    /\ IF pc \in {"persist_files", "persist_files_and_stop"} THEN PartlyReplaced
       ELSE UNCHANGED << sidecars, sidecars_of >>
    /\ Stopped
    /\ UNCHANGED << next_lsn, latest_applied_lsn, manifest, recoverable,
                    vector_manifest, generation, epoch, bounds >>

\* Recovery finds records above the manifest.
Replayed == latest_applied_lsn > manifest.lsn

\* The index of the recovered graph, in a heap that is still empty.
FirstRef == CHOOSE r \in Refs : TRUE
BaseIndex ==
    [structure |-> RebuiltStructure(recoverable),
     spaces |-> [name \in VectorNames |->
                   RebuiltSpace(recoverable, name, FirstRef)],
     max_nodes |-> Cardinality(LiveNodes(recoverable))]

\* The files are tried only after a clean stop with nothing replayed.
LoadsFiles ==
    manifest.clean /\ ~Replayed /\ matches_manifest(BaseIndex, manifest.lsn)

\* try_load_runtime: the spaces whose runtime comes from a file.  The first
\* missing file ends the loading, in an order of names that is left open.
Loadable ==
    LET wanted == {name \in VectorNames : BaseIndex.spaces[name].candidates # {}}
        present == {name \in wanted : sidecars[SidecarOf[name]] # Absent}
    IN  IF ~LoadsFiles THEN {{}}
        ELSE IF present = wanted THEN {wanted} ELSE SUBSET present

OpenedSpace(name, loaded) ==
    IF name \in loaded THEN [BaseIndex.spaces[name] EXCEPT !.runtime = FirstRef]
    ELSE BaseIndex.spaces[name]
OpenedContent(name, loaded) ==
    IF name \in loaded THEN sidecars[SidecarOf[name]]
    ELSE IF BaseIndex.spaces[name].runtime = FirstRef
    THEN BuiltContent(recoverable, name) ELSE EmptyContent

\* open_with_identity: the runtimes that were not loaded are built.
Reopen ==
    /\ pc = "down"
    /\ restarts < MaxRestarts
    /\ recoverable # Absent
    /\ restarts' = restarts + 1
    /\ graph' = recoverable
    /\ latest_applied_lsn' = IF Replayed THEN latest_applied_lsn ELSE manifest.lsn
    /\ epoch' = IF Replayed THEN epoch ELSE manifest.epoch
    /\ \E loaded \in Loadable :
         /\ indexes' = [BaseIndex EXCEPT !.spaces =
                          [name \in VectorNames |-> OpenedSpace(name, loaded)]]
         /\ heap' = [name \in VectorNames |->
              [NoRuntimes[name] EXCEPT ![FirstRef] = OpenedContent(name, loaded)]]
    /\ published' = [graph |-> recoverable, index |-> indexes']
    /\ collided' = {key \in UniqueKeys :
                      Cardinality(Owners(recoverable, key)) > 1}
    /\ mixed' = {name \in VectorNames :
                   BaseIndex.spaces[name].candidates # Holders(recoverable, name)}
    /\ stale_load' = (/\ LoadsFiles
                      /\ \/ vector_manifest.epoch # manifest.epoch
                         \/ sidecars_of.epoch # manifest.epoch
                         \/ sidecars_of.loose)
    /\ pc' = "persist_files"
    /\ UNCHANGED << next_lsn, manifest, recoverable, pinned, files, suspect,
                    touched, generation, sidecars_of, writes, rebuilds >>

\* Database::snapshot: a query takes the published snapshot, and lets it go.
Pin ==
    /\ pc = "ready"
    /\ pinned = Absent
    /\ pinned' = published
    /\ touched' = {}
    /\ UNCHANGED << engine, pc, indexes, published, heap, files, suspect,
                    collided, mixed, stale_load, generation, epoch, sidecars_of,
                    bounds >>

Unpin ==
    /\ pinned # Absent
    /\ pinned' = Absent
    /\ heap' = [name \in VectorNames |-> [r \in Refs |->
                  IF r = published.index.spaces[name].runtime
                  THEN heap[name][r] ELSE EmptyContent]]
    /\ touched' = {}
    /\ UNCHANGED << engine, pc, indexes, published, files, suspect,
                    collided, mixed, stale_load, generation, epoch, sidecars_of,
                    bounds >>

Init ==
    /\ graph = EmptyGraph
    /\ next_lsn = 1
    /\ latest_applied_lsn = 0
    /\ manifest = [lsn |-> 0, clean |-> FALSE, epoch |-> 0]
    /\ recoverable = EmptyGraph
    /\ pc = "ready"
    /\ indexes = EmptyIndex
    /\ published = [graph |-> EmptyGraph, index |-> EmptyIndex]
    /\ pinned = Absent
    /\ heap = NoRuntimes
    /\ vector_manifest = Absent
    /\ sidecars = NoFiles
    /\ suspect = {}
    /\ collided = {}
    /\ mixed = {}
    /\ touched = {}
    /\ stale_load = FALSE
    /\ generation = 0
    /\ epoch = 0
    /\ sidecars_of = [lsn |-> 0, epoch |-> 0, loose |-> FALSE]
    /\ writes = 0
    /\ restarts = 0
    /\ rebuilds = 0

Next ==
    \/ \E b \in Batches : Write(b) \/ WriteUnrecorded(b)
    \/ rebuild_indexes \/ compact \/ RefreshAfterCompaction
    \/ graceful_shutdown
    \/ PersistFiles \/ PersistManifest \/ PersistFails
    \/ Crash \/ Reopen
    \/ Pin \/ Unpin

Spec == Init /\ [][Next]_vars

-----------------------------------------------------------------------------
(* Properties                                                              *)

Up == pc # "down"

\* What queries read is what the engine holds: the published maps agree with
\* the engine's, except on the keys of a write whose metadata could not be
\* recorded and on rewired edges, until the next rebuild.
PublishedIsEngine ==
    Up => \A k \in Keys \ suspect : published.graph[k] = graph[k]

\* Without faults queries read what the engine holds after every write and
\* every committed session (docs/api/http.md:741).
CommittedIsPublished == Up => published.graph = graph

Agrees(index) ==
    LET s == index.structure
        r == RebuiltStructure(graph)
    IN  /\ \A n \in NodeIds \ suspect :
             /\ n \in s.node_ids <=> n \in r.node_ids
             /\ \A bucket \in UNION {BucketsOf[body] : body \in Bodies} :
                   <<bucket, n>> \in s.buckets <=> <<bucket, n>> \in r.buckets
        /\ \A n \in NodeIds, e \in EdgeIds \ suspect :
             /\ <<n, e>> \in s.adjacency <=> <<n, e>> \in r.adjacency
             /\ <<n, e>> \in s.reverse_adjacency
                   <=> <<n, e>> \in r.reverse_adjacency
        /\ Loose \/ \A name \in VectorNames \ mixed :
             index.spaces[name].candidates = Holders(graph, name)

\* Any sequence of incremental updates leaves the labels, the timestamps, the
\* adjacency and the vector candidates that a rebuild from the engine would
\* give, in the index and in the clone the snapshot carries.
IndexIsRebuilt == Up => Agrees(indexes) /\ Agrees(published.index)

\* A unique_key finds only a node that has it, and finds every node whose key
\* was never shared since the last rebuild.
KeyLookup ==
    Up => \A key \in UniqueKeys :
        LET n == lookup_unique_key(published.index.structure, key)
        IN  /\ n \in NodeIds \ suspect => n \in Owners(graph, key)
            /\ key \notin collided =>
                  \A o \in Owners(graph, key) \ suspect : n = o

\* No other space has the same file.
Unshared(name) ==
    \A other \in VectorNames : SidecarOf[other] = SidecarOf[name] => other = name

\* A vector search looks at today's vectors: the runtime of a space holds
\* exactly what the nodes hold, whether it was built, updated in place or
\* loaded from the files of an earlier process.
RuntimeIsCurrent ==
    (Up /\ ~Loose /\ ~stale_load) =>
        \A name \in VectorNames :
            LET r == published.index.spaces[name].runtime
            IN  Unshared(name) /\ r # 0 => heap[name][r] = BuiltContent(graph, name)

\* A query keeps reading the snapshot it took: its maps never change, and the
\* runtime it shares with later snapshots still finds every node that was not
\* written meanwhile under the vector the query's snapshot has.
PinnedSearchStable ==
    (Up /\ pinned # Absent /\ ~stale_load) =>
        \A name \in VectorNames :
            LET r == pinned.index.spaces[name].runtime
            IN  Unshared(name) /\ r # 0 =>
                  \A n \in NodeIds \ touched :
                      heap[name][r][n] = BuiltContent(pinned.graph, name)[n]

\* transaction_delta_from_current of a session that has staged the batch.
SessionDelta(b) ==
    LET visible == apply_batch_to_maps_unchecked(graph, b)
        part(g) == [k \in Keys |-> IF visible[k] # graph[k] THEN g[k] ELSE Absent]
    IN  [removed |-> part(graph), added |-> part(visible)]

\* A session reads before its commit what everyone reads after it: the overlay
\* of its staged batch on the published snapshot gives the lookups that the
\* index gives once the batch is committed.
OverlayAgreesWithCommit ==
    (pc = "ready" /\ suspect = {}) =>
        \A b \in Batches :
            (Accepted(b) /\ Rewired(graph, b) = {}) =>
            LET d == SessionDelta(b)
                base == published.index.structure
                later == MutatedStructure(base, plan_batch_mutation(graph, b))
            IN  /\ \A bucket \in UNION {BucketsOf[body] : body \in Bodies} :
                     OverlayByBucket(published.graph, base, d, bucket)
                        = ByBucket(later, bucket)
                /\ \A n \in NodeIds : OverlayEdgesFor(published.graph, base, d, n)
                                         = EdgesFor(later, n)
                /\ \A key \in UniqueKeys :
                     (key \notin collided
                        /\ Cardinality(Owners(Overlaid(graph, d), key)) <= 1) =>
                     OverlayLookup(published.graph, base, d, key)
                        = lookup_unique_key(later, key)
=============================================================================
