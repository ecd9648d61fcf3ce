---------------------------- MODULE Transactions ----------------------------
(***************************************************************************)
(* The transaction layer of StorageEngine (crates/storage/src/lib.rs)      *)
(* during one life of the process: sessions that read a snapshot, stage    *)
(* operations on top of it and commit them as one batch, beside direct     *)
(* writes, checkpoints and compactions.  A session reads the revision it   *)
(* began at: the live value of a key that has not changed since, and       *)
(* otherwise an entry of the version history that writers keep for as long *)
(* as a session is open.                                                   *)
(*                                                                         *)
(* Revisions are WAL LSNs.  A restart ends every session, so the initial   *)
(* states are those that StorageEngine::open leaves.                       *)
(***************************************************************************)
EXTENDS Graph

CONSTANTS
    Batches,            \* batches written outside transactions
    InitialGraphs,      \* graphs the engine may have been opened on
    InitialRevision,    \* the LSN recovery reached
    MaxLsn,             \* bound: LSNs of this life
    TransactionIds,     \* identifiers of sessions, at most so many are open
    MaxStaged,          \* bound: operations staged in one session
    MaxCompactions,     \* bound: compactions, before and after opening
    LogFailures         \* TRUE: Wal::append may fail

ASSUME TransactionsAssumption ==
    /\ Batches \subseteq WriteBatches
    /\ InitialGraphs \subseteq {g \in Graphs : Closed(g)}
    /\ InitialRevision \in Nat
    /\ MaxLsn \in Nat
    /\ MaxStaged \in Nat
    /\ MaxCompactions \in Nat
    /\ LogFailures \in BOOLEAN

NoRevision == -1        \* the lineage map has no entry

VARIABLES
    graph,              \* nodes and edges
    lineage,            \* node_lineage and edge_lineage
    versions,           \* node_versions and edge_versions
    commit_revision,
    next_lsn,           \* of the WAL
    transactions,       \* open sessions
    compactions         \* bound

vars == << graph, lineage, versions, commit_revision, next_lsn, transactions,
           compactions >>

-----------------------------------------------------------------------------
(* Types                                                                   *)

Values    == NodeRecords \cup EdgeRecords \cup {Absent}
Revisions == Nat \cup {NoRevision}
Histories == Seq([revision : Nat, value : Values])

\* overridden: the keys of node_overrides and edge_overrides; overrides: their
\* values, Absent for a staged delete.  snapshot is history: the graph at the
\* moment the session began.
Sessions ==
    [started    : Nat,
     overridden : SUBSET Keys,
     overrides  : [Keys -> Values],
     staged     : WriteBatches,
     touched    : SUBSET Keys,
     snapshot   : [Keys -> Values]]

TypeOK ==
    /\ graph \in Graphs
    /\ lineage \in [Keys -> Revisions]
    /\ versions \in [Keys -> Histories]
    /\ commit_revision \in Nat
    /\ next_lsn \in Nat \ {0}
    /\ transactions \in [TransactionIds -> Sessions \cup {Absent}]
    /\ compactions \in Nat

Open == {t \in TransactionIds : transactions[t] # Absent}

-----------------------------------------------------------------------------
(* Versions                                                                *)

\* The newest entry of a history at or before the revision.
LatestVersion(h, revision) ==
    LET old == {i \in DOMAIN h : h[i].revision <= revision}
    IN  IF old = {} THEN Absent
        ELSE h[CHOOSE i \in old : \A j \in old : j <= i].value

\* A key the lineage does not place at or before the revision is looked up in
\* its history.
visible_value_at_revision(k, revision) ==
    IF lineage[k] # NoRevision /\ lineage[k] <= revision
    THEN graph[k]
    ELSE LatestVersion(versions[k], revision)

append_version_entry(h, revision, value) ==
    LET entry == [revision |-> revision, value |-> value]
    IN  IF h # << >> /\ h[Len(h)].revision = revision
        THEN [h EXCEPT ![Len(h)] = entry]
        ELSE Append(h, entry)

preserve_historical_versions(effects) ==
    [k \in Keys |->
        IF k \in effects /\ lineage[k] # NoRevision
        THEN append_version_entry(versions[k], lineage[k], graph[k])
        ELSE versions[k]]

record_versions_after_commit(history, effects, after, revision) ==
    [k \in Keys |->
        IF k \in effects
        THEN append_version_entry(history[k], revision, after[k])
        ELSE history[k]]

\* A touched edge that the batch leaves without a record gets no lineage
\* unless it already had one.
update_lineage_for_batch(effects, after, revision) ==
    [k \in Keys |->
        IF /\ k \in effects
           /\ k \in NodeIds \/ Live(after, k) \/ lineage[k] # NoRevision
        THEN revision ELSE lineage[k]]

-----------------------------------------------------------------------------
(* What a session reads                                                    *)

\* transaction_node_visible and transaction_edge_visible.
TransactionVisible(session, k) ==
    IF k \in session.overridden THEN session.overrides[k]
    ELSE visible_value_at_revision(k, session.started)

\* transaction_snapshot: no key outside the ones it walks is visible.
TransactionView(session) == [k \in Keys |-> TransactionVisible(session, k)]

\* Mutant: staged writes are not compared.
DeltaKeysWithoutOverrides(session) ==
    {k \in Keys : lineage[k] > session.started \/ versions[k] # << >>}

\* The keys transaction_delta_from_current compares.
DeltaKeys(session) ==
    {k \in Keys : \/ lineage[k] > session.started
                  \/ versions[k] # << >>
                  \/ k \in session.overridden}

transaction_incident_edge_ids(session, n) ==
    {e \in EdgeIds :
        LET edge == TransactionVisible(session, e)
        IN  edge # Absent /\ Incident(edge, {n})}

-----------------------------------------------------------------------------
(* Writes                                                                  *)

\* Mutant: a batch is not validated against the graph of the moment.
AcceptedUnvalidated(b) == Normalized(b) /\ b # EmptyBatch

Accepted(b) ==
    /\ Normalized(b)
    /\ b # EmptyBatch
    /\ validate_batch_against_maps(graph, b)

\* The version history that apply_write_batch_with_snapshot_readers leaves.
HistoryAfter(b, readers) ==
    LET effects == batch_effects(graph, b)
    IN  IF readers = {} THEN versions
        ELSE record_versions_after_commit(
                 preserve_historical_versions(effects), effects,
                 apply_batch_to_maps_unchecked(graph, b), next_lsn)

\* The rest of apply_write_batch_with_snapshot_readers, logged under next_lsn.
ApplyBatch(b) ==
    LET after == apply_batch_to_maps_unchecked(graph, b)
    IN  /\ Accepted(b)
        /\ next_lsn <= MaxLsn
        /\ next_lsn' = next_lsn + 1
        /\ graph' = after
        /\ commit_revision' = next_lsn
        /\ lineage' = update_lineage_for_batch(
                          batch_effects(graph, b), after, next_lsn)

apply_write_batch(b) ==
    /\ ApplyBatch(b)
    /\ versions' = HistoryAfter(b, Open)
    /\ UNCHANGED << transactions, compactions >>

\* The WAL refuses the record after the history was extended.
ApplyFails(b, readers) ==
    /\ LogFailures
    /\ Accepted(b)
    /\ versions' = IF readers = {} THEN versions
                   ELSE preserve_historical_versions(batch_effects(graph, b))
    /\ UNCHANGED << graph, lineage, commit_revision, next_lsn, transactions,
                    compactions >>

apply_write_batch_fails(b) == ApplyFails(b, Open)

-----------------------------------------------------------------------------
(* Sessions                                                                *)

\* The code's identifiers are fresh; here a closed session's may come again.
begin_transaction(t) ==
    /\ t \notin Open
    /\ transactions' = [transactions EXCEPT ![t] =
            [started    |-> commit_revision,
             overridden |-> {},
             overrides  |-> EmptyGraph,
             staged     |-> EmptyBatch,
             touched    |-> {},
             snapshot   |-> graph]]
    /\ UNCHANGED << graph, lineage, versions, commit_revision, next_lsn,
                    compactions >>

StagedCount(b) ==
    Len(b.nodes_upserted) + Len(b.edges_upserted)
        + (IF b.deleted_node_ids = {} THEN 0 ELSE 1)
        + (IF b.deleted_edge_ids = {} THEN 0 ELSE 1)

\* Mutant: a new batch is merged in front of the ones staged before.
StagedInFront(session, overrides, b) ==
    LET old == session.staged
    IN  [session EXCEPT
            !.overridden = @ \cup DOMAIN overrides,
            !.overrides = [k \in Keys |-> IF k \in DOMAIN overrides
                                          THEN overrides[k] ELSE @[k]],
            !.staged =
                [nodes_upserted   |-> b.nodes_upserted \o old.nodes_upserted,
                 edges_upserted   |-> b.edges_upserted \o old.edges_upserted,
                 deleted_node_ids |-> old.deleted_node_ids
                                          \cup b.deleted_node_ids,
                 deleted_edge_ids |-> old.deleted_edge_ids
                                          \cup b.deleted_edge_ids],
            !.touched = @ \cup BatchKeys(b) \cup DOMAIN overrides]

\* stage_operation_on_session: the session with the overrides, the batch
\* merged behind the ones staged before, and the keys it touches.
Staged(session, overrides, b) ==
    LET old == session.staged
    IN  [started    |-> session.started,
         overridden |-> session.overridden \cup DOMAIN overrides,
         overrides  |-> [k \in Keys |-> IF k \in DOMAIN overrides
                                        THEN overrides[k]
                                        ELSE session.overrides[k]],
         staged     |->
            [nodes_upserted   |-> old.nodes_upserted \o b.nodes_upserted,
             edges_upserted   |-> old.edges_upserted \o b.edges_upserted,
             deleted_node_ids |-> old.deleted_node_ids \cup b.deleted_node_ids,
             deleted_edge_ids |-> old.deleted_edge_ids \cup b.deleted_edge_ids],
         touched    |-> session.touched \cup BatchKeys(b)
                            \cup DOMAIN overrides,
         snapshot   |-> session.snapshot]

Stage(t, overrides, b) ==
    /\ transactions' =
            [transactions EXCEPT ![t] = Staged(@, overrides, b)]
    /\ UNCHANGED << graph, lineage, versions, commit_revision, next_lsn,
                    compactions >>

MayStage(t) == t \in Open /\ StagedCount(transactions[t].staged) < MaxStaged

StageUpsertNode(t, n, node) ==
    /\ MayStage(t)
    /\ Stage(t, [k \in {n} |-> node],
             [EmptyBatch EXCEPT !.nodes_upserted = << [id |-> n, value |-> node] >>])

EndpointsVisible(t, edge) ==
    /\ TransactionVisible(transactions[t], edge.source) # Absent
    /\ TransactionVisible(transactions[t], edge.target) # Absent

StageUpsertEdge(t, e, edge) ==
    /\ MayStage(t)
    /\ EndpointsVisible(t, edge)
    /\ Stage(t, [k \in {e} |-> edge],
             [EmptyBatch EXCEPT !.edges_upserted = << [id |-> e, value |-> edge] >>])

\* stage_transaction_operation has already taken the session out of the map
\* when the operation is rejected: the session is gone, its history stays.
StageRejected(t, edge) ==
    /\ t \in Open
    /\ ~EndpointsVisible(t, edge)
    /\ transactions' = [transactions EXCEPT ![t] = Absent]
    /\ UNCHANGED << graph, lineage, versions, commit_revision, next_lsn,
                    compactions >>

\* Mutant: the session goes on seeing the edges of a node it deleted.
StageDeleteNodeAlone(t, n) ==
    /\ MayStage(t)
    /\ Stage(t, [k \in {n} |-> Absent],
             [EmptyBatch EXCEPT !.deleted_node_ids = {n}])

\* The edges the session sees at the node go with it.
StageDeleteNode(t, n) ==
    /\ MayStage(t)
    /\ Stage(t, [k \in {n} \cup transaction_incident_edge_ids(
                                    transactions[t], n) |-> Absent],
             [EmptyBatch EXCEPT !.deleted_node_ids = {n}])

StageDeleteEdge(t, e) ==
    /\ MayStage(t)
    /\ Stage(t, [k \in {e} |-> Absent],
             [EmptyBatch EXCEPT !.deleted_edge_ids = {e}])

\* clear_version_history_if_unused after session t has left the map.
HistoryWithout(t, history) ==
    IF Open = {t} THEN [k \in Keys |-> << >>] ELSE history

\* Mutant: only the nodes a session touched are compared.
ConflictOnNodes(t) ==
    \E k \in transactions[t].touched \cap NodeIds :
        lineage[k] > transactions[t].started

Conflict(t) ==
    \E k \in transactions[t].touched : lineage[k] > transactions[t].started

commit_transaction(t) ==
    /\ t \in Open
    /\ ~Conflict(t)
    /\ ApplyBatch(transactions[t].staged)
    /\ versions' = HistoryWithout(t,
                        HistoryAfter(transactions[t].staged, Open \ {t}))
    /\ transactions' = [transactions EXCEPT ![t] = Absent]
    /\ UNCHANGED << compactions >>

\* The session stays open, to be committed again or rolled back.
commit_transaction_fails(t) ==
    /\ t \in Open
    /\ ~Conflict(t)
    /\ ApplyFails(transactions[t].staged, Open \ {t})

rollback_transaction(t) ==
    /\ t \in Open
    /\ versions' = HistoryWithout(t, versions)
    /\ transactions' = [transactions EXCEPT ![t] = Absent]
    /\ UNCHANGED << graph, lineage, commit_revision, next_lsn,
                    compactions >>

-----------------------------------------------------------------------------
(* Maintenance                                                             *)

\* The checkpoint record takes an LSN; the revision stays.  A compaction that
\* fails before it truncates the log does no more than this.
checkpoint ==
    /\ next_lsn <= MaxLsn
    /\ next_lsn' = next_lsn + 1
    /\ UNCHANGED << graph, lineage, versions, commit_revision, transactions,
                    compactions >>

\* truncate_all_segments starts the log again at LSN 1 under open sessions.
compact ==
    /\ compactions < MaxCompactions
    /\ compactions' = compactions + 1
    /\ next_lsn <= MaxLsn
    /\ next_lsn' = 1
    /\ UNCHANGED << graph, lineage, versions, commit_revision, transactions >>

-----------------------------------------------------------------------------
(* The specification                                                       *)

\* rebuild_lineage has run.  The log goes on behind the revision, unless a
\* compaction truncated it and nothing was logged since.
Init ==
    /\ graph \in InitialGraphs
    /\ commit_revision = InitialRevision
    /\ lineage = [k \in Keys |-> IF Live(graph, k) THEN InitialRevision
                                 ELSE NoRevision]
    /\ versions = [k \in Keys |-> << >>]
    /\ transactions = [t \in TransactionIds |-> Absent]
    /\ \/ next_lsn = InitialRevision + 1 /\ compactions = 0
       \/ next_lsn = 1 /\ compactions = 1 /\ MaxCompactions > 0

StageOperation(t) ==
    \/ \E n \in NodeIds, node \in NodeRecords : StageUpsertNode(t, n, node)
    \/ \E e \in EdgeIds, edge \in EdgeRecords : StageUpsertEdge(t, e, edge)
    \/ \E edge \in EdgeRecords : StageRejected(t, edge)
    \/ \E n \in NodeIds : StageDeleteNode(t, n)
    \/ \E e \in EdgeIds : StageDeleteEdge(t, e)

Next ==
    \/ \E b \in Batches : apply_write_batch(b) \/ apply_write_batch_fails(b)
    \/ \E t \in TransactionIds :
          \/ begin_transaction(t)
          \/ StageOperation(t)
          \/ commit_transaction(t)
          \/ commit_transaction_fails(t)
          \/ rollback_transaction(t)
    \/ checkpoint
    \/ compact

Spec == Init /\ [][Next]_vars

-----------------------------------------------------------------------------
(* Properties                                                              *)

\* Whatever is committed, rolled back, rejected or refused by the log after a
\* session began, what it reads outside its own staged writes is the graph of
\* the moment it began.
SnapshotStable ==
    \A t \in Open : \A k \in Keys :
        visible_value_at_revision(k, transactions[t].started)
            = transactions[t].snapshot[k]

\* The graph a session queries has no dangling edge, whatever mixture of
\* snapshot, history and staged writes it is put together from; until a
\* compaction restarts the revisions, which then no longer tell versions apart.
TransactionViewClosed ==
    compactions = 0 =>
        \A t \in Open : Closed(TransactionView(transactions[t]))

\* transaction_delta_from_current is complete: outside the keys it compares,
\* the session sees the live graph, so the overlay that queries run on is the
\* session's view.
DeltaComplete ==
    \A t \in Open : \A k \in Keys \ DeltaKeys(transactions[t]) :
        TransactionVisible(transactions[t], k) = graph[k]

\* A session that both upserts and deletes one key.
Contradicts(b) ==
    \/ Upserted(b.nodes_upserted) \cap b.deleted_node_ids # {}
    \/ Upserted(b.edges_upserted) \cap b.deleted_edge_ids # {}

\* The staged batch, applied to the session's snapshot, is what the session
\* has been reading: a transaction commits what it saw. Claimed for sessions
\* that do not both upsert and delete a key, since a merged batch forgets in
\* which order it did, and until a compaction restarts the revisions.
StagedBatchIsTheViewInOrder ==
    compactions = 0 =>
        \A t \in Open : ~Contradicts(transactions[t].staged) =>
            apply_batch_to_maps_unchecked(transactions[t].snapshot,
                                          transactions[t].staged)
                = TransactionView(transactions[t])

\* First committer wins: when a commit succeeds, nothing the session staged
\* has been changed by anybody since it began.
NoLostUpdate ==
    [][\A t \in TransactionIds : commit_transaction(t) =>
          \A k \in transactions[t].touched :
              graph[k] = transactions[t].snapshot[k]]_vars

\* No edge of the live graph is missing an end point.
NoDanglingEdges == Closed(graph)
=============================================================================
