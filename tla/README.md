# A TLA+ verification of UNDR9

UNDR9 is a graph and vector database for agent memory, written in Rust: one
process that keeps a property graph in memory, logs every write, publishes
checkpoints and snapshots, offers snapshot transactions, answers graph and
vector queries over HTTP, and can ship its writes to followers. This directory
models the storage engine, the transactions, the index, the database layer that
keeps them together, the query engine, the HTTP service, replication, and backup,
restore, repair and consolidation. TLC checks each model on a small instance,
TLAPS proves the central properties for every instance.

## The system

| Component | State | Operations | What makes it correct |
|---|---|---|---|
| Write-ahead log, `crates/wal` | segment files, `next_lsn`, active segment | `append`, `append_checkpoint`, `replay`, `open`, `truncate_all_segments`, `rewrite_dir_from_records` | a record that was acknowledged is replayed, in order, once |
| Storage engine, durability, `crates/storage` | nodes, edges, manifest, pending checkpoint entries, delta and snapshot files | `open`, `apply_write_batch`, `checkpoint`, `graceful_shutdown`, `compact` | the graph after any restart is the graph the acknowledged writes built; the store opens |
| Storage engine, transactions | sessions, lineage, version history, commit revision | `begin_transaction`, `stage_transaction_operation`, `commit_transaction`, `rollback_transaction`, `transaction_delta_from_current` | snapshot isolation, first committer wins, commits what was read |
| Graph and batches | two maps | validate, apply with cascade | no dangling edge, no edge between namespaces |
| Verify, backup, restore, repair | a second directory tree, a staging tree | `verify_storage_layout`, `backup_directory`, `restore_directory`, `restore_directory_to_lsn`, `repair_storage` | the store keeps what was acknowledged, now or at the LSN asked for, and opens |
| Consolidation, `crates/memory` | its log | `analyze`, `run_consolidation` | its log can undo it |
| Graph and vector index, `crates/index` | type, key, time and adjacency maps, HNSW runtimes, sidecar files | incremental update, rebuild, persist, load | incremental, loaded and rebuilt index agree |
| Database layer, `crates/api` | engine, index, published snapshot | one method per write, commit, rebuild, compaction, shutdown, open | queries read what the engine holds |
| Query engine, `crates/query` | a query's queues, heap and items | lookups, traversal, path, vector and ranked retrieval | results equal a reference definition within the limits; queries end |
| HTTP service, `crates/api`, `crates/auth`, `crates/observability` | requests, locks, token buckets, maintenance status, audit log | one handler per route, timeout, shutdown | answers mean what they say under concurrency; everyone is answered |
| Replication and cluster, `crates/replication`, `crates/cluster` | mode, term, positions, history; members, health, leader; two files | record, ship, apply, acknowledge, promote, configure | followers hold a prefix of the leader's writes; one primary |
| config, common, cli, metrics | constants, output | | |

The handlers hold one fair `RwLock` around the `Database`; under its write side
the `Database` calls the engine, then persists replication metadata, then
changes index and published snapshot. Queries take the snapshot (an `Arc`) and
run without the lock. The hard behaviours follow from that: the end of the
process or an I/O error between two of those steps, sessions that stay open
across operations, structures that a running query shares with a writer,
handlers dropped by their timeout, and records that an operator ships late or
twice. `PROJECT.json` lists them at their lines under `hazards`, with the
properties that watch them.

## Modules

| Module | Models |
|---|---|
| `Graph` | the pure functions on graphs and write batches that the others share |
| `Storage` | the engine with its files: log segments, snapshot files, deltas, manifest, and the memory of the process |
| `DurableGraph` | the abstract store: a batch takes effect whole, the store may stop and start, nothing else happens |
| `Transactions` | sessions during one life of the process |
| `Index` | what an index holds, what a mutation does to it, what a rebuild gives, the lookups of a snapshot and of a session's overlay |
| `Database` | engine, index, published snapshot, a running query and the sidecar files, kept in step |
| `Query` | one query from plan to response budget |
| `Replication` | several databases with their engines, managers and metadata files, and the operator that ships records |
| `Service` | concurrent requests from arrival to answer |
| `Maintenance` | backup, restore, repair and consolidation around the engine of `Storage` |
| `MC...` | the small instances for TLC |
| `GraphProofs`, `StorageProofs`, `TransactionsProofs`, `IndexProofs`, `DatabaseProofs`, `ServiceProofs`, `ReplicationProofs`, `QueryProofs` | the theorems |

`Storage`, `Transactions`, `Index` and `Replication` extend `Graph`; `Database`
extends `Index`, `Maintenance` extends `Storage` and instantiates it once more
for a directory other than the live one. `Storage` and `Transactions` are two
views of one engine and are kept apart on purpose: a restart ends every session,
so `Storage` needs no sessions, and `Transactions` starts from the states that
`open` leaves and needs no files. `Database` and `Replication` see the engine
from above, as the graph in memory and the graph that the next opening would
recover, which differ after a compaction as `Storage` shows.

**Graph.** A graph is a total function on keys with `Absent` where the map holds
nothing. A node is its body and its vectors, because the two are persisted in
different files. An edge is its end points. `validate_batch_against_maps`,
`apply_batch_to_maps_unchecked` and `batch_effects` follow the code, including
the order upserts, cascade, deletes and the fact that validation does not
subtract the nodes the same batch deletes. What `normalize_write_batch` does to
the properties of a node is data and left out; that it refuses an edge between
namespaces is `Normalized`.

**Storage.** `wal` is the sequence of frames of all segment files, each with the
number of its file; `segments` the three snapshot files; `deltas` the files of
the deltas directory; `published` the manifest on disk. `pc` says what the
thread in the engine does next. A checkpoint is three steps (marker, delta,
manifest), a compaction seven (marker, three snapshot files, manifest, removal
of deltas, removal of log segments), an opening as many as there are deltas and
records. Each step is one disk operation. Its failure is a disjunct that leaves
exactly what the code leaves: memory changes made before the failing call stay,
the ones after it do not happen. `Crash` may fall between any two steps. A crash
is the end of the process, not of the machine: what was written is on disk.
`write_atomically` is one step because its rename is the only change a reader
sees. A checksum is the contents it was computed from. A torn frame is what a
write that failed or was cut leaves; whether bytes appended behind it make a
reader stop there or fail to decode depends on their number and is a choice.
The history variable `committed` is the graph that the acknowledged batches
build, and `exposure` follows whether such a batch sits in the log under an LSN
the published manifest already covers.

**Transactions.** Revisions are LSNs. `lineage` gives the revision of a key's
last change, `versions` its history while sessions are open. A session keeps its
overrides, the merged batch and the touched keys; `snapshot` is history, the
graph at its beginning. All of `apply_write_batch_with_snapshot_readers` is one
action, with a second one for the case that the log refuses the record, after
the history was extended and before anything else. A rejected stage drops the
session without clearing the history, as `stage_transaction_operation` does.

**Index and Database.** The label and the temporal index are both sets of pairs
of a bucket and a node. An HNSW runtime is what it stores, a vector per node;
because clones of an index share it, runtimes live in `heap` and an index holds
a reference. `plan_batch_mutation` reads the graph before the batch, as the code
does; `Rewired` names the edges for which plan and engine differ. A write is one
action with its index change, `WriteUnrecorded` the same write when
`record_local_commit` fails after the engine has committed. Writing the index
files is two steps, the files and their manifest; each may fail or be cut off,
the first one while it removes the old files or while it writes the new ones. An
opening takes the files over exactly when the engine was stopped cleanly, no
record was replayed, and `matches_manifest` finds the LSN of the recovered
manifest and an index of the same shape; the first missing file ends the loading,
in an order of names that is left open. `pinned` is the snapshot of a running
query. The rest is history. `suspect` are the keys that a failed metadata write
or a rewired edge may have left behind since the last rebuild. A compaction
restarts the LSNs, so an LSN is a position only within a `generation`: `epoch` is
the one of the last applied LSN, both manifests carry theirs, and `sidecars_of`
has the position of the index the files were written from, and whether that
index lacked a write. `stale_load` says that files were loaded which belong to
another generation or to such an index.

**Query.** The loops of traversal and shortest path are actions, one per node
taken from a queue and one per edge; scans, neighbour lists and rankings take
one candidate at a time in any order, because the order of a bucket is that of
past writes. A test of the deadline may find that it has passed. Scores are
numbers of the instance; candidates of the HNSW search are any subset of the
nodes a runtime may return. The plan's validation comes first, the response
budget last.

**Replication.** A node is its engine, its two managers and two metadata files.
Of the engine there is the graph in memory, the next LSN, the LSN of the
published manifest and `recoverable`, the graph that `recover` would give. A
compaction or a clean shutdown publishes; a compaction also sets the next LSN
back to 1, on a leader or a follower, and `recover` then skips what is logged at
or below the published LSN. `exposure` is history: a node has no such writes, has
them at risk, or has lost them in a crash; `reused` says that a record of a
history took an LSN that an older one has.
An operation that persists both is two steps, each of which may fail or be cut
off and then leaves a torn file. `out_of_step` is history: the two files have the
roles of different operations; adding a replica writes both files but moves no
role. A delivery is a sequence of records that was
fetched at any earlier time; it is applied one record at a time. What a follower
reports and nothing reads back (`last_pulled`, `last_applied`) is left out. Two
things are the operator's part and not checked by the code: records are fetched
from the follower's own position on (the code serves any LSN, and
`validate_replication_records` notices no gap), and what is acknowledged is a
position that the follower has reported (the code takes any).

**Service.** A handler is described by what it asks for: an action to authorise,
a path to parse, the lock, the maintenance budget, an audit record, whether it
changes the graph, the sessions or the roles, and of what, nodes or edges, there
may be more or fewer after it. All 39 routes are such descriptions, and the steps
between their awaits are the actions. An operation that returns an error may have
taken effect, because the engine commits before the metadata file is written. tokio's lock is a queue that serves first come first. A request is
dropped by its timeout only at an await that cannot go on. The two concurrent
rewrites of the audit file are a truncation and a write.

**Maintenance.** An operation runs alone, its steps are its file operations, and
the end of the process may come between any two. `committed` and `trail` (the
committed graph at each LSN of the log) say what a restore should bring back.

## Runs

Ten runs must pass:

| Run | Checks | Instance |
|---|---|---|
| `storage_checkpoint` | `ImplementsDurableGraph`, `ReturnsToService` | 5 frames in files of 2, appends and manifest writes may fail |
| `storage_compaction` | `SurviveUnlessShadowed`, `RefusedOnlyIfShadowed`, `NoDanglingEdges` | 4 frames, two compactions, appends may fail |
| `storage_faults` | `TypeOK`, `NamespaceIsolation` | 4 frames, one compaction, every fault, replay limit of 3 frames |
| `tx_concurrent` | `SnapshotStable`, `DeltaComplete`, `NoLostUpdate` | two sessions, LSNs up to 3, log may refuse |
| `tx_session` | `TransactionViewClosed`, `StagedBatchIsTheViewInOrder`, `NoDanglingEdges` | one session, three staged operations, LSNs up to 2, one compaction |
| `database` | `PublishedIsEngine`, `IndexIsRebuilt`, `KeyLookup`, `RuntimeIsCurrent`, `PinnedSearchStable`, `OverlayAgreesWithCommit` | two nodes, an edge, a vector space, 2 writes or sessions, two restarts, two rebuilds or compactions, every fault |
| `query` | `TraversalSound`, `ShortestPathExact`, `LookupExact`, `SearchExact`, `RefusedOnlyForLargeLimits`, `Terminates` | every graph of up to 3 edges on 4 nodes, a ladder of 6 nodes, node labels that leave out the source or the target, limits 6, 8 and 16 |
| `replication` | `HistoryIsTheGraph`, `FollowerIsPrefix`, `FreshDeliveryApplies`, `AckedIsDurable`, `OnePrimary`, `RolesAgree` | two nodes, 3 writes and 2 administrative operations (4 together), 2 deliveries, one failure |
| `service` | `TimedOutChangedNothing`, `StatusTruthful`, `WithinBudget`, `AuditSound`, `RateBounded`, `Responsive` | three requests: every handler beside a write and beside a commit, and triples that compete; budget of one node and one edge, sizes up to 2 |
| `maintenance` | `MaintenanceKeepsCommitted`, `RefusedOnlyIfKnown`, `ConsolidationReversible` | 4 frames, replay limit 3, one compaction, 2 writes, 2 operations |

- `ImplementsDurableGraph` is the refinement: the engine's graph while it
  serves, and `committed` while it is stopped or opening, behave as
  `DurableGraph`. A restart that loses or invents anything is not a step of it.
- `SurviveUnlessShadowed` and `RefusedOnlyIfShadowed` say how far compaction
  weakens this: only by writes made between a compaction and the next
  publication of the manifest, and only after a crash in that window. The
  second one allows a refusal from a second compaction on as well: stopped
  between its renames, it leaves snapshot files that the published checksums do
  not match.
- `ReturnsToService` is liveness: if crashes end, the engine comes back.
- `SnapshotStable`, `DeltaComplete`, `TransactionViewClosed` and
  `StagedBatchIsTheViewInOrder` are together what a session may rely on: its
  reads are the graph it began on plus its own writes, and its commit is what it
  has been reading. `NoLostUpdate` is first committer wins. The two that look at
  staged writes are stated up to the first compaction, because the LSNs restart
  there; the closedness of the live graph is not.
- `PublishedIsEngine`, `IndexIsRebuilt` and `KeyLookup` compare what queries read
  with what a rebuild from the engine would give, after any sequence of writes.
  `RuntimeIsCurrent` asks the same of vectors that were updated in place or loaded
  from the files of an earlier process. `PinnedSearchStable` is the promise to a
  query that began earlier, `OverlayAgreesWithCommit` to a session.
- The query properties compare each kind of query with a reference definition
  over reachability and order; `Terminates` holds on cyclic graphs too.
- `FollowerIsPrefix` is the promise of replication under late, repeated and
  interrupted deliveries; `HistoryIsTheGraph` that a new follower can be fed;
  `FreshDeliveryApplies` that only a delivery repeated after an interruption, or
  one to a follower that has lost a write, may be refused; `AckedIsDurable` what an acknowledgement means; `OnePrimary` and
  `RolesAgree` what the two metadata files say, also after crashes between them.
- `TimedOutChangedNothing` is what a client may conclude from a 408, with the one
  exception the code has: a maintenance operation may be cut off after its work.
  `StatusTruthful`, `WithinBudget`, `AuditSound` and `RateBounded` name, in their
  premises or bounds, the races that the code leaves open and exclude all others.
  `Responsive` is liveness of requests and of the shutdown.
- `MaintenanceKeepsCommitted` and `RefusedOnlyIfKnown` do the same for a store
  under maintenance; the exceptions are listed below.

Two runs show a property violated that the documentation states; `findings`
quotes it:

| Run | What happens |
|---|---|
| `lsn_reset_loses_writes` | `compact` restarts the log at LSN 1 under a published LSN; recovery skips the writes logged next |
| `database_rewired` | a session moves an edge off a node and deletes the node: the engine keeps the edge, index and published snapshot lose it; with two upserts of one edge the opposite happens |

**What the premises stand for.** Each exception in a property is a behaviour of
the code that the model shows when the exception is removed.

- *Storage.* A failed delta write has already emptied the pending entries, and
  the next checkpoint publishes past them. A write refused for its fsync is in
  the log and comes back. Appends go on behind a torn frame, where replay does
  not reach them. A failed compaction leaves entries pending that the new files
  hold; a later delta may not fit, and the store does not open. So
  `AckedWritesSurvive` and the refinement are not claimed with `append_torn`,
  `append_fsync`, `delta_write` or a compaction, `RefusedOnlyIfShadowed` not with
  a failing manifest write or unlink during a compaction, and `NoDanglingEdges`
  not where deltas and segment writes fail together. `storage_faults` allows
  everything and asserts what survives it.
- *Transactions.* After a compaction under an open session new writes carry
  revisions the session can see. A session that deletes a key and upserts it
  again reads the upsert and commits the delete.
- *Database.* When the metadata file of replication cannot be written, the
  engine has committed and index and snapshot stay behind until the next
  rebuild; a graceful shutdown in between stamps the stale vector file with the
  current LSN, and the next opening loads it. A compaction starts the LSNs again,
  so files of an earlier generation can carry the LSN of a later manifest; when
  their counts and lengths agree too, they are loaded. Two vector names with one
  file name overwrite each other's file.
- *Query.* With node labels that the target does not carry, an edge from the
  source to the target is followed from the target's side only. The source's
  frontier comes first, and when it has reached another neighbour of the target,
  the target's edge to that neighbour may come before the direct one: the path
  found has two hops where one would do. An edge back to a source without the
  labels is not followed by a traversal either.
- *Replication.* A leader that stops between the engine's commit and the
  metadata file has a write in no history. A delivery repeated after a crash in
  its middle may be refused for ever, because its first records no longer fit.
  A promoted follower starts with an empty history. A leader that compacted
  gives LSNs out again, and followers take the records for old ones (`reused`). A
  node that compacts, writes or applies records and crashes has lost them, while
  its metadata file keeps them in its history or covers them with its position:
  the leader ships records its engine does not hold, and the follower is not sent
  what it lacks and may refuse what comes next (`exposure`). With the exception
  taken out, TLC finds each of `HistoryIsTheGraph`, `FollowerIsPrefix` and
  `FreshDeliveryApplies` violated. A metadata file torn by its overwrite refuses
  the opening.
- *Service.* Two maintenance operations write one status; a handler dropped, or
  an audit record refused, between the two updates leaves it in progress. The
  budget is checked before the turn for the lock, and what a write, a commit, a
  delivery or a restore adds in between is not counted, nor what one that then
  fails has added. A prune overwrites what was
  appended since it read. A sample of the clock that is older than the bucket's
  last refill lets the same time be counted again. The graceful shutdown of the
  database runs before the server stops accepting, so a write may follow the
  clean marker.
- *Maintenance.* Restore stopped between removal and rename leaves no store, and
  the next opening makes an empty one. When a restored store does not open, the
  old engine goes on serving files that are gone. A point-in-time restore checks
  the layout and not the file list, and of a store whose first compaction was
  cut off it brings the newer, unpublished snapshot. Repair without a readable
  published state applies deltas that no manifest lists, which can bring back
  deleted nodes; interrupted, it leaves a store that is refused; it never removes
  old deltas. A snapshot file that the manifest lists and that is missing loads
  as empty. Verification replays without the limit that an opening has. A backup
  removes the previous one first.

**Bounds.** The constants named `Max...` bound the runs (some, as
`MaxReplayFrames` and the limits of `Query`, are limits of the code) and the
other guards have a counterpart in the code. Four frames leave room for a write,
a marker, a second write and a second marker, the shortest history in which one
checkpoint builds on another; files of two frames make the log rotate inside it,
so that truncation takes several steps. In `tx_concurrent` three LSNs let two
writes and a commit interleave with sessions begun before, between and after
them. Three staged operations are enough to upsert, connect and delete. In
`database` a session creates two nodes with their edge, or two that share a key
and have vectors of different lengths, and a second write changes, moves or
deletes; `ExactFallbackThreshold` is 0 so that a runtime exists. Restarts and
rebuilds are two each because files of one generation are met by a manifest of
the next only after a compaction, a clean stop and two openings: with any one of
the three parts of `stale_load` left out, the run finds `RuntimeIsCurrent`
violated. In
`query` three edges give every loop, cycle, pair of parallel edges and two-hop
path on four nodes; the ladder adds paths that need both sides of the search and
frontiers of several nodes. In `replication` three writes and two deliveries let
a record be late and repeated around a promotion, a compaction or a crash; four
operations in all are a write, a compaction and two writes, or two writes shipped
around the compaction of either node and a change of roles. In `service` one
node or one edge more is over the budget. Three
requests are enough for a writer that waits behind a reader and before another.
In `maintenance` two operations are a backup and its restore, or a damaged store
and its repair. There `Claimed`, a state constraint, stops following a store once
it is broken or has lost a batch: no property claims anything of it from then on.
Session identifiers and databases are interchangeable; symmetry is used only in
`tx_concurrent` and `replication`, which check no liveness.

**Deadlock** is checked in the storage and transaction runs: a crash is always
possible in `Storage`, and a session can always begin or roll back in
`Transactions`. In the others the system comes to rest when its bounds are used
up or its requests are answered.

**Fairness.** `Storage` assumes weak fairness of opening and of the steps of a
checkpoint and of a compaction that has begun. The thread that holds the lock
runs them without waiting for anything else, and `docker-compose.yml` restarts
the process (`restart: unless-stopped`). Nothing is assumed of clients, and
crashes may go on for ever: `ReturnsToService` is conditional on their end.
`Query` assumes that the one thread that runs a query goes on. `Service` assumes
weak fairness of every handler's next step and of the server's close, which the
runtime's worker threads give; clients, clock, timeout and signal owe nothing.

## Proofs

All theorems hold for every value of the constants that satisfies the named
assumptions `GraphAssumption`, `StorageAssumption`, `FilesAssumption`,
`TransactionsAssumption`, `IndexAssumption`, `DatabaseAssumption`,
`ServiceAssumption`, `RouterAssumption`, `ReplicationAssumption`,
`QueryAssumption` and `NoneAssumption` (disjoint keys, `Absent` and `None`
outside the data, references to runtimes that exist and differ from 0, a file
told from a missing file, batches that are batches, bounds that are numbers,
initial graphs that are closed, routes with a handler; for `Query` finitely many
identifiers, which are numbers, a closed graph, as the other modules prove it to
be, and a response budget above zero).

| Theorem | States |
|---|---|
| `StorageProofs!TypeCorrect` | `Spec => []TypeOK` |
| `StorageProofs!NamespacesIsolated` | `Spec => []NamespaceIsolation`, with every fault |
| `StorageProofs!ClosedUntilRecompacted` | `NoDanglingEdges` with every fault, until a second compaction |
| `StorageProofs!ClosedUnlessShadowed` | `NoDanglingEdges` with any compactions under `Tolerated`, until a batch is lost |
| `StorageProofs!AckedSurvive` | under `Tolerated`, `Spec => []SurviveUnlessShadowed` |
| `StorageProofs!ReopenedUnlessShadowed` | under `Tolerated`, log within the replay limit, `Spec => []RefusedOnlyIfShadowed` |
| `StorageProofs!EngineIsDurableGraph` | under `Tolerated`, without compaction, `Spec => ImplementsDurableGraph` |
| `TransactionsProofs!TypeCorrect` | `Spec => []TypeOK` |
| `TransactionsProofs!GraphStaysClosed` | `Spec => []NoDanglingEdges`, with any compactions |
| `TransactionsProofs!DeltaIsComplete` | `Spec => []DeltaComplete`, with any compactions |
| `TransactionsProofs!SnapshotIsolation` | without compaction, `Spec => []SnapshotStable` |
| `TransactionsProofs!FirstCommitterWins` | without compaction, `Spec => NoLostUpdate` |
| `TransactionsProofs!ViewsStayClosed` | `Spec => []TransactionViewClosed` |
| `TransactionsProofs!StagedBatchIsTheView` | `Spec => []StagedBatchIsTheViewInOrder` |
| `IndexProofs!PlanIsTheBatch` | the planned mutation applied to the maps is the engine's batch, when nothing is rewired |
| `IndexProofs!MutationIsRebuild` | the index mutated in place is the rebuilt one: nodes, buckets, both adjacency maps |
| `DatabaseProofs!PublishedIsEngineAlways` | `Spec => []PublishedIsEngine`, with every fault |
| `DatabaseProofs!IndexIsRebuiltAlways`, `KeyLookupAlways`, `OverlayAgreesAlways` | what the index in place answers is what a rebuild, and what a session's overlay, would answer; with every fault |
| `DatabaseProofs!RuntimeIsCurrentAlways`, `PinnedSearchAlways` | the two properties of vectors, over any number of compactions, crashes and partly written files |
| `ServiceProofs!RateBoundedAlways`, `TimedOutChangedNothingAlways`, `StatusTruthfulAlways`, `WithinBudgetAlways`, `AuditSoundAlways` | the safety properties of `Service`, for any number of requests |
| `ReplicationProofs!OnePrimaryAlways`, `RolesAgreeAlways`, `HistoryIsTheGraphAlways`, `AckedIsDurableAlways`, `FollowerIsPrefixAlways`, `FreshDeliveryAppliesAlways` | the properties of `Replication` of these names, for any number of nodes |
| `QueryProofs!LookupExactAlways`, `SearchExactAlways`, `TraversalSoundAlways`, `ShortestPathExactAlways`, `RefusedOnlyForLargeLimitsAlways` | the safety properties of `Query`, for every graph, request and limit |

`GraphProofs` holds the facts about batches the others cite: applying a validated
batch yields a graph, keeps a closed graph closed and a namespace-local graph
local, and changes nothing outside the batch's effects; and induction over the
naturals, stated for sets (`NaturalsBySuccessor`, `LeastNatural`).

*Type correctness of `Storage`* needs `PendingWhenPublishing`: the thread is at
`publish_delta` only with something pending, otherwise the first LSN of the delta
would be read from an empty sequence.

*Namespaces.* `NamespaceIsolation` alone is not inductive: recovery applies what
it finds in files. `NamespaceInv` adds `NormalizedFiles`: every batch in the log,
in a delta on disk, among the pending entries or under the cursor is normalised,
and the edge snapshot file is namespace local. Each step that writes a file
copies from a place that satisfies it.

*Dangling edges.* `ClosedInv` adds to `NoDanglingEdges` of the graph in memory
that the snapshot files, loaded as they are, give a closed graph: until a second
compaction begins they are written once, edges after nodes, from one graph.

*Durability.* An LSN means something only since the log was last started again,
so the invariant speaks of the history since then, which the files never hold in
one place: `H[i]` is the batch logged under LSN `i` (`EmptyBatch` for a marker),
`S[i]` the graph behind it, and `o` the LSN whose graph the published snapshot
is. `DurableInv` says that such `o`, `H` and `S` exist, with

- `Chain`: each batch is valid for the graph before it, and the last graph is
  `committed`;
- `Logged`: the log holds a gapless end of the history;
- `Based`: the published snapshot files are those of `S[o]`, and files that no
  manifest lists hold only keys that the history names again;
- `OnDisk`: the published deltas cover disjoint ranges, and every batch is in
  one of them or, above the published LSN, in the log, unless it is exposed;
- `InMemory` and `Written` of a running engine: every batch is in a delta of its
  manifest or pending, and the snapshot files a compaction has written so far
  are those of the graph;
- `Recovering` of an opening: there is an LSN `p` such that the graph loaded so
  far agrees with `S[p]` on the keys known by then, and what is left under the
  cursor is the history behind `p`.

The heart is `MatchesApply`: a graph that agrees with the history at `p`, though
it may already hold later values of keys that will be written again, takes the
next batch and agrees behind it. `MatchesEnd` makes it `committed` at the end.
TLC checked the invariant first, with `o`, `H` and `S` as variables.

`Tolerated` admits failed appends, snapshot writes and, without compaction,
manifest writes, beside crashes at every step. The other faults are left out
because under them the claims are false of the code: a torn or unsynced frame
hides or revives a record, a failed delta write drops the pending entries
(hazards in `PROJECT.json`, and the faults run checks what does hold), a
deletion that fails leaves files that a later delta may collide with, and after
a compaction whose manifest could not be written the next checkpoint publishes
the new snapshot together with entries it already contains.

*Refinement.* With `MaxCompactions = 0` nothing is ever exposed, so the store
that `Served` shows is `committed` in every state; a write is `Commit`, every
other step leaves it and at most stops or starts the engine.

*Snapshot isolation.* `SnapshotStable` is not inductive either: it says what a
session sees, not why a write will leave that alone. `IsolationInv` adds
`RevisionsGrow` (every lineage and every open session is at or before
`commit_revision`, and the next LSN is after it), `LineageTotal` (a live key has
a lineage) and `UnbornHistory` (a key without a lineage has nothing but absence
in its history). The argument
has two halves. A key a write does not touch keeps its lineage, value and
history. For a key it does touch, either the session read the live value, and
`preserve_historical_versions` has put that value into the history under its
lineage, where it is the newest entry not above the session's revision
(`EarlierEntryVisible`); or it read the history, and the entries added now are
above its revision and invisible to it (`LaterEntryInvisible`). That batches have
no effect outside `batch_effects` (`EffectsComplete`) closes the gap. The
hypothesis on compactions is exactly what `RevisionsGrow` needs.

*First committer wins* follows in one step: a touched key without a conflict has
a lineage not above the session's revision, so the session reads its live value,
which by `SnapshotStable` is its snapshot's.

*Views and staged batches.* `ViewInv` follows each session: its overrides are
the staged batch applied to its snapshot, key by key, and the view assembled from
live values, history and overrides is that graph. `merge_write_batches` keeps
this as long as no key is both upserted and deleted.

*Plan and index.* `PlanIsTheBatch` goes key by key. For an edge the question is
which upsert counts: the engine takes the last, the plan the last one it keeps,
and `LastKeptIsLastUpsert` shows them equal when the last one is kept; the cases
left over are `Rewired`. `MutationIsRebuild` needs of the plan only that it
removes what the graph has, and that what it adds over a live record it has
removed (`PlanOverwrites`).

*Published snapshot.* `PublishedIsEngine` is inductive: a write changes published
maps and engine alike outside `Rewired`, an unrecorded write adds its effects to
`suspect`, and a refresh copies the engine.

*Index in place.* `IndexInv` says of both clones, key by key outside `suspect`,
that their structure is the rebuilt one (`Structured`), and of each space without
mixed lengths that candidates and length are those of the holders (`Exact`): the
candidates alone are not inductive, because which vectors a space admits depends
on the length it settled on. Beside it, `EngineInv` says that the live nodes are
finitely many, so that counting candidates and owners means something, and
`ShapeInv` that indexes, runtimes and files have their form. `KeyLookup` is
inductive beside `EngineInv`. For the overlay, `OverlayAgreesAlways` compares the
session's delta with the plan key by key: with nothing suspect the published maps
are the engine's, and both give the same buckets, edges and owner.

*Vectors.* `ClonesInv`: index and published snapshot have the same spaces, hence
the same runtimes, and a mutation written through twice does what it does once.
`RuntimeInv` says that a runtime in use holds the vectors of the published nodes,
also where a write is missing from both. To keep this across processes one must
know what a file is worth. `PositionInv` orders positions by generation and then
LSN: those of memory, of both manifests and of the files all come before the next
record's, so no later write takes a position that a file already claims.
`ManifestInv` says that memory at the manifest's position is what recovery gives,
`FileInv` that files of that position, not written from an index that lacked a
write, hold the vectors of the recovered graph. Within a generation equal LSNs
are then equal graphs, and `matches_manifest` is check enough.
`PinnedSearchStable` joins them in `SearchInv`: a rebuild leaves the runtimes of
a running query alone, and a write changes them only for the nodes in `touched`.

*Rate limit.* `LimiterInv` relates each bucket to what was taken from it: tokens
left plus requests admitted are within the capacity and the refills up to the
bucket's own time (`BucketCovered`), a sample lies in the past (`SampledInTime`).
`regressed` counts the time a bucket went back when an older sample came last.

*Requests.* `RequestInv` ties the stage of a request to what it holds: a place in
the queue, the lock, a bucket. A request that can still time out has not applied
anything; the maintenance flag counts the operations marked; a budget check
stands, for nodes and for edges each, as long as no request that may add such has
taken effect after it. For the audit log, `AuditInv` says of
each prune under way what the file held when it was read, and that what is lost
is older than the retention or was appended since.

*Replication.* `RolesInv` says of memory and of each file what the two managers
agree on at each stage of a write of both. `RecoverInv` says that an opening gives
the graph that the engine has, or went down with, unless writes are at risk or
lost; that a node which is down has none at risk, because the crash has lost
them; and that a history still called complete has lost none. `HistoryInv` says
that the history in memory, or of a node that is down the one in its file, replays
to the engine's graph; a restart keeps it by `RecoverInv`. `ReachInv` and
`AnswerInv` bound what a leader counts as acknowledged by what the follower has
answered, and that by what its memory and its file hold.

*One primary.* `TopologyInv` says it of memory and of every file that is not
torn, because a restart reads the file back, and adds that a node is always in
its own topology.

*Followers.* `LeaderInv` says that the records a leader can hand out are a
`Chain`: ascending, which is what `reused` is the exception to, and each accepted
by the graph that those before it give. `LagInv` then places everything a follower holds in the leader's
history: how far its engine ever was (`r`), the positions of its memory and of
its file, the start of what was fetched and of what is being applied. After an
interruption old records are applied again to a graph that is ahead of them, so
the graph is in general no graph of the history. `Behind` says what it still is:
up to the keys that the records between `q` and `r` name, it is the graph at
`q`, or lacks an edge that is gone at `r` too. It holds of every place from which
a delivery may start again, a record keeps it, and at `q = r` it is equality,
which is `FollowerIsPrefix`. Of a fresh delivery `LagInv` says that its next
record is the one behind `r`, and `Chain` that it is accepted.

*Queries.* There is one inductive invariant for each kind of request, beside
`Common`, which says that graph and request stay what they were. `ScanInv` and
`NeighborInv` account for the entries looked at so far. `RankInv` says that a
candidate not kept is behind all that are kept, of which there are then `limit`;
it rests on `Before` being a strict order, and the sorted answer on a finite set
having exactly one member with `i - 1` members before it.

*Traversal.* `Layer` is the set of nodes at a distance, proved to be what the
reference `Reached` makes of it. `Frontier(c)` of `TravInv` says that the queue
holds nodes of layer `c`, followed by nodes of layer `c + 1`; that all nearer ones
have been expanded, and that every node of the reach still missing lies behind
one in the queue or under expansion, unless the limit has been met.

*Shortest path.* `PathInv` speaks of both sides at once. `SideOk` says of one
side that it has found exactly its layers up to `c` and part of the next, and
that its parent map leads back to the origin, one layer at a time
(`LinkedMap`), so that the chain `reconstruct_path` follows has as many hops as
the layer. As long as no node is in both maps, there is no path of the hops
covered so far (`AtLoop`, `AtLevel` count them as rounds); so the first meeting
is a shortest one, and with an empty queue there is none. An unlabelled target is
the one node that the source's side never finds, and the reason for the
exception in the property: it came to light when this step could not be proved,
and TLC then showed it. A first form of `TraversalExact` was too strong for the
same reason, and was corrected.

*Only model-checked.* Liveness under fairness (`ReturnsToService`, `Terminates`,
`Responsive`), which the prover cannot express. The three properties of
`Maintenance`: what its operations read is a fold over the sorted and flattened
entries of a directory, and the reading is `Storage` instantiated for a directory
that is not the state. The induction theorems of the library take an operator as
a parameter and cannot be used; what is proved by induction here goes over a set
of naturals, which is why `Replication` and `Query` use recursive functions.

## Not modelled

In the modelled components: the legacy JSON snapshot names, read only for files
of older versions; loss of power, that is a directory or file whose data had not
reached the disk; serialisation, taken to invert itself; the search inside an
HNSW graph and the floating-point scores, where `Query` admits any candidates
and takes scores from the instance; a mix of two overlapping writes to the audit
file, taken as one after the other; two vector names with the same sidecar file
name, because the instance has one name; in `Replication`, the rewrite of both
metadata files by an opening, which writes what it has read, and restore and
repair (`Database::restore_from`), which put another engine under managers that
stay as they are, so that no property of `Replication` is claimed after one:
`Maintenance` has them for a single database. Among the components:

- *JSONL import and export*: an import is one `apply_write_batch` of parsed
  records, an export writes one file.
- *Configuration*: parsing and range checks; the limits it sets are constants.
- *Observability* other than the audit log, *command line* other than start and
  shutdown, *benchmark*: output, and calls of operations modelled elsewhere.

## Plan

1. *Done:* storage and transactions with their theorems.
2. *Done:* index, database layer, query engine, replication and cluster, HTTP
   service, backup, restore, repair, consolidation; first theorems of four of
   them.
3. *Done:* durability as an inductive invariant over log, deltas, snapshot and
   memory; the step refinement of `DurableGraph`; all safety properties of
   `Transactions`, `Service`, `Database`, `Replication` and `Query`.
4. *Left, proofs:* the safety properties of `Maintenance`, which first need its
   reading of a directory as a recursive function over positions.
