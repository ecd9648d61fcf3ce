----------------------------- MODULE Maintenance ----------------------------
(***************************************************************************)
(* Backup, restore (also to an LSN), verification, repair and memory       *)
(* consolidation of a store (crates/storage/src/lib.rs, called from        *)
(* crates/api/src/lib.rs and from the command line; the analysis is        *)
(* crates/memory/src/lib.rs), around the engine of module Storage.         *)
(*                                                                         *)
(* An operation runs alone: the service holds the database lock, the       *)
(* command line is used while the store is closed.  What can come between  *)
(* its steps is the end of the process.                                    *)
(***************************************************************************)
EXTENDS Storage, SequencesExt, FiniteSets

CONSTANTS
    None,
    NodeOrder,          \* node identifiers in their order
    MergeKeys,          \* unique keys in their order
    MaxWrites,          \* bound: batches written by clients
    MaxOperations       \* bound: operations of this module started

ASSUME MaintenanceAssumption ==
    /\ \A n \in NodeIds : \E i \in DOMAIN NodeOrder : NodeOrder[i] = n
    /\ MaxWrites \in Nat /\ MaxOperations \in Nat
    /\ None \notin Graphs

VARIABLES
    op,                 \* step of the operation that runs
    backup,             \* the backup directory
    staging,            \* the directory next to the store
    target,             \* LSN to restore to, or None
    replaced,           \* the engine that serves until the new one is open
    repaired,           \* what a repair has read
    events, before,     \* consolidation: events left; the graph at its start
    consolidation_log,
    \* --- history and bounds
    trail,              \* the committed graph at each LSN of the log
    mended,             \* the files are as a repair has left them
    broken,             \* a restore stopped after it began to remove the store,
                        \* brought one that does not open, or went to an LSN
                        \* that the copy did not hold (see Untrue); or a repair
                        \* has read deltas that a compaction had replaced
    unlogged,           \* the event whose line is missing from the log
    writes, operations

files == << backup, staging >>
running == << op, target, repaired >>
consolidation == << events, before, consolidation_log, unlogged >>
bounds == << writes, operations >>
allVars == << vars, files, running, replaced, consolidation, trail, broken,
              mended, bounds >>

-----------------------------------------------------------------------------
(* Reading a directory                                                     *)

Directory == [wal |-> wal, segments |-> segments, deltas |-> deltas,
              published |-> published]

\* The definitions of Storage for the files of directory d.
At(d) == INSTANCE Storage WITH wal <- d.wal, segments <- d.segments,
             deltas <- d.deltas, published <- d.published,
             manifest <- d.published

\* apply_batch_to_maps; None: an error.
apply_batch_to_maps(g, b) ==
    IF g = None THEN None
    ELSE IF validate_batch_against_maps(g, b)
         THEN apply_batch_to_maps_unchecked(g, b) ELSE None

\* apply_delta_segments, apply_raw_delta_segments: in the order of the names.
WithDeltas(g, ds) ==
    LET named(d, o) == d.first < o.first
                       \/ (d.first = o.first /\ d.checkpoint < o.checkpoint)
        add(acc, entry) == apply_batch_to_maps(acc, entry.batch)
        entries == FlattenSeq([i \in 1 .. Cardinality(ds) |->
                                 SetToSortSeq(ds, named)[i].entries])
    IN  FoldLeft(add, g, entries)

\* load_published_state: every file against its checksum.
load_published_state(d) ==
    IF /\ At(d)!Verified(d.segments.nodes, d.published.snapshot.nodes)
       /\ At(d)!Verified(d.segments.edges, d.published.snapshot.edges)
       /\ At(d)!Verified(d.segments.vectors, d.published.snapshot.vectors)
       /\ d.published.deltas \subseteq d.deltas
    THEN WithDeltas(At(d)!LoadedSnapshot, d.published.deltas) ELSE None

\* load_raw_published_state: the files as they are.
load_raw_published_state(d) == WithDeltas(At(d)!LoadedSnapshot, d.deltas)

\* replay_from_dir: the records of the log.
Records(d) ==
    LET places == SelectSeq([i \in DOMAIN d.wal |-> i], LAMBDA i : At(d)!Readable(i))
    IN  [k \in DOMAIN places |-> d.wal[places[k]]]
Above(d, lsn) == SelectSeq(Records(d), LAMBDA f : f.lsn > lsn)

\* The batches above an LSN, replayed over a graph.
Replayed(d, g, lsn) ==
    LET add(acc, f) == IF f.kind = "write_batch"
                       THEN apply_batch_to_maps(acc, f.batch) ELSE acc
    IN  FoldLeft(add, g, Above(d, lsn))

\* verify_storage_layout: the files load, the log decodes, and what is counted.
verify_storage_layout(d) ==
    LET g == load_published_state(d)
    IN  [snapshot_valid |-> g # None,
         wal_replay_valid |-> ~At(d)!Undecodable,
         count |-> IF g = None THEN 0 ELSE Cardinality({k \in Keys : Live(g, k)})]

-----------------------------------------------------------------------------
(* Around the engine                                                       *)

Idle == op = "none" /\ pc \in {"ready"} \cup Down
Begins(step) ==
    /\ Idle
    /\ replaced = None
    /\ operations < MaxOperations
    /\ operations' = operations + 1
    /\ op' = step

\* The committed graph at every LSN of the log, which restarts when it is empty.
NewTrail ==
    IF wal' = << >> THEN << committed' >>
    ELSE IF Len(wal') > Len(wal)
         THEN SubSeq(trail, 1, Min({wal'[Len(wal')].lsn, Len(trail)}))
                  \o << committed' >>
         ELSE trail

ClientWrite ==
    /\ Idle
    /\ writes < MaxWrites
    /\ \E b \in Batches : apply_write_batch(b)
    /\ writes' = writes + 1
    /\ trail' = NewTrail
    /\ before' = None
    /\ mended' = FALSE
    /\ UNCHANGED << files, running, replaced, events, consolidation_log,
                    unlogged, broken, operations >>

\* Every other step of the engine.
EngineStep ==
    /\ op = "none"
    /\ pc = "refused" => replaced = None
    /\ Checkpoint \/ Compaction \/ Crash \/ Recovery
    /\ replaced' = IF pc' \in {"ready", "down"} THEN None ELSE replaced
    /\ trail' = NewTrail
    /\ mended' = (mended /\ disk' = disk)
    /\ UNCHANGED << files, running, consolidation, broken, bounds >>

Memory == [graph |-> graph, next_lsn |-> next_lsn, latest |-> latest_applied_lsn,
           dirty |-> checkpoint_dirty, pending |-> pending, manifest |-> manifest]

\* StorageEngine::open after an operation of the service; the command line has
\* no engine.
Reopen ==
    /\ replaced' = IF pc = "ready" THEN Memory ELSE None
    /\ pc' = "down"
    /\ graph' = EmptyGraph
    /\ next_lsn' = 1
    /\ latest_applied_lsn' = 0
    /\ checkpoint_dirty' = FALSE
    /\ pending' = << >>
    /\ manifest' = EmptyManifest
    /\ cursor' = NoCursor

\* The new engine does not open: the call fails, the old engine goes on.
KeepServing ==
    /\ pc = "refused"
    /\ replaced # None
    /\ pc' = "ready"
    /\ graph' = replaced.graph
    /\ next_lsn' = replaced.next_lsn
    /\ latest_applied_lsn' = replaced.latest
    /\ checkpoint_dirty' = replaced.dirty
    /\ pending' = replaced.pending
    /\ manifest' = replaced.manifest
    /\ replaced' = None
    /\ broken' = TRUE
    /\ UNCHANGED << disk, cursor, history, files, running, consolidation, trail,
                    mended, bounds >>

\* The operation is over; a copy it leaves next to the store is removed, unread,
\* by the next restore.
Ends == op' = "none" /\ target' = None /\ repaired' = None /\ staging' = None

\* A step of the operation returns an error.
OperationFails ==
    /\ op # "none"
    /\ Ends
    /\ pc' = IF pc = "refused" THEN "down" ELSE pc
    /\ broken' = (broken \/ op = "rename")
    /\ UNCHANGED << disk, graph, next_lsn, latest_applied_lsn, checkpoint_dirty,
                    pending, manifest, cursor, history, backup, replaced,
                    consolidation, trail, mended, bounds >>

\* The process ends in the middle of an operation.
Interrupted ==
    /\ op # "none"
    /\ pc = "ready"
    /\ Crash
    /\ Ends
    /\ broken' = (broken \/ op = "rename")
    /\ UNCHANGED << backup, replaced, consolidation, trail, mended, bounds >>

-----------------------------------------------------------------------------
(* Backup                                                                  *)

\* backup_directory removes the destination first; without its manifest a
\* backup is not one.
BeginBackup ==
    /\ Begins("backup")
    /\ backup' = None
    /\ UNCHANGED << vars, staging, target, repaired, replaced, consolidation,
                    trail, broken, mended, writes >>

\* Mutant: the files of the deltas directory are not copied.
CopiedWithoutDeltas == [Directory EXCEPT !.deltas = {}]

\* copy_directory.
Copied == Directory

\* The copy, and the manifest with the checksums of its files and the report;
\* expected, exposure and trail are history.
CopyBackup ==
    /\ op = "backup"
    /\ backup' = [directory |-> Copied, listed |-> Copied,
                  integrity |-> verify_storage_layout(Copied),
                  expected |-> committed, exposure |-> exposure,
                  trail |-> trail, broken |-> broken]
    /\ op' = "none"
    /\ UNCHANGED << vars, staging, target, repaired, replaced, consolidation,
                    trail, broken, mended, bounds >>

-----------------------------------------------------------------------------
(* Restore                                                                 *)

verify_backup_directory(b) ==
    /\ b.directory = b.listed
    /\ b.integrity.wal_replay_valid
    /\ verify_storage_layout(b.directory) = b.integrity

\* restore_directory and restore_directory_to_lsn, up to the staged copy.
BeginRestore ==
    /\ backup # None
    /\ verify_backup_directory(backup)
    /\ Begins("stage")
    /\ staging' = None
    /\ \E lsn \in {None} \cup 0 .. MaxFrames + 1 : target' = lsn
    /\ UNCHANGED << vars, backup, repaired, replaced, consolidation, trail,
                    broken, mended, writes >>

\* Mutant: the record at the target is cut off as well.
RetainedBelow(d, lsn) == SelectSeq(Records(d), LAMBDA f : f.lsn < lsn)

\* The records that are kept.
Retained(d, lsn) == SelectSeq(Records(d), LAMBDA f : f.lsn <= lsn)

\* trim_restored_wal_to_lsn: the log is written again from LSN 1, which must
\* give every record its old LSN.  None: an error.
trim_restored_wal_to_lsn(d, lsn) ==
    LET checkpoint == d.published.last_applied_lsn
        latest == IF Records(d) = << >> THEN checkpoint ELSE Last(Records(d)).lsn
        kept == Retained(d, lsn)
        rewritten == [i \in DOMAIN kept |->
                        [kept[i] EXCEPT !.segment = 1 + (i - 1) \div SegmentFrames]]
    IN  IF lsn < checkpoint \/ lsn > latest \/ At(d)!ReplayFails
           \/ \E i \in DOMAIN kept : kept[i].lsn # i
        THEN None ELSE [d EXCEPT !.wal = rewritten]

\* The copy next to the store, trimmed and verified; a file may have been lost
\* since the backup was verified.
Stage ==
    /\ op = "stage"
    /\ \E copy \in {backup.directory, [backup.directory EXCEPT !.wal = << >>]} :
          LET trimmed == trim_restored_wal_to_lsn(copy, target)
              clean == IF target = None
                       THEN verify_backup_directory([backup EXCEPT !.directory = copy])
                       ELSE /\ trimmed # None
                            /\ verify_storage_layout(trimmed).snapshot_valid
                            /\ verify_storage_layout(trimmed).wal_replay_valid
          IN  \/ /\ clean
                 /\ staging' = IF target = None THEN copy ELSE trimmed
                 /\ op' = "remove"
                 /\ UNCHANGED << target, repaired >>
              \/ ~clean /\ Ends
    /\ UNCHANGED << vars, backup, replaced, consolidation, trail, broken,
                    mended, bounds >>

\* fs::remove_dir_all of the store: all of it, or as far as it comes before an
\* error, which ends the restore.
RemoveStore ==
    /\ op = "remove"
    /\ \E gone \in SUBSET {"wal", "snapshot", "manifest"} :
          /\ wal' = IF "wal" \in gone THEN << >> ELSE wal
          /\ segments' = IF "snapshot" \in gone THEN NoSnapshot ELSE segments
          /\ deltas' = IF "snapshot" \in gone THEN {} ELSE deltas
          /\ published' = IF "manifest" \in gone THEN EmptyManifest ELSE published
          /\ \/ /\ Cardinality(gone) = 3
                /\ op' = "rename"
                /\ UNCHANGED << staging, target, repaired, broken >>
             \/ /\ Cardinality(gone) < 3
                /\ Ends
                /\ broken' = TRUE
    /\ UNCHANGED << memory, history, backup, replaced, consolidation, trail,
                    mended, bounds >>

\* A compaction was cut off and left a snapshot the manifest does not know: it
\* holds what the records above the target have written.
Unpublished(d) == d.segments # d.published.snapshot

\* The copy of an earlier LSN is not the store at that LSN: the snapshot was
\* not published, or the log was lost, which only a full restore notices.
Untrue ==
    \/ Unpublished(backup.directory)
    \/ staging # trim_restored_wal_to_lsn(backup.listed, target)

\* The staged copy takes the place of the store, and the store is opened.
PromoteStaged ==
    /\ op = "rename"
    /\ wal' = staging.wal
    /\ segments' = staging.segments
    /\ deltas' = staging.deltas
    /\ published' = staging.published
    /\ Ends
    /\ LET last == IF target = None THEN Len(backup.trail)
                   ELSE Min({target + 1, Len(backup.trail)})
       IN  /\ trail' = SubSeq(backup.trail, 1, last)
           /\ committed' = IF target = None THEN backup.expected
                           ELSE backup.trail[last]
    /\ exposure' = IF backup.exposure = "at_risk" THEN "lost" ELSE backup.exposure
    /\ broken' = (backup.broken \/ (target # None /\ Untrue))
    /\ before' = None
    /\ mended' = FALSE
    /\ Reopen
    /\ UNCHANGED << compactions, backup, events, consolidation_log, unlogged,
                    bounds >>

-----------------------------------------------------------------------------
(* Repair                                                                  *)

\* What repair_storage reads: the published state, else the files as they are
\* with every delta, else the snapshots alone and the whole log.
LoadedForRepair(d) ==
    LET m == d.published.last_applied_lsn
    IN  IF load_published_state(d) # None
        THEN [graph |-> load_published_state(d), checkpoint |-> m]
        ELSE IF load_raw_published_state(d) # None
             THEN [graph |-> load_raw_published_state(d), checkpoint |-> m]
             ELSE [graph |-> At(d)!LoadedSnapshot, checkpoint |-> 0]

RepairedState(d) ==
    LET loaded == LoadedForRepair(d)
    IN  [graph |-> Replayed(d, loaded.graph, loaded.checkpoint),
         lsn |-> IF Above(d, loaded.checkpoint) = << >>
                 THEN d.published.last_applied_lsn
                 ELSE Last(Above(d, loaded.checkpoint)).lsn]

\* The files are read as they are, among them deltas of no manifest.
Misled(d) == load_published_state(d) = None /\ d.deltas # d.published.deltas

BeginRepair ==
    /\ ~ReplayFails
    /\ RepairedState(Directory).graph # None
    /\ Begins("repair_nodes")
    /\ repaired' = RepairedState(Directory)
    /\ broken' = (broken \/ Misled(Directory))
    /\ UNCHANGED << vars, files, target, replaced, consolidation, trail, mended,
                    writes >>

\* persist_state for the repaired graph.
RepairWrites(step, next, snapshot) ==
    /\ op = step
    /\ segments' = snapshot
    /\ op' = next
    /\ mended' = FALSE
    /\ UNCHANGED << wal, deltas, published, memory, history, files, target,
                    repaired, replaced, consolidation, trail, broken, bounds >>

Node(n) == repaired.graph[n]
RepairNodes ==
    RepairWrites("repair_nodes", "repair_edges", [segments EXCEPT !.nodes =
        [n \in NodeIds |-> IF Node(n) = Absent THEN Absent ELSE Node(n).body]])
RepairEdges ==
    RepairWrites("repair_edges", "repair_vectors", [segments EXCEPT !.edges =
        [e \in EdgeIds |-> repaired.graph[e]]])
RepairVectors ==
    RepairWrites("repair_vectors", "repair_manifest", [segments EXCEPT !.vectors =
        [n \in NodeIds |-> IF Node(n) = Absent THEN Absent ELSE Node(n).vectors]])

\* Mutant: the manifest keeps the checksums of the files that were replaced.
RepairManifestUnchanged ==
    /\ op = "repair_manifest"
    /\ published' = [published EXCEPT !.last_applied_lsn = repaired.lsn, !.deltas = {}]
    /\ exposure' = IF exposure = "at_risk" THEN "lost" ELSE exposure
    /\ Ends
    /\ mended' = TRUE
    /\ Reopen
    /\ UNCHANGED << wal, segments, deltas, committed, compactions, backup,
                    consolidation, trail, broken, bounds >>

\* The new manifest lists no deltas; their files stay.
RepairManifest ==
    /\ op = "repair_manifest"
    /\ published' = [last_applied_lsn |-> repaired.lsn, snapshot |-> segments,
                     deltas |-> {}]
    /\ exposure' = IF exposure = "at_risk" THEN "lost" ELSE exposure
    /\ Ends
    /\ mended' = TRUE
    /\ Reopen
    /\ UNCHANGED << wal, segments, deltas, committed, compactions, backup,
                    consolidation, trail, broken, bounds >>

-----------------------------------------------------------------------------
(* Memory consolidation                                                    *)

\* A body here: unique key or None, importance, whether its timestamp is older
\* than thirty days, archived, merged_into.
Upsert(g, ids) ==
    [EmptyBatch EXCEPT !.nodes_upserted =
        [i \in DOMAIN ids |-> [id |-> ids[i], value |-> g[ids[i]]]]]

\* Live nodes with the same unique key, in their order.
Group(g, k) ==
    SelectSeq(NodeOrder, LAMBDA n : Live(g, n) /\ g[n].body.key = k)

\* Mutant: the event can bring back the primary, not its duplicates.
MergeEventOfPrimary(g, group) ==
    [action |-> "merge", target |-> Head(group), related |-> Tail(group),
     reverse |-> Upsert(g, << Head(group) >>)]

MergeEvent(g, group) ==
    [action |-> "merge", target |-> Head(group), related |-> Tail(group),
     reverse |-> Upsert(g, Tail(group))]

NodeEvent(g, action, n) ==
    [action |-> action, target |-> n, related |-> << >>, reverse |-> Upsert(g, << n >>)]

\* MemoryConsolidator::analyze: duplicates by key, then isolated and stale
\* nodes; every event carries the records as they are before the first.
analyze(g) ==
    LET merges == [i \in DOMAIN MergeKeys |->
                     IF Len(Group(g, MergeKeys[i])) < 2 THEN << >>
                     ELSE << MergeEvent(g, Group(g, MergeKeys[i])) >>]
        isolated(n) == \A e \in EdgeIds : Live(g, e) => ~Incident(g[e], {n})
        ofNode(n) ==
            IF ~Live(g, n) THEN << >>
            ELSE (IF isolated(n) THEN << NodeEvent(g, "demote", n) >> ELSE << >>)
                 \o (IF g[n].body.stale THEN << NodeEvent(g, "archive", n) >> ELSE << >>)
    IN  FlattenSeq(merges) \o FlattenSeq([i \in DOMAIN NodeOrder |-> ofNode(NodeOrder[i])])

\* The batch is made from the nodes as they are when its turn comes.
batch_for_consolidation_event(event, g) ==
    LET ids == IF event.action = "merge" THEN event.related ELSE << event.target >>
        revised == [k \in Keys |->
            IF k \notin {ids[i] : i \in DOMAIN ids} THEN g[k]
            ELSE [g[k] EXCEPT !.body =
                CASE event.action = "merge" ->
                        [@ EXCEPT !.merged_into = event.target, !.archived = TRUE]
                  [] event.action = "demote" -> [@ EXCEPT !.importance = @ \div 2]
                  [] OTHER -> [@ EXCEPT !.archived = TRUE]]]
    IN  Upsert(revised, ids)

\* run_consolidation: the analysis, then for each event its record in the log,
\* its batch and its line in the consolidation log.
BeginConsolidation ==
    /\ pc = "ready"
    /\ analyze(graph) # << >>
    /\ Begins("consolidate")
    /\ events' = analyze(graph)
    /\ before' = [graph |-> graph, logged |-> Len(consolidation_log)]
    /\ unlogged' = None
    /\ UNCHANGED << vars, files, target, repaired, replaced, consolidation_log,
                    trail, broken, mended, writes >>

\* The record has no batch: for recovery it is like a checkpoint marker.
LogEvent ==
    /\ op = "consolidate"
    /\ WalAppend("checkpoint", EmptyBatch)
    /\ op' = "apply_event"
    /\ mended' = FALSE
    /\ UNCHANGED << segments, deltas, published, pc, graph, latest_applied_lsn,
                    checkpoint_dirty, pending, manifest, cursor, history, files,
                    target, repaired, replaced, consolidation, broken,
                    bounds >>
    /\ trail' = NewTrail

ApplyEvent ==
    /\ op = "apply_event"
    /\ apply_write_batch(batch_for_consolidation_event(Head(events), graph))
    /\ op' = "append_line"
    /\ unlogged' = Head(events)
    /\ trail' = NewTrail
    /\ mended' = FALSE
    /\ UNCHANGED << files, target, repaired, replaced, events, before,
                    consolidation_log, broken, bounds >>

append_json_line ==
    /\ op = "append_line"
    /\ consolidation_log' = Append(consolidation_log, Head(events))
    /\ unlogged' = None
    /\ events' = Tail(events)
    /\ op' = IF events' = << >> THEN "none" ELSE "consolidate"
    /\ UNCHANGED << vars, files, target, repaired, replaced, before, trail,
                    broken, mended, bounds >>

-----------------------------------------------------------------------------
MInit ==
    /\ Init
    /\ op = "none"
    /\ backup = None /\ staging = None /\ target = None
    /\ replaced = None /\ repaired = None
    /\ events = << >> /\ before = None /\ unlogged = None
    /\ consolidation_log = << >>
    /\ trail = << EmptyGraph >>
    /\ broken = FALSE /\ mended = FALSE
    /\ writes = 0 /\ operations = 0

Backup == BeginBackup \/ CopyBackup
Restore == BeginRestore \/ Stage \/ RemoveStore \/ PromoteStaged
Repair ==
    \/ BeginRepair \/ RepairNodes \/ RepairEdges \/ RepairVectors
    \/ RepairManifest
Consolidation == BeginConsolidation \/ LogEvent \/ ApplyEvent \/ append_json_line

MNext ==
    \/ ClientWrite \/ EngineStep \/ KeepServing
    \/ Backup \/ Restore \/ Repair \/ Consolidation
    \/ OperationFails \/ Interrupted

MSpec == MInit /\ [][MNext]_allVars

-----------------------------------------------------------------------------
(* Properties                                                              *)

\* What the engine serves is what was acknowledged, or, after a restore, what
\* was acknowledged when the backup was taken or at the LSN that was asked
\* for; a repair changes none of it.  Except behind a reused LSN, or after a
\* restore that stopped between the removal of the store and the renaming of
\* the copy, whose store does not open, or that went back to an LSN in a copy
\* with a snapshot that no manifest was written for or without its log; or
\* after a repair without a published state that found deltas no manifest lists.
MaintenanceKeepsCommitted ==
    (pc = "ready" /\ exposure # "lost" /\ ~broken) => graph = committed

\* A store is refused only behind a reused LSN, after a compaction or a repair
\* that was cut off while it replaced snapshot files, with a log above the
\* replay limit, or after a restore that stopped half-way; never after a
\* repair that ran to its end.
RefusedOnlyIfKnown ==
    /\ (pc = "refused" /\ op = "none") =>
          \/ exposure = "lost" \/ broken \/ Unpublished(Directory)
          \/ Len(wal) > MaxReplayFrames
    /\ mended => pc # "refused"

\* The events of the consolidation log, and at most the one whose line could
\* not be written, bring back the records that the consolidation changed.
ConsolidationReversible ==
    (before # None /\ exposure # "lost" /\ ~broken) =>
        LET logged == SubSeq(consolidation_log, before.logged + 1,
                             Len(consolidation_log))
            done == IF unlogged = None THEN logged ELSE Append(logged, unlogged)
            undo(g, event) == apply_batch_to_maps(g, event.reverse)
        IN  FoldLeft(undo, committed, Reverse(done)) = before.graph
=============================================================================
