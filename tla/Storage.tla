------------------------------- MODULE Storage ------------------------------
(***************************************************************************)
(* The durability side of StorageEngine (crates/storage/src/lib.rs) and    *)
(* the write-ahead log under it (crates/wal/src/lib.rs): what is on disk,  *)
(* what is in memory, and every step between two disk operations at which  *)
(* the process can stop or the operation can fail.                         *)
(*                                                                         *)
(* The engine runs under one lock, so client operations never interleave   *)
(* with each other; a checkpoint, a compaction and the opening of a store  *)
(* are split into the disk operations they perform, because a crash or an  *)
(* I/O error can fall between any two of them.  Recovery only reads the    *)
(* disk; it advances one delta entry or one WAL record at a time.          *)
(***************************************************************************)
EXTENDS Graph

CONSTANTS
    Batches,            \* the batches clients submit
    Faults,             \* I/O failures that may happen, see FaultKinds
    SegmentFrames,      \* frames a WAL segment file holds before rotation
    MaxFrames,          \* bound: frames in the WAL directory
    MaxReplayFrames,    \* wal.max_replay_bytes, counted in frames
    MaxCompactions      \* bound: compactions started

\* append_write  : the write fails and leaves nothing behind
\* append_torn   : the write fails, or the process dies, part-way
\* append_fsync  : the frame is written, then the fsync fails
\* delta_write, manifest_write, segment_write : write_atomically fails
\* remove        : an unlink fails
FaultKinds == {"append_write", "append_torn", "append_fsync", "delta_write",
               "manifest_write", "segment_write", "remove"}

ASSUME StorageAssumption ==
    /\ Batches \subseteq WriteBatches
    /\ Faults \subseteq FaultKinds
    /\ SegmentFrames \in Nat \ {0}
    /\ MaxFrames \in Nat
    /\ MaxReplayFrames \in Nat
    /\ MaxCompactions \in Nat

VARIABLES
    \* --- disk
    wal,                \* frames of all segment files, in file order
    segments,           \* the node, edge and vector snapshot files
    deltas,             \* the files of the deltas directory
    published,          \* manifest.json
    \* --- memory of the running engine
    pc,                 \* what the engine is about to do
    graph,              \* nodes and edges
    next_lsn,
    latest_applied_lsn, \* 0 stands for None
    checkpoint_dirty,
    pending,            \* pending_checkpoint_entries
    manifest,
    cursor,             \* position of an opening, deltas left to remove
    \* --- history and bounds
    committed,          \* the graph built by the acknowledged batches
    exposure,           \* see Exposures
    compactions         \* compactions started

disk    == << wal, segments, deltas, published >>
memory  == << pc, graph, next_lsn, latest_applied_lsn, checkpoint_dirty,
              pending, manifest, cursor >>
history == << committed, exposure, compactions >>
vars    == << disk, memory, history >>

-----------------------------------------------------------------------------
(* Types                                                                   *)

Lsns == Nat

\* A torn frame is the beginning of a frame.  Its length field promises more
\* bytes than follow it, so a reader stops there; but bytes appended behind it
\* may complete it into a frame that does not decode.
FrameKinds == {"write_batch", "checkpoint", "torn_hides", "torn_corrupts"}
Torn == {"torn_hides", "torn_corrupts"}

Frames  == [segment : Nat, lsn : Lsns, kind : FrameKinds, batch : WriteBatches]
Entries == [lsn : Lsns, batch : WriteBatches]
Deltas  == [first : Lsns, checkpoint : Lsns, entries : Seq(Entries)]

NodeSegments   == [NodeIds -> Bodies \cup {Absent}]
EdgeSegments   == [EdgeIds -> EdgeRecords \cup {Absent}]
VectorSegments == [NodeIds -> Vectors \cup {Absent}]

\* The three snapshot files, or the three checksums of a manifest; a checksum
\* identifies the contents it was computed from.  Absent: no file, no entry.
SnapshotFiles ==
    [nodes   : NodeSegments \cup {Absent},
     edges   : EdgeSegments \cup {Absent},
     vectors : VectorSegments \cup {Absent}]
NoSnapshot == [nodes |-> Absent, edges |-> Absent, vectors |-> Absent]

\* A file, however empty the map in it, is told from a missing file.
ASSUME FilesAssumption ==
    Absent \notin NodeSegments \cup EdgeSegments \cup VectorSegments

\* deltas: the entries of manifest.files under deltas/, each with its checksum.
Manifests ==
    [last_applied_lsn : Lsns, snapshot : SnapshotFiles, deltas : SUBSET Deltas]
EmptyManifest ==
    [last_applied_lsn |-> 0, snapshot |-> NoSnapshot, deltas |-> {}]

Opening     == {"load_segments", "load_deltas", "replay"}
Checkpointing == {"publish_delta", "publish_manifest"}
Compacting  == {"write_nodes", "write_edges", "write_vectors",
                "replace_manifest", "remove_deltas", "truncate_wal"}
Down == {"down", "refused"}
PCs  == {"ready"} \cup Opening \cup Checkpointing \cup Compacting \cup Down

Cursors ==
    [deltas : SUBSET Deltas, entries : Seq(Entries), frame : Nat \ {0}]
NoCursor == [deltas |-> {}, entries |-> << >>, frame |-> 1]

\* none: every acknowledged batch would be replayed; at_risk: one was logged
\* under an LSN the published manifest already covers; lost: the process
\* stopped while one was.
Exposures == {"none", "at_risk", "lost"}

TypeOK ==
    /\ wal \in Seq(Frames)
    /\ segments \in SnapshotFiles
    /\ deltas \subseteq Deltas
    /\ published \in Manifests
    /\ pc \in PCs
    /\ graph \in Graphs
    /\ next_lsn \in Nat \ {0}
    /\ latest_applied_lsn \in Lsns
    /\ checkpoint_dirty \in BOOLEAN
    /\ pending \in Seq(Entries)
    /\ manifest \in Manifests
    /\ cursor \in Cursors
    /\ committed \in Graphs
    /\ exposure \in Exposures
    /\ compactions \in Nat

-----------------------------------------------------------------------------
(* The write-ahead log                                                     *)

\* The segment that rotate_if_needed selects for the next frame.
ActiveSegment ==
    IF wal = << >> THEN 1
    ELSE LET last == wal[Len(wal)].segment
             full == /\ Len(wal) >= SegmentFrames
                     /\ wal[Len(wal) - SegmentFrames + 1].segment = last
         IN  IF full THEN last + 1 ELSE last

Frame(kind, b) ==
    [segment |-> ActiveSegment, lsn |-> next_lsn, kind |-> kind, batch |-> b]

\* Wal::append succeeds.  The caller learns next_lsn as the record's LSN.
WalAppend(kind, b) ==
    /\ Len(wal) < MaxFrames
    /\ wal' = Append(wal, Frame(kind, b))
    /\ next_lsn' = next_lsn + 1

\* Wal::append returns an error: next_lsn does not move, whatever the write
\* left in the file stays there.
WalAppendFails(kind, b) ==
    /\ Len(wal) < MaxFrames
    /\ \/ "append_write" \in Faults /\ wal' = wal
       \/ "append_torn" \in Faults
          /\ \E k \in Torn : wal' = Append(wal, Frame(k, EmptyBatch))
       \/ "append_fsync" \in Faults /\ wal' = Append(wal, Frame(kind, b))
    /\ UNCHANGED << next_lsn >>

\* A torn frame in front of frame i, in the same file.
BehindTorn(i) ==
    \E j \in DOMAIN wal :
        j < i /\ wal[j].segment = wal[i].segment /\ wal[j].kind \in Torn

\* replay_from_dir returns frame i.
Readable(i) == wal[i].kind \notin Torn /\ ~BehindTorn(i)

\* A frame that does not decode.
Undecodable ==
    \E i \in DOMAIN wal :
        /\ wal[i].kind = "torn_corrupts"
        /\ ~BehindTorn(i)
        /\ i + 1 \in DOMAIN wal
        /\ wal[i + 1].segment = wal[i].segment

\* replay_from_dir fails: too many bytes, or a frame that does not decode.
ReplayFails == Len(wal) > MaxReplayFrames \/ Undecodable

\* Wal::open: one past the last readable record.
ReopenedLsn ==
    LET readable == {i \in DOMAIN wal : Readable(i)}
    IN  IF readable = {} THEN 1
        ELSE wal[CHOOSE i \in readable : \A j \in readable : j <= i].lsn + 1

-----------------------------------------------------------------------------
(* Client writes                                                           *)

\* Mutant: the namespaces of an edge's ends are not compared.
AcceptedUnnormalized(b) ==
    b # EmptyBatch /\ validate_batch_against_maps(graph, b)

Accepted(b) ==
    /\ Normalized(b)
    /\ b # EmptyBatch
    /\ validate_batch_against_maps(graph, b)

apply_write_batch(b) ==
    /\ pc = "ready"
    /\ Accepted(b)
    /\ WalAppend("write_batch", b)
    /\ graph' = apply_batch_to_maps_unchecked(graph, b)
    /\ latest_applied_lsn' = next_lsn
    /\ checkpoint_dirty' = TRUE
    /\ pending' = Append(pending, [lsn |-> next_lsn, batch |-> b])
    /\ committed' = apply_batch_to_maps_unchecked(committed, b)
    /\ exposure' = IF exposure = "none"
                        /\ next_lsn <= published.last_applied_lsn
                   THEN "at_risk" ELSE exposure
    /\ UNCHANGED << segments, deltas, published, pc, manifest, cursor,
                    compactions >>

apply_write_batch_fails(b) ==
    /\ pc = "ready"
    /\ Accepted(b)
    /\ WalAppendFails("write_batch", b)
    /\ UNCHANGED << segments, deltas, published, pc, graph,
                    latest_applied_lsn, checkpoint_dirty, pending, manifest,
                    cursor, history >>

-----------------------------------------------------------------------------
(* Checkpoint and graceful shutdown: publish_checkpoint                    *)

BeginCheckpoint ==
    /\ pc = "ready"
    /\ WalAppend("checkpoint", EmptyBatch)
    /\ latest_applied_lsn' = next_lsn
    /\ pc' = IF pending # << >> THEN "publish_delta" ELSE "publish_manifest"
    /\ UNCHANGED << segments, deltas, published, graph, checkpoint_dirty,
                    pending, manifest, cursor, history >>

\* The marker of a checkpoint or of a compaction cannot be logged.
MarkerFails ==
    /\ pc = "ready"
    /\ WalAppendFails("checkpoint", EmptyBatch)
    /\ UNCHANGED << segments, deltas, published, pc, graph,
                    latest_applied_lsn, checkpoint_dirty, pending, manifest,
                    cursor, history >>

PendingDelta ==
    [first |-> pending[1].lsn, checkpoint |-> latest_applied_lsn,
     entries |-> pending]

\* Put a delta under its file name, over a file of the same name.
Replacing(ds, d) ==
    {o \in ds : <<o.first, o.checkpoint>> # <<d.first, d.checkpoint>>} \cup {d}

\* The pending entries are moved into the delta, whether or not its file can
\* be written.
PublishDelta ==
    /\ pc = "publish_delta"
    /\ pending' = << >>
    /\ \/ /\ deltas' = Replacing(deltas, PendingDelta)
          /\ manifest' = [manifest EXCEPT
                            !.deltas = Replacing(manifest.deltas, PendingDelta)]
          /\ pc' = "publish_manifest"
       \/ /\ "delta_write" \in Faults
          /\ pc' = "ready"
          /\ UNCHANGED << deltas, manifest >>
    /\ UNCHANGED << wal, segments, published, graph, next_lsn,
                    latest_applied_lsn, checkpoint_dirty, cursor, history >>

\* persist_manifest renames the new manifest into place.
Publish(m) ==
    /\ published' = m
    /\ exposure' = IF exposure = "at_risk" THEN "none" ELSE exposure

\* Mutant: a failed publication does not give the checkpoint up, and is not
\* repeated because the manifest in memory has the LSN already.
PublishManifestOnce ==
    /\ pc = "publish_manifest"
    /\ manifest.last_applied_lsn # latest_applied_lsn
    /\ manifest' = [manifest EXCEPT !.last_applied_lsn = latest_applied_lsn]
    /\ \/ Publish(manifest') /\ checkpoint_dirty' = FALSE /\ pc' = "ready"
       \/ /\ "manifest_write" \in Faults
          /\ UNCHANGED << published, exposure, checkpoint_dirty, pc >>
    /\ UNCHANGED << wal, segments, deltas, graph, next_lsn,
                    latest_applied_lsn, pending, cursor, committed,
                    compactions >>

PublishManifest ==
    /\ pc = "publish_manifest"
    /\ manifest' = [manifest EXCEPT !.last_applied_lsn = latest_applied_lsn]
    /\ \/ Publish(manifest') /\ checkpoint_dirty' = FALSE
       \/ /\ "manifest_write" \in Faults
          /\ UNCHANGED << published, exposure, checkpoint_dirty >>
    /\ pc' = "ready"
    /\ UNCHANGED << wal, segments, deltas, graph, next_lsn,
                    latest_applied_lsn, pending, cursor, committed,
                    compactions >>

-----------------------------------------------------------------------------
(* Compaction: compact and persist_state                                   *)

NodeSnapshot ==
    [n \in NodeIds |-> IF Live(graph, n) THEN graph[n].body ELSE Absent]
EdgeSnapshot == [e \in EdgeIds |-> graph[e]]
VectorSnapshot ==
    [n \in NodeIds |-> IF Live(graph, n) THEN graph[n].vectors ELSE Absent]

BeginCompaction ==
    /\ pc = "ready"
    /\ compactions < MaxCompactions
    /\ compactions' = compactions + 1
    /\ WalAppend("checkpoint", EmptyBatch)
    /\ latest_applied_lsn' = next_lsn
    /\ pc' = "write_nodes"
    /\ UNCHANGED << segments, deltas, published, graph, checkpoint_dirty,
                    pending, manifest, cursor, committed, exposure >>

\* One snapshot file is renamed into place, or the compaction gives up.
WriteSegment(from, to, files) ==
    /\ pc = from
    /\ \/ segments' = files /\ pc' = to
       \/ /\ "segment_write" \in Faults
          /\ segments' = segments /\ pc' = "ready"
    /\ UNCHANGED << wal, deltas, published, graph, next_lsn,
                    latest_applied_lsn, checkpoint_dirty, pending, manifest,
                    cursor, history >>

WriteNodes ==
    WriteSegment("write_nodes", "write_edges",
                 [segments EXCEPT !.nodes = NodeSnapshot])
WriteEdges ==
    WriteSegment("write_edges", "write_vectors",
                 [segments EXCEPT !.edges = EdgeSnapshot])
WriteVectors ==
    WriteSegment("write_vectors", "replace_manifest",
                 [segments EXCEPT !.vectors = VectorSnapshot])

\* Mutant: the new manifest still lists the deltas it replaces.
ReplaceManifestKeepingDeltas ==
    /\ pc = "replace_manifest"
    /\ manifest' = [manifest EXCEPT !.last_applied_lsn = latest_applied_lsn,
                                    !.snapshot = segments]
    /\ Publish(manifest')
    /\ cursor' = [NoCursor EXCEPT !.deltas = manifest.deltas]
    /\ pc' = "remove_deltas"
    /\ UNCHANGED << wal, segments, deltas, graph, next_lsn,
                    latest_applied_lsn, checkpoint_dirty, pending, committed,
                    compactions >>

\* The manifest in memory changes before its file is written.
ReplaceManifest ==
    /\ pc = "replace_manifest"
    /\ manifest' = [last_applied_lsn |-> latest_applied_lsn,
                    snapshot |-> segments, deltas |-> {}]
    /\ \/ /\ Publish(manifest')
          /\ cursor' = [NoCursor EXCEPT !.deltas = manifest.deltas]
          /\ pc' = "remove_deltas"
       \/ /\ "manifest_write" \in Faults
          /\ pc' = "ready"
          /\ UNCHANGED << published, exposure, cursor >>
    /\ UNCHANGED << wal, segments, deltas, graph, next_lsn,
                    latest_applied_lsn, checkpoint_dirty, pending, committed,
                    compactions >>

\* Remove the files of the delta segments the new snapshot replaces.
RemoveDeltas ==
    /\ pc = "remove_deltas"
    /\ \/ /\ cursor.deltas # {}
          /\ \E d \in cursor.deltas :
                /\ cursor' = [cursor EXCEPT !.deltas = @ \ {d}]
                /\ deltas' = {o \in deltas : <<o.first, o.checkpoint>>
                                                # <<d.first, d.checkpoint>>}
          /\ UNCHANGED << pc, pending, checkpoint_dirty >>
       \/ /\ cursor.deltas = {}
          /\ pc' = "truncate_wal"
          /\ pending' = << >>
          /\ checkpoint_dirty' = FALSE
          /\ UNCHANGED << deltas, cursor >>
       \/ /\ cursor.deltas # {}
          /\ "remove" \in Faults
          /\ pc' = "ready"
          /\ cursor' = NoCursor
          /\ UNCHANGED << deltas, pending, checkpoint_dirty >>
    /\ UNCHANGED << wal, segments, published, graph, next_lsn,
                    latest_applied_lsn, manifest, history >>

\* The place of the last frame of the first segment file.
OldestSegmentEnds ==
    {i \in DOMAIN wal :
        /\ wal[i].segment = wal[1].segment
        /\ i + 1 \in DOMAIN wal => wal[i + 1].segment # wal[1].segment}

\* truncate_all_segments: the segment files go one by one, oldest first; only
\* then does the log start again at LSN 1.
TruncateWal ==
    /\ pc = "truncate_wal"
    /\ \/ /\ \E last \in OldestSegmentEnds :
                wal' = SubSeq(wal, last + 1, Len(wal))
          /\ UNCHANGED << pc, next_lsn >>
       \/ /\ wal = << >>
          /\ next_lsn' = 1
          /\ pc' = "ready"
          /\ UNCHANGED wal
       \/ /\ wal # << >>
          /\ "remove" \in Faults
          /\ pc' = "ready"
          /\ UNCHANGED << wal, next_lsn >>
    /\ UNCHANGED << segments, deltas, published, graph, latest_applied_lsn,
                    checkpoint_dirty, pending, manifest, cursor, history >>

-----------------------------------------------------------------------------
(* Stopping and opening                                                    *)

\* The process ends.  An append it was in the middle of may leave a torn frame.
Crash ==
    /\ pc \notin Down
    /\ \/ wal' = wal
       \/ /\ "append_torn" \in Faults
          /\ pc = "ready"
          /\ Len(wal) < MaxFrames
          /\ \E k \in Torn : wal' = Append(wal, Frame(k, EmptyBatch))
    /\ pc' = "down"
    /\ graph' = EmptyGraph
    /\ next_lsn' = 1
    /\ latest_applied_lsn' = 0
    /\ checkpoint_dirty' = FALSE
    /\ pending' = << >>
    /\ manifest' = EmptyManifest
    /\ cursor' = NoCursor
    /\ exposure' = IF exposure = "at_risk" THEN "lost" ELSE exposure
    /\ UNCHANGED << segments, deltas, published, committed, compactions >>

\* An opening ends in an error: the process exits and is started again, and
\* meets the same files.
Refuse ==
    /\ pc' = "refused"
    /\ graph' = EmptyGraph
    /\ next_lsn' = 1
    /\ latest_applied_lsn' = 0
    /\ checkpoint_dirty' = FALSE
    /\ pending' = << >>
    /\ manifest' = EmptyManifest
    /\ cursor' = NoCursor

\* bootstrap reads the manifest, Wal::open reads the whole log.
Open ==
    /\ pc \in Down
    /\ \/ /\ ~ReplayFails
          /\ pc' = "load_segments"
          /\ manifest' = published
          /\ next_lsn' = ReopenedLsn
          /\ UNCHANGED << graph, latest_applied_lsn, checkpoint_dirty, pending,
                          cursor >>
       \/ ReplayFails /\ Refuse
    /\ UNCHANGED << disk, history >>

\* read_verified_file: a file the manifest does not list is not verified.
Verified(file, checksum) == file = Absent \/ checksum = Absent \/ file = checksum

\* Mutant: a missing vector file is not told from an empty vector map.
LoadedSnapshotMissingVectors ==
    [k \in Keys |->
        IF k \in NodeIds
        THEN IF segments.nodes = Absent \/ segments.nodes[k] = Absent
             THEN Absent
             ELSE [body |-> segments.nodes[k],
                   vectors |-> IF segments.vectors = Absent THEN Absent
                               ELSE segments.vectors[k]]
        ELSE IF segments.edges = Absent THEN Absent ELSE segments.edges[k]]

\* load_node_state and attach_vectors.
LoadedNode(n) ==
    IF segments.nodes = Absent \/ segments.nodes[n] = Absent THEN Absent
    ELSE [body |-> segments.nodes[n],
          vectors |-> IF segments.vectors = Absent
                         \/ segments.vectors[n] = Absent
                      THEN NoVectors ELSE segments.vectors[n]]

\* load_edge_state.
LoadedEdge(e) ==
    IF segments.edges = Absent THEN Absent ELSE segments.edges[e]

LoadedSnapshot ==
    [k \in Keys |-> IF k \in NodeIds THEN LoadedNode(k) ELSE LoadedEdge(k)]

LoadSegments ==
    /\ pc = "load_segments"
    /\ LET verified ==
              /\ Verified(segments.nodes, manifest.snapshot.nodes)
              /\ Verified(segments.edges, manifest.snapshot.edges)
              /\ Verified(segments.vectors, manifest.snapshot.vectors)
       IN  \/ /\ verified
              /\ graph' = LoadedSnapshot
              /\ cursor' = [NoCursor EXCEPT !.deltas = manifest.deltas]
              /\ pc' = "load_deltas"
              /\ UNCHANGED << next_lsn, latest_applied_lsn, checkpoint_dirty,
                              pending, manifest >>
           \/ ~verified /\ Refuse
    /\ UNCHANGED << disk, history >>

\* Delta files are read in the order of their names.
NextDelta ==
    CHOOSE d \in cursor.deltas : \A o \in cursor.deltas :
        d.first < o.first \/ (d.first = o.first /\ d.checkpoint <= o.checkpoint)

\* The next entry does not fit the graph loaded so far, or the next file is
\* missing or fails its checksum.
DeltaUnusable ==
    IF cursor.entries # << >>
    THEN ~validate_batch_against_maps(graph, Head(cursor.entries).batch)
    ELSE cursor.deltas # {} /\ NextDelta \notin deltas

\* One entry of the current delta, the next file, or the end of the deltas.
LoadDeltas ==
    /\ pc = "load_deltas"
    /\ \/ /\ ~DeltaUnusable
          /\ cursor.entries # << >>
          /\ graph' = apply_batch_to_maps_unchecked(
                          graph, Head(cursor.entries).batch)
          /\ cursor' = [cursor EXCEPT !.entries = Tail(@)]
          /\ UNCHANGED << pc, next_lsn, latest_applied_lsn, checkpoint_dirty,
                          pending, manifest >>
       \/ /\ ~DeltaUnusable
          /\ cursor.entries = << >>
          /\ cursor.deltas # {}
          /\ cursor' = [cursor EXCEPT !.deltas = @ \ {NextDelta},
                                      !.entries = NextDelta.entries]
          /\ UNCHANGED << pc, graph, next_lsn, latest_applied_lsn,
                          checkpoint_dirty, pending, manifest >>
       \/ /\ cursor.entries = << >>
          /\ cursor.deltas = {}
          /\ pc' = "replay"
          /\ UNCHANGED << graph, next_lsn, latest_applied_lsn,
                          checkpoint_dirty, pending, manifest, cursor >>
       \/ DeltaUnusable /\ Refuse
    /\ UNCHANGED << disk, history >>

\* Mutant: the first record behind the checkpoint is taken for covered.
SkippedOneMore(i) ==
    ~Readable(i) \/ wal[i].lsn <= manifest.last_applied_lsn + 1

\* recover: the frame under the cursor is not replayed.
Skipped(i) == ~Readable(i) \/ wal[i].lsn <= manifest.last_applied_lsn

\* Mutant: replayed records do not go into the next checkpoint.
PendingForgotten(i) == pending

\* A replayed record is pending again, to go into the next checkpoint.
PendingAgain(i) ==
    Append(pending, [lsn |-> wal[i].lsn, batch |-> wal[i].batch])

\* recover, one frame at a time; at the end the engine is open.
Replay ==
    /\ pc = "replay"
    /\ LET i == cursor.frame
           seen == /\ latest_applied_lsn' = wal[i].lsn
                   /\ checkpoint_dirty' = TRUE
           advance == cursor' = [cursor EXCEPT !.frame = i + 1]
       IN \/ /\ i <= Len(wal)
             /\ Skipped(i)
             /\ advance
             /\ UNCHANGED << pc, graph, next_lsn, latest_applied_lsn,
                             checkpoint_dirty, pending, manifest >>
          \/ /\ i <= Len(wal)
             /\ ~Skipped(i)
             /\ wal[i].kind = "checkpoint"
             /\ seen /\ advance
             /\ UNCHANGED << pc, graph, next_lsn, pending, manifest >>
          \/ /\ i <= Len(wal)
             /\ ~Skipped(i)
             /\ wal[i].kind = "write_batch"
             /\ validate_batch_against_maps(graph, wal[i].batch)
             /\ graph' = apply_batch_to_maps_unchecked(graph, wal[i].batch)
             /\ pending' = PendingAgain(i)
             /\ seen /\ advance
             /\ UNCHANGED << pc, next_lsn, manifest >>
          \/ /\ i <= Len(wal)
             /\ ~Skipped(i)
             /\ wal[i].kind = "write_batch"
             /\ ~validate_batch_against_maps(graph, wal[i].batch)
             /\ Refuse
          \/ /\ i > Len(wal)
             /\ pc' = "ready"
             /\ latest_applied_lsn' = IF checkpoint_dirty
                                      THEN latest_applied_lsn
                                      ELSE manifest.last_applied_lsn
             /\ cursor' = NoCursor
             /\ UNCHANGED << graph, next_lsn, checkpoint_dirty, pending,
                             manifest >>
    /\ UNCHANGED << disk, history >>

-----------------------------------------------------------------------------
(* The specification                                                       *)

\* A new storage root that bootstrap has just prepared and opened.
Init ==
    /\ wal = << >>
    /\ segments = NoSnapshot
    /\ deltas = {}
    /\ published = EmptyManifest
    /\ pc = "ready"
    /\ graph = EmptyGraph
    /\ next_lsn = 1
    /\ latest_applied_lsn = 0
    /\ checkpoint_dirty = FALSE
    /\ pending = << >>
    /\ manifest = EmptyManifest
    /\ cursor = NoCursor
    /\ committed = EmptyGraph
    /\ exposure = "none"
    /\ compactions = 0

Checkpoint == BeginCheckpoint \/ PublishDelta \/ PublishManifest
Compaction ==
    \/ BeginCompaction \/ WriteNodes \/ WriteEdges \/ WriteVectors
    \/ ReplaceManifest \/ RemoveDeltas \/ TruncateWal
Recovery == Open \/ LoadSegments \/ LoadDeltas \/ Replay

Next ==
    \/ \E b \in Batches : apply_write_batch(b) \/ apply_write_batch_fails(b)
    \/ MarkerFails
    \/ Checkpoint
    \/ Compaction
    \/ Crash
    \/ Recovery

\* The thread that runs an operation finishes it, and a supervisor starts the
\* process again after it stopped.
Fairness ==
    /\ WF_vars(Recovery)
    /\ WF_vars(PublishDelta \/ PublishManifest)
    /\ WF_vars(WriteNodes \/ WriteEdges \/ WriteVectors \/ ReplaceManifest
                  \/ RemoveDeltas \/ TruncateWal)

Spec == Init /\ [][Next]_vars /\ Fairness

-----------------------------------------------------------------------------
(* Properties                                                              *)

\* A batch whose write call returned Ok is part of every graph the engine
\* serves from then on, across crashes, checkpoints, compactions and I/O
\* errors, and a batch whose call returned an error never is.
AckedWritesSurvive == pc = "ready" => graph = committed

\* The same, except after a crash in the window that compaction opens: it
\* restarts the log at LSN 1 while the published manifest keeps the LSN of the
\* compaction, so recover skips every batch logged below that LSN.
SurviveUnlessShadowed ==
    pc = "ready" /\ exposure # "lost" => graph = committed

\* A store whose files only this engine has touched can be opened again: no
\* checksum, delta or WAL replay error stops StorageEngine::open, except in the
\* window of SurviveUnlessShadowed, in which a batch may be replayed without
\* the one it builds on, and from a second compaction on, which replaces files
\* that the published manifest holds checksums of.
RefusedOnlyIfShadowed ==
    pc = "refused" => exposure = "lost" \/ compactions > 1

\* No edge of an open engine is missing an end point, although recovery
\* starts from files that were replaced one at a time.
NoDanglingEdges == pc = "ready" => Closed(graph)

\* No edge connects two namespaces, not even while an opening is replaying
\* files that were written under an earlier state of the graph.
NamespaceIsolation == NamespaceLocal(graph)

\* Once the process stops crashing, an opening, a checkpoint and a compaction
\* all come to an end with an engine that serves requests.
ReturnsToService == <>[][~Crash]_vars => (pc # "ready" ~> pc = "ready")

\* What clients see is the abstract store: batches applied whole, nothing lost
\* or invented by a restart.
Served == INSTANCE DurableGraph
    WITH store <- IF pc \in Down \cup Opening THEN committed ELSE graph,
         up    <- pc \notin Down \cup Opening
ImplementsDurableGraph == Served!DGSpec
=============================================================================
