--------------------------- MODULE StorageProofs ----------------------------
(***************************************************************************)
(* The durability layer for all constants: type correctness, isolation of  *)
(* namespaces and absence of dangling edges under any of the faults; that  *)
(* acknowledged batches survive and the store opens again, and that the    *)
(* engine implements DurableGraph, under the faults of Tolerated.          *)
(***************************************************************************)
EXTENDS Storage, GraphProofs

-----------------------------------------------------------------------------
(* Sequences of anything                                                   *)

LEMMA AppendIn ==
    ASSUME NEW S, NEW s \in Seq(S), NEW x \in S
    PROVE  /\ Append(s, x) \in Seq(S)
           /\ \A i \in DOMAIN Append(s, x) :
                 Append(s, x)[i] = x \/ \E j \in DOMAIN s : Append(s, x)[i] = s[j]
<1>1. /\ Append(s, x) \in Seq(S)
      /\ Len(s) \in Nat /\ DOMAIN s = 1 .. Len(s)
      /\ DOMAIN Append(s, x) = 1 .. (Len(s) + 1)
      /\ Append(s, x)[Len(s) + 1] = x
      /\ \A i \in 1 .. Len(s) : Append(s, x)[i] = s[i]
  OBVIOUS
<1> QED BY <1>1

LEMMA TailIn ==
    ASSUME NEW S, NEW s \in Seq(S), s # << >>
    PROVE  /\ Tail(s) \in Seq(S) /\ Head(s) \in S
           /\ \E j \in DOMAIN s : Head(s) = s[j]
           /\ \A i \in DOMAIN Tail(s) : \E j \in DOMAIN s : Tail(s)[i] = s[j]
<1>1. /\ Tail(s) \in Seq(S) /\ Head(s) \in S /\ Head(s) = s[1]
      /\ Len(s) \in Nat \ {0} /\ DOMAIN s = 1 .. Len(s)
      /\ DOMAIN Tail(s) = 1 .. (Len(s) - 1)
      /\ \A i \in 1 .. (Len(s) - 1) : Tail(s)[i] = s[i + 1]
  OBVIOUS
<1> QED BY <1>1

LEMMA SuffixIn ==
    ASSUME NEW S, NEW s \in Seq(S), NEW n \in DOMAIN s
    PROVE  /\ SubSeq(s, n + 1, Len(s)) \in Seq(S)
           /\ \A i \in DOMAIN SubSeq(s, n + 1, Len(s)) :
                 \E j \in DOMAIN s : SubSeq(s, n + 1, Len(s))[i] = s[j]
<1> DEFINE t == SubSeq(s, n + 1, Len(s))
<1>1. Len(s) \in Nat /\ DOMAIN s = 1 .. Len(s) /\ n \in Nat /\ n <= Len(s) /\ 1 <= n
  OBVIOUS
<1>2. /\ t \in Seq(S) /\ DOMAIN t = 1 .. (Len(s) - n)
      /\ \A i \in 1 .. (Len(s) - n) : t[i] = s[n + i]
  BY <1>1
<1>3. \A i \in 1 .. (Len(s) - n) : n + i \in DOMAIN s
  BY <1>1
<1> HIDE DEF t
<1>4. \A i \in DOMAIN t : \E j \in DOMAIN s : t[i] = s[j]
  BY <1>2, <1>3
<1> QED BY <1>2, <1>4 DEF t

-----------------------------------------------------------------------------
(* Types                                                                   *)

LEMMA ConstantTypes ==
    /\ EmptyManifest \in Manifests
    /\ NoSnapshot \in SnapshotFiles
    /\ NoCursor \in Cursors
BY DEF EmptyManifest, Manifests, NoSnapshot, SnapshotFiles, NoCursor, Cursors,
       Lsns

LEMMA FrameType ==
    ASSUME TypeOK, NEW kind \in FrameKinds, NEW b \in WriteBatches
    PROVE  Frame(kind, b) \in Frames
<1>1. ActiveSegment \in Nat
  <2>1. CASE wal = << >>
    BY <2>1 DEF ActiveSegment
  <2>2. CASE wal # << >>
    <3>1. wal[Len(wal)] \in Frames
      BY <2>2 DEF TypeOK
    <3>2. wal[Len(wal)].segment \in Nat
      BY <3>1 DEF Frames
    <3> QED BY <2>2, <3>2 DEF ActiveSegment
  <2> QED BY <2>1, <2>2
<1> QED BY <1>1 DEF Frame, Frames, TypeOK, Lsns

LEMMA LoggedType ==
    ASSUME TypeOK, NEW kind \in FrameKinds, NEW b \in WriteBatches
    PROVE  Append(wal, Frame(kind, b)) \in Seq(Frames)
<1>1. wal \in Seq(Frames) /\ Frame(kind, b) \in Frames
  BY FrameType DEF TypeOK
<1> QED BY <1>1, AppendIn

LEMMA FailedAppendType ==
    ASSUME TypeOK, NEW kind \in {"write_batch", "checkpoint"},
           NEW b \in WriteBatches, WalAppendFails(kind, b)
    PROVE  wal' \in Seq(Frames)
<1>1. \A k \in Torn : k \in FrameKinds
  BY DEF Torn, FrameKinds
<1>2. kind \in FrameKinds
  BY DEF FrameKinds
<1> QED BY <1>1, <1>2, LoggedType, EmptyBatchFacts DEF WalAppendFails, TypeOK

LEMMA SnapshotTypes ==
    ASSUME TypeOK
    PROVE  /\ NodeSnapshot \in NodeSegments
           /\ EdgeSnapshot \in EdgeSegments
           /\ VectorSnapshot \in VectorSegments
<1>1. /\ \A n \in NodeIds : graph[n] \in NodeRecords \cup {Absent}
      /\ \A e \in EdgeIds : graph[e] \in EdgeRecords \cup {Absent}
  BY DEF TypeOK, Graphs
<1>2. \A n \in NodeIds : Live(graph, n) =>
         graph[n].body \in Bodies /\ graph[n].vectors \in Vectors
  BY <1>1 DEF Live, NodeRecords
<1> QED BY <1>1, <1>2 DEF NodeSnapshot, EdgeSnapshot, VectorSnapshot,
           NodeSegments, EdgeSegments, VectorSegments

\* Whatever mixture of files is on disk, they load as a graph.
LEMMA LoadedType ==
    ASSUME TypeOK
    PROVE  LoadedSnapshot \in Graphs
<1>1. /\ segments.nodes \in NodeSegments \cup {Absent}
      /\ segments.edges \in EdgeSegments \cup {Absent}
      /\ segments.vectors \in VectorSegments \cup {Absent}
  BY DEF TypeOK, SnapshotFiles
<1>2. \A n \in NodeIds : LoadedNode(n) \in NodeRecords \cup {Absent}
  BY <1>1, GraphAssumption
  DEF LoadedNode, NodeSegments, VectorSegments, NodeRecords
<1>3. \A e \in EdgeIds : LoadedEdge(e) \in EdgeRecords \cup {Absent}
  BY <1>1 DEF LoadedEdge, EdgeSegments
<1> QED BY <1>2, <1>3, GraphAssumption DEF LoadedSnapshot, Graphs, Keys

LEMMA ReopenedType ==
    ASSUME TypeOK
    PROVE  ReopenedLsn \in Nat \ {0}
<1> DEFINE readable == {i \in DOMAIN wal : Readable(i)}
<1>1. wal \in Seq(Frames) /\ readable \in SUBSET (1 .. Len(wal)) /\ Len(wal) \in Nat
  BY DEF TypeOK
<1>2. CASE readable = {}
  BY <1>2 DEF ReopenedLsn
<1>3. CASE readable # {}
  <2> DEFINE m == CHOOSE i \in readable : \A j \in readable : j <= i
  <2>1. \E x \in readable : \A y \in readable : y <= x
    <3> HIDE DEF readable
    <3> QED BY <1>1, <1>3, GreatestNatural
  <2>2. m \in DOMAIN wal
    BY <2>1
  <2>3. wal[m] \in Frames
    <3> HIDE DEF m
    <3> QED BY <1>1, <2>2
  <2>4. wal[m].lsn \in Nat
    BY <2>3 DEF Frames, Lsns
  <2>5. ReopenedLsn = wal[m].lsn + 1
    BY <1>3 DEF ReopenedLsn
  <2> QED BY <2>4, <2>5
<1> QED BY <1>2, <1>3

\* The memory of a process that is not running.
LEMMA RefuseType ==
    ASSUME TypeOK, Refuse, UNCHANGED << disk, history >>
    PROVE  TypeOK'
<1>1. /\ wal' \in Seq(Frames) /\ segments' \in SnapshotFiles
      /\ deltas' \subseteq Deltas /\ published' \in Manifests
      /\ committed' \in Graphs /\ exposure' \in Exposures /\ compactions' \in Nat
  BY DEF TypeOK, disk, history
<1>2. pc' \in PCs /\ next_lsn' \in Nat \ {0} /\ latest_applied_lsn' \in Lsns
  BY DEF Refuse, PCs, Down, Lsns
<1>3. /\ graph' \in Graphs /\ manifest' \in Manifests /\ cursor' \in Cursors
      /\ pending' \in Seq(Entries)
  BY ConstantTypes, EmptyGraphFacts DEF Refuse
<1>4. checkpoint_dirty' \in BOOLEAN
  BY DEF Refuse
<1> QED BY <1>1, <1>2, <1>3, <1>4 DEF TypeOK

LEMMA WriteType ==
    ASSUME TypeOK, NEW b \in Batches, apply_write_batch(b)
    PROVE  TypeOK'
<1>1. b \in WriteBatches /\ "write_batch" \in FrameKinds
  BY StorageAssumption DEF FrameKinds
<1>2. wal' \in Seq(Frames)
  BY <1>1, LoggedType DEF apply_write_batch, WalAppend
<1>3. graph' \in Graphs /\ committed' \in Graphs
  BY <1>1, ApplyType DEF apply_write_batch, TypeOK
<1>4. pending' \in Seq(Entries)
  <2> DEFINE entry == [lsn |-> next_lsn, batch |-> b]
  <2>1. entry \in Entries /\ pending \in Seq(Entries)
    BY <1>1 DEF Entries, TypeOK, Lsns
  <2> HIDE DEF entry
  <2>2. Append(pending, entry) \in Seq(Entries)
    BY <2>1, AppendIn
  <2> QED BY <2>2 DEF apply_write_batch, entry
<1>5. exposure' \in Exposures
  BY DEF apply_write_batch, TypeOK, Exposures
<1>6. next_lsn' \in Nat \ {0} /\ latest_applied_lsn' \in Lsns
  BY DEF apply_write_batch, WalAppend, TypeOK, Lsns
<1>7. checkpoint_dirty' \in BOOLEAN
  BY DEF apply_write_batch
<1>8. UNCHANGED << segments, deltas, published, pc, manifest, cursor,
                   compactions >>
  BY DEF apply_write_batch
<1> QED BY <1>2, <1>3, <1>4, <1>5, <1>6, <1>7, <1>8 DEF TypeOK

LEMMA FailedAppendStepType ==
    ASSUME TypeOK, NEW kind \in {"write_batch", "checkpoint"},
           NEW b \in WriteBatches, WalAppendFails(kind, b),
           UNCHANGED << segments, deltas, published, pc, graph,
                        latest_applied_lsn, checkpoint_dirty, pending, manifest,
                        cursor, history >>
    PROVE  TypeOK'
<1>1. wal' \in Seq(Frames) /\ next_lsn' = next_lsn
  BY FailedAppendType DEF WalAppendFails
<1> QED BY <1>1 DEF TypeOK, history

\* A checkpoint publishes a delta only when there are pending entries.
PendingWhenPublishing == pc = "publish_delta" => pending # << >>

LEMMA PendingDeltaType ==
    ASSUME TypeOK, PendingWhenPublishing, pc = "publish_delta"
    PROVE  PendingDelta \in Deltas
<1>1. pending \in Seq(Entries) /\ pending # << >>
  BY DEF TypeOK, PendingWhenPublishing
<1>2. pending[1] \in Entries
  BY <1>1
<1>3. pending[1].lsn \in Lsns
  BY <1>2 DEF Entries
<1> QED BY <1>1, <1>3 DEF PendingDelta, Deltas, TypeOK

LEMMA CheckpointType ==
    ASSUME TypeOK, PendingWhenPublishing, Checkpoint
    PROVE  TypeOK'
<1>1. ASSUME BeginCheckpoint PROVE TypeOK'
  <2>1. wal' \in Seq(Frames)
    BY <1>1, LoggedType, EmptyBatchFacts
       DEF BeginCheckpoint, WalAppend, FrameKinds
  <2>2. /\ next_lsn' \in Nat \ {0} /\ latest_applied_lsn' \in Lsns /\ pc' \in PCs
    BY <1>1 DEF BeginCheckpoint, WalAppend, TypeOK, Lsns, PCs, Checkpointing
  <2>3. UNCHANGED << segments, deltas, published, graph, checkpoint_dirty,
                     pending, manifest, cursor, history >>
    BY <1>1 DEF BeginCheckpoint
  <2> QED BY <2>1, <2>2, <2>3 DEF TypeOK, history
<1>2. ASSUME PublishDelta PROVE TypeOK'
  <2>1. /\ pending' = << >>
        /\ UNCHANGED << wal, segments, published, graph, next_lsn,
                        latest_applied_lsn, checkpoint_dirty, cursor, history >>
        /\ \/ /\ deltas' = Replacing(deltas, PendingDelta)
              /\ manifest' = [manifest EXCEPT
                               !.deltas = Replacing(manifest.deltas, PendingDelta)]
              /\ pc' = "publish_manifest"
           \/ pc' = "ready" /\ UNCHANGED << deltas, manifest >>
    BY <1>2 DEF PublishDelta
  <2>2. pc' \in PCs /\ pending' \in Seq(Entries)
    BY <2>1 DEF PCs, Checkpointing
  <2>3. deltas' \subseteq Deltas /\ manifest' \in Manifests
    <3>1. CASE UNCHANGED << deltas, manifest >>
      BY <3>1 DEF TypeOK
    <3>2. CASE ~UNCHANGED << deltas, manifest >>
      <4>1. PendingDelta \in Deltas
        BY PendingDeltaType, <1>2 DEF PublishDelta
      <4>2. \A ds \in SUBSET Deltas : Replacing(ds, PendingDelta) \in SUBSET Deltas
        BY <4>1 DEF Replacing
      <4>3. deltas \in SUBSET Deltas /\ manifest.deltas \in SUBSET Deltas
            /\ manifest \in Manifests
        BY DEF TypeOK, Manifests
      <4> HIDE DEF Deltas
      <4> QED BY <2>1, <3>2, <4>2, <4>3 DEF Manifests
    <3> QED BY <3>1, <3>2
  <2> QED BY <2>1, <2>2, <2>3 DEF TypeOK, history
<1>3. ASSUME PublishManifest PROVE TypeOK'
  <2>1. manifest' \in Manifests
    BY <1>3 DEF PublishManifest, TypeOK, Manifests
  <2>2. published' \in Manifests /\ exposure' \in Exposures /\ pc' \in PCs
    BY <1>3, <2>1 DEF PublishManifest, Publish, TypeOK, Exposures, PCs
  <2>3. checkpoint_dirty' \in BOOLEAN
    BY <1>3 DEF PublishManifest, TypeOK
  <2>4. UNCHANGED << wal, segments, deltas, graph, next_lsn,
                     latest_applied_lsn, pending, cursor, committed,
                     compactions >>
    BY <1>3 DEF PublishManifest
  <2> QED BY <2>1, <2>2, <2>3, <2>4 DEF TypeOK
<1> QED BY <1>1, <1>2, <1>3 DEF Checkpoint

LEMMA WriteSegmentType ==
    ASSUME TypeOK, NEW from, NEW to \in PCs, NEW files \in SnapshotFiles,
           WriteSegment(from, to, files)
    PROVE  TypeOK'
<1>1. segments' \in SnapshotFiles /\ pc' \in PCs
  BY DEF WriteSegment, TypeOK, PCs
<1>2. UNCHANGED << wal, deltas, published, graph, next_lsn,
                   latest_applied_lsn, checkpoint_dirty, pending, manifest,
                   cursor, history >>
  BY DEF WriteSegment
<1> QED BY <1>1, <1>2 DEF TypeOK, history

LEMMA CompactionType ==
    ASSUME TypeOK, Compaction
    PROVE  TypeOK'
<1>1. ASSUME BeginCompaction PROVE TypeOK'
  <2>1. wal' \in Seq(Frames)
    BY <1>1, LoggedType, EmptyBatchFacts
       DEF BeginCompaction, WalAppend, FrameKinds
  <2>2. /\ next_lsn' \in Nat \ {0} /\ latest_applied_lsn' \in Lsns /\ pc' \in PCs
        /\ compactions' \in Nat
    BY <1>1 DEF BeginCompaction, WalAppend, TypeOK, Lsns, PCs, Compacting
  <2>3. UNCHANGED << segments, deltas, published, graph, checkpoint_dirty,
                     pending, manifest, cursor, committed, exposure >>
    BY <1>1 DEF BeginCompaction
  <2> QED BY <2>1, <2>2, <2>3 DEF TypeOK
<1>2. ASSUME WriteNodes \/ WriteEdges \/ WriteVectors PROVE TypeOK'
  <2>1. /\ [segments EXCEPT !.nodes = NodeSnapshot] \in SnapshotFiles
        /\ [segments EXCEPT !.edges = EdgeSnapshot] \in SnapshotFiles
        /\ [segments EXCEPT !.vectors = VectorSnapshot] \in SnapshotFiles
    BY SnapshotTypes DEF TypeOK, SnapshotFiles
  <2>2. {"write_edges", "write_vectors", "replace_manifest"} \subseteq PCs
    BY DEF PCs, Compacting
  <2> QED BY <1>2, <2>1, <2>2, WriteSegmentType
          DEF WriteNodes, WriteEdges, WriteVectors
<1>3. ASSUME ReplaceManifest PROVE TypeOK'
  <2>1. manifest' \in Manifests
    BY <1>3 DEF ReplaceManifest, TypeOK, Manifests
  <2>2. published' \in Manifests /\ exposure' \in Exposures /\ pc' \in PCs
    BY <1>3, <2>1 DEF ReplaceManifest, Publish, TypeOK, Exposures, PCs, Compacting
  <2>3. cursor' \in Cursors
    <3>1. manifest.deltas \in SUBSET Deltas
      BY DEF TypeOK, Manifests
    <3> HIDE DEF Deltas
    <3> QED BY <1>3, <3>1, ConstantTypes DEF ReplaceManifest, TypeOK, Cursors
  <2>4. UNCHANGED << wal, segments, deltas, graph, next_lsn,
                     latest_applied_lsn, checkpoint_dirty, pending, committed,
                     compactions >>
    BY <1>3 DEF ReplaceManifest
  <2> QED BY <2>1, <2>2, <2>3, <2>4 DEF TypeOK
<1>4. ASSUME RemoveDeltas PROVE TypeOK'
  <2>1. cursor' \in Cursors
    <3>1. \/ cursor' = cursor \/ cursor' = NoCursor
          \/ \E d : cursor' = [cursor EXCEPT !.deltas = @ \ {d}]
      BY <1>4 DEF RemoveDeltas
    <3>2. \A d : [cursor EXCEPT !.deltas = @ \ {d}] \in Cursors
      BY DEF TypeOK, Cursors
    <3> QED BY <3>1, <3>2, ConstantTypes DEF TypeOK
  <2>2. deltas' \subseteq Deltas /\ pc' \in PCs
    BY <1>4 DEF RemoveDeltas, TypeOK, PCs, Compacting
  <2>3. pending' \in Seq(Entries)
    <3>1. pending' = pending \/ pending' = << >>
      BY <1>4 DEF RemoveDeltas
    <3>2. pending \in Seq(Entries) /\ << >> \in Seq(Entries)
      BY DEF TypeOK
    <3> QED BY <3>1, <3>2
  <2>4. checkpoint_dirty' \in BOOLEAN
    BY <1>4 DEF RemoveDeltas, TypeOK
  <2>5. UNCHANGED << wal, segments, published, graph, next_lsn,
                     latest_applied_lsn, manifest, history >>
    BY <1>4 DEF RemoveDeltas
  <2> QED BY <2>1, <2>2, <2>3, <2>4, <2>5 DEF TypeOK, history
<1>5. ASSUME TruncateWal PROVE TypeOK'
  <2>1. wal' \in Seq(Frames)
    <3>1. wal \in Seq(Frames)
      BY DEF TypeOK
    <3> QED BY <1>5, <3>1, SuffixIn DEF TruncateWal, OldestSegmentEnds
  <2>2. next_lsn' \in Nat \ {0} /\ pc' \in PCs
    BY <1>5 DEF TruncateWal, TypeOK, PCs
  <2>3. UNCHANGED << segments, deltas, published, graph, latest_applied_lsn,
                     checkpoint_dirty, pending, manifest, cursor, history >>
    BY <1>5 DEF TruncateWal
  <2> QED BY <2>1, <2>2, <2>3 DEF TypeOK, history
<1> QED BY <1>1, <1>2, <1>3, <1>4, <1>5 DEF Compaction

LEMMA CrashType ==
    ASSUME TypeOK, Crash
    PROVE  TypeOK'
<1>1. wal' \in Seq(Frames)
  <2>1. \A k \in Torn : k \in FrameKinds
    BY DEF Torn, FrameKinds
  <2> QED BY <2>1, LoggedType, EmptyBatchFacts DEF Crash, TypeOK
<1>2. pc' \in PCs /\ next_lsn' \in Nat \ {0} /\ latest_applied_lsn' \in Lsns
  BY DEF Crash, PCs, Down, Lsns
<1>3. /\ graph' \in Graphs /\ manifest' \in Manifests /\ cursor' \in Cursors
      /\ pending' \in Seq(Entries)
  BY ConstantTypes, EmptyGraphFacts DEF Crash
<1>4. checkpoint_dirty' \in BOOLEAN
  BY DEF Crash
<1>5. exposure' \in Exposures
  BY DEF Crash, TypeOK, Exposures
<1>6. UNCHANGED << segments, deltas, published, committed, compactions >>
  BY DEF Crash
<1> QED BY <1>1, <1>2, <1>3, <1>4, <1>5, <1>6 DEF TypeOK

\* A step of an opening that the files do not refuse leaves the disk alone.
LEMMA OpeningType ==
    ASSUME TypeOK, UNCHANGED << disk, history >>,
           pc' \in PCs, graph' \in Graphs, next_lsn' \in Nat \ {0},
           latest_applied_lsn' \in Lsns, checkpoint_dirty' \in BOOLEAN,
           pending' \in Seq(Entries), manifest' \in Manifests,
           cursor' \in Cursors
    PROVE  TypeOK'
<1>1. /\ wal' \in Seq(Frames) /\ segments' \in SnapshotFiles
      /\ deltas' \subseteq Deltas /\ published' \in Manifests
      /\ committed' \in Graphs /\ exposure' \in Exposures /\ compactions' \in Nat
  BY DEF TypeOK, disk, history
<1> QED BY <1>1 DEF TypeOK

LEMMA RecoveryType ==
    ASSUME TypeOK, Recovery
    PROVE  TypeOK'
<1>1. UNCHANGED << disk, history >>
  BY DEF Recovery, Open, LoadSegments, LoadDeltas, Replay
<1>2. ASSUME Refuse PROVE TypeOK'
  BY <1>1, <1>2, RefuseType
<1>3. ASSUME Open, ~Refuse PROVE TypeOK'
  <2>1. pc' \in PCs /\ manifest' \in Manifests /\ next_lsn' \in Nat \ {0}
    BY <1>3, ReopenedType DEF Open, PCs, Opening, TypeOK
  <2>2. UNCHANGED << graph, latest_applied_lsn, checkpoint_dirty, pending, cursor >>
    BY <1>3 DEF Open
  <2> QED BY <1>1, <2>1, <2>2, OpeningType DEF TypeOK
<1>4. ASSUME LoadSegments, ~Refuse PROVE TypeOK'
  <2>1. graph' \in Graphs /\ pc' \in PCs
    BY <1>4, LoadedType DEF LoadSegments, PCs, Opening
  <2>2. cursor' \in Cursors
    <3>1. manifest.deltas \in SUBSET Deltas
      BY DEF TypeOK, Manifests
    <3> HIDE DEF Deltas
    <3> QED BY <1>4, <3>1, ConstantTypes DEF LoadSegments, Cursors
  <2>3. UNCHANGED << next_lsn, latest_applied_lsn, checkpoint_dirty, pending,
                     manifest >>
    BY <1>4 DEF LoadSegments
  <2> QED BY <1>1, <2>1, <2>2, <2>3, OpeningType DEF TypeOK
<1>5. ASSUME LoadDeltas, ~Refuse PROVE TypeOK'
  <2>1. UNCHANGED << next_lsn, latest_applied_lsn, checkpoint_dirty, pending,
                     manifest >>
    BY <1>5 DEF LoadDeltas
  <2>2. cursor.entries \in Seq(Entries) /\ cursor \in Cursors
    BY DEF TypeOK, Cursors
  <2>3. graph' \in Graphs
    <3>1. CASE cursor.entries # << >>
      <4>1. Head(cursor.entries) \in Entries
        BY <2>2, <3>1, TailIn
      <4>2. Head(cursor.entries).batch \in WriteBatches
        BY <4>1 DEF Entries
      <4> QED BY <1>5, <4>2, ApplyType DEF LoadDeltas, TypeOK
    <3>2. CASE cursor.entries = << >>
      BY <1>5, <3>2 DEF LoadDeltas, TypeOK
    <3> QED BY <3>1, <3>2
  <2>4. cursor' \in Cursors /\ pc' \in PCs
    <3>1. CASE cursor.entries # << >>
      <4>1. Tail(cursor.entries) \in Seq(Entries)
        BY <2>2, <3>1, TailIn
      <4> QED BY <1>5, <2>2, <3>1, <4>1 DEF LoadDeltas, TypeOK, Cursors
    <3>2. CASE cursor.entries = << >> /\ cursor.deltas # {}
      <4>1. NextDelta \in deltas
        BY <1>5, <3>2 DEF LoadDeltas, DeltaUnusable
      <4>2. NextDelta.entries \in Seq(Entries)
        BY <4>1 DEF TypeOK, Deltas
      <4>3. /\ cursor' = [cursor EXCEPT !.deltas = @ \ {NextDelta},
                                        !.entries = NextDelta.entries]
            /\ pc' = pc
        BY <1>5, <3>2 DEF LoadDeltas
      <4>4. cursor.deltas \ {NextDelta} \in SUBSET Deltas
        BY <2>2 DEF Cursors
      <4> QED BY <2>2, <4>2, <4>3, <4>4 DEF Cursors, TypeOK
    <3>3. CASE cursor.entries = << >> /\ cursor.deltas = {}
      BY <1>5, <2>2, <3>3 DEF LoadDeltas, PCs, Opening, DeltaUnusable
    <3> QED BY <3>1, <3>2, <3>3
  <2> QED BY <1>1, <2>1, <2>3, <2>4, OpeningType DEF TypeOK
<1>6. ASSUME Replay, ~Refuse PROVE TypeOK'
  <2>1. next_lsn' = next_lsn /\ manifest' = manifest
    BY <1>6 DEF Replay
  <2>2. pc' \in PCs
    BY <1>6 DEF Replay, PCs, TypeOK
  <2>3. checkpoint_dirty' \in BOOLEAN
    BY <1>6 DEF Replay, TypeOK
  <2>4. cursor' \in Cursors
    <3>1. cursor' = [cursor EXCEPT !.frame = cursor.frame + 1] \/ cursor' = NoCursor
      BY <1>6 DEF Replay
    <3>2. [cursor EXCEPT !.frame = cursor.frame + 1] \in Cursors
      BY DEF TypeOK, Cursors
    <3> QED BY <3>1, <3>2, ConstantTypes
  <2>5. ASSUME cursor.frame <= Len(wal)
        PROVE  /\ wal[cursor.frame].lsn \in Lsns
               /\ wal[cursor.frame].batch \in WriteBatches
    <3>1. wal \in Seq(Frames) /\ cursor.frame \in Nat \ {0}
      BY DEF TypeOK, Cursors
    <3>2. wal[cursor.frame] \in Frames
      BY <2>5, <3>1
    <3> QED BY <3>2 DEF Frames
  <2>6. latest_applied_lsn' \in Lsns
    <3>1. manifest.last_applied_lsn \in Lsns
      BY DEF TypeOK, Manifests
    <3> QED BY <1>6, <2>5, <3>1 DEF Replay, TypeOK
  <2>7. graph' \in Graphs
    BY <1>6, <2>5, ApplyType DEF Replay, TypeOK
  <2>8. pending' \in Seq(Entries)
    <3> DEFINE entry == [lsn |-> wal[cursor.frame].lsn,
                         batch |-> wal[cursor.frame].batch]
    <3>1. \/ pending' = pending
          \/ cursor.frame <= Len(wal) /\ pending' = Append(pending, entry)
      BY <1>6 DEF Replay, PendingAgain
    <3>2. cursor.frame <= Len(wal) => entry \in Entries
      BY <2>5 DEF Entries
    <3>3. pending \in Seq(Entries)
      BY DEF TypeOK
    <3> HIDE DEF entry
    <3> QED BY <3>1, <3>2, <3>3, AppendIn
  <2> QED BY <1>1, <2>1, <2>2, <2>3, <2>4, <2>6, <2>7, <2>8, OpeningType
          DEF TypeOK
<1> QED BY <1>2, <1>3, <1>4, <1>5, <1>6 DEF Recovery

TypeInv == TypeOK /\ PendingWhenPublishing

LEMMA InitTypeInv ==
    ASSUME Init
    PROVE  TypeInv
<1>1. /\ wal \in Seq(Frames) /\ pending \in Seq(Entries)
      /\ deltas \subseteq Deltas
  BY DEF Init
<1>2. checkpoint_dirty \in BOOLEAN
  BY DEF Init
<1>3. /\ pc \in PCs /\ next_lsn \in Nat \ {0} /\ latest_applied_lsn \in Lsns
      /\ exposure \in Exposures /\ compactions \in Nat
  BY DEF Init, PCs, Lsns, Exposures
<1>4. /\ segments \in SnapshotFiles /\ published \in Manifests
      /\ manifest \in Manifests /\ cursor \in Cursors
      /\ graph \in Graphs /\ committed \in Graphs
  BY ConstantTypes, EmptyGraphFacts DEF Init
<1>5. PendingWhenPublishing
  BY DEF Init, PendingWhenPublishing
<1> QED BY <1>1, <1>2, <1>3, <1>4, <1>5 DEF TypeOK, TypeInv

\* Only the marker of a checkpoint leads to the publication of a delta.
LEMMA PublishingStep ==
    ASSUME PendingWhenPublishing, [Next]_vars
    PROVE  PendingWhenPublishing'
<1>1. ASSUME BeginCheckpoint PROVE PendingWhenPublishing'
  BY <1>1 DEF BeginCheckpoint, PendingWhenPublishing
<1>2. ASSUME UNCHANGED << pc, pending >> PROVE PendingWhenPublishing'
  BY <1>2 DEF PendingWhenPublishing
<1>3. ASSUME pc' # "publish_delta" PROVE PendingWhenPublishing'
  BY <1>3 DEF PendingWhenPublishing
<1>4. ASSUME NEW b \in Batches, apply_write_batch(b) PROVE pc' # "publish_delta"
  BY <1>4 DEF apply_write_batch
<1>5. ASSUME NEW b \in Batches, apply_write_batch_fails(b)
      PROVE  pc' # "publish_delta"
  BY <1>5 DEF apply_write_batch_fails
<1>6. ASSUME MarkerFails \/ PublishDelta \/ PublishManifest \/ Crash
      PROVE  pc' # "publish_delta"
  BY <1>6 DEF MarkerFails, PublishDelta, PublishManifest, Crash
<1>7. ASSUME Compaction PROVE pc' # "publish_delta"
  BY <1>7 DEF Compaction, BeginCompaction, WriteNodes, WriteEdges, WriteVectors,
              WriteSegment, ReplaceManifest, RemoveDeltas, TruncateWal
<1>8. ASSUME Recovery PROVE pc' # "publish_delta"
  BY <1>8 DEF Recovery, Open, LoadSegments, LoadDeltas, Replay, Refuse
<1> QED BY <1>1, <1>2, <1>3, <1>4, <1>5, <1>6, <1>7, <1>8
        DEF Next, Checkpoint, vars, memory

LEMMA NextTypeInv ==
    ASSUME TypeInv, [Next]_vars
    PROVE  TypeInv'
<1>1. TypeOK /\ PendingWhenPublishing /\ PendingWhenPublishing'
  BY PublishingStep DEF TypeInv
<1>2. ASSUME NEW b \in Batches, apply_write_batch(b) PROVE TypeOK'
  BY <1>1, <1>2, WriteType
<1>3. ASSUME NEW b \in Batches, apply_write_batch_fails(b) PROVE TypeOK'
  <2>1. b \in WriteBatches
    BY StorageAssumption
  <2> QED BY <1>1, <1>3, <2>1, FailedAppendStepType DEF apply_write_batch_fails
<1>4. ASSUME MarkerFails PROVE TypeOK'
  BY <1>1, <1>4, FailedAppendStepType, EmptyBatchFacts DEF MarkerFails
<1>5. ASSUME Checkpoint PROVE TypeOK'
  BY <1>1, <1>5, CheckpointType
<1>6. ASSUME Compaction PROVE TypeOK'
  BY <1>1, <1>6, CompactionType
<1>7. ASSUME Crash PROVE TypeOK'
  BY <1>1, <1>7, CrashType
<1>8. ASSUME Recovery PROVE TypeOK'
  BY <1>1, <1>8, RecoveryType
<1>9. ASSUME UNCHANGED vars PROVE TypeOK'
  BY <1>1, <1>9 DEF vars, disk, memory, history, TypeOK
<1> QED BY <1>1, <1>2, <1>3, <1>4, <1>5, <1>6, <1>7, <1>8, <1>9
        DEF Next, TypeInv

\* Every variable of the durability layer keeps its type, whatever fails and
\* wherever the process stops; in particular the files on disk always load as
\* a graph.
THEOREM TypeCorrect == Spec => []TypeOK
<1>1. Init => TypeInv
  BY InitTypeInv
<1>2. TypeInv /\ [Next]_vars => TypeInv'
  BY NextTypeInv
<1>3. TypeInv => TypeOK
  BY DEF TypeInv
<1> QED BY <1>1, <1>2, <1>3, PTL DEF Spec

-----------------------------------------------------------------------------
(* Isolation of namespaces                                                 *)

NormalizedEntries(s) == \A i \in DOMAIN s : Normalized(s[i].batch)

\* Every batch that recovery could read back was accepted by
\* normalize_write_batch, wherever it has got to, and so was every edge of the
\* snapshot file.
NormalizedFiles ==
    /\ NormalizedEntries(wal)
    /\ NormalizedEntries(pending)
    /\ NormalizedEntries(cursor.entries)
    /\ \A d \in deltas : NormalizedEntries(d.entries)
    /\ segments.edges # Absent =>
          \A e \in EdgeIds : segments.edges[e] # Absent =>
              NamespaceOf[segments.edges[e].source]
                  = NamespaceOf[segments.edges[e].target]

NamespaceInv == TypeInv /\ NormalizedFiles /\ NamespaceIsolation

LEMMA NormalizedAppend ==
    ASSUME NEW S, NEW s \in Seq(S), NEW x \in S, NormalizedEntries(s),
           Normalized(x.batch)
    PROVE  NormalizedEntries(Append(s, x))
BY AppendIn DEF NormalizedEntries

LEMMA NormalizedEmpty == NormalizedEntries(<< >>)
BY DEF NormalizedEntries

\* A frame of an accepted batch, of a marker or of a torn write.
LEMMA NormalizedLogged ==
    ASSUME TypeOK, NormalizedEntries(wal), NEW kind \in FrameKinds,
           NEW b \in WriteBatches, Normalized(b)
    PROVE  NormalizedEntries(Append(wal, Frame(kind, b)))
<1>1. wal \in Seq(Frames) /\ Frame(kind, b) \in Frames
  BY FrameType DEF TypeOK
<1>2. Frame(kind, b).batch = b
  BY DEF Frame
<1> QED BY <1>1, <1>2, NormalizedAppend

LEMMA NormalizedFailedAppend ==
    ASSUME TypeOK, NormalizedEntries(wal), NEW kind \in {"write_batch", "checkpoint"},
           NEW b \in WriteBatches, Normalized(b), WalAppendFails(kind, b)
    PROVE  NormalizedEntries(wal')
<1>1. \A k \in Torn : k \in FrameKinds
  BY DEF Torn, FrameKinds
<1>2. kind \in FrameKinds
  BY DEF FrameKinds
<1> QED BY <1>1, <1>2, NormalizedLogged, EmptyBatchFacts DEF WalAppendFails

\* The snapshot file of a graph without cross-namespace edges has none, and
\* loads as such a graph.
LEMMA LoadedNamespaceLocal ==
    ASSUME TypeOK, NormalizedFiles
    PROVE  NamespaceLocal(LoadedSnapshot)
<1>1. \A e \in EdgeIds : LoadedSnapshot[e] =
         IF segments.edges = Absent THEN Absent ELSE segments.edges[e]
  BY GraphAssumption DEF LoadedSnapshot, LoadedEdge, Keys
<1> QED BY <1>1 DEF NamespaceLocal, Live, NormalizedFiles

LEMMA NamespaceWrite ==
    ASSUME NamespaceInv, NEW b \in Batches, apply_write_batch(b)
    PROVE  NormalizedFiles' /\ NamespaceIsolation'
<1>1. b \in WriteBatches /\ Normalized(b) /\ TypeOK
  BY StorageAssumption DEF apply_write_batch, Accepted, NamespaceInv, TypeInv
<1>2. NormalizedEntries(wal')
  BY <1>1, NormalizedLogged
     DEF apply_write_batch, WalAppend, NamespaceInv, NormalizedFiles, FrameKinds
<1>3. NormalizedEntries(pending')
  <2> DEFINE entry == [lsn |-> next_lsn, batch |-> b]
  <2>1. entry \in Entries /\ pending \in Seq(Entries) /\ entry.batch = b
    BY <1>1 DEF Entries, TypeOK, Lsns
  <2>2. pending' = Append(pending, entry)
    BY DEF apply_write_batch
  <2> HIDE DEF entry
  <2> QED BY <1>1, <2>1, <2>2, NormalizedAppend DEF NamespaceInv, NormalizedFiles
<1>4. NamespaceIsolation'
  BY <1>1, ApplyNamespaceLocal
     DEF apply_write_batch, NamespaceInv, NamespaceIsolation, TypeOK
<1>5. UNCHANGED << segments, deltas, cursor >>
  BY DEF apply_write_batch
<1> QED BY <1>2, <1>3, <1>4, <1>5 DEF NamespaceInv, NormalizedFiles

LEMMA NamespaceFailedAppend ==
    ASSUME NamespaceInv, NEW kind \in {"write_batch", "checkpoint"},
           NEW b \in WriteBatches, Normalized(b), WalAppendFails(kind, b),
           UNCHANGED << segments, deltas, graph, pending, cursor >>
    PROVE  NormalizedFiles' /\ NamespaceIsolation'
<1>1. NormalizedEntries(wal')
  BY NormalizedFailedAppend DEF NamespaceInv, TypeInv, NormalizedFiles
<1> QED BY <1>1 DEF NamespaceInv, NormalizedFiles, NamespaceIsolation

LEMMA NamespaceCheckpoint ==
    ASSUME NamespaceInv, Checkpoint
    PROVE  NormalizedFiles' /\ NamespaceIsolation'
<1>1. TypeOK /\ UNCHANGED << segments, graph, cursor >>
  BY DEF NamespaceInv, TypeInv, Checkpoint, BeginCheckpoint, PublishDelta,
         PublishManifest
<1>2. ASSUME BeginCheckpoint PROVE NormalizedFiles'
  <2>1. NormalizedEntries(wal')
    BY <1>1, <1>2, NormalizedLogged, EmptyBatchFacts
       DEF BeginCheckpoint, WalAppend, NamespaceInv, NormalizedFiles, FrameKinds
  <2>2. UNCHANGED << deltas, pending >>
    BY <1>2 DEF BeginCheckpoint
  <2> QED BY <1>1, <2>1, <2>2 DEF NamespaceInv, NormalizedFiles
<1>3. ASSUME PublishDelta PROVE NormalizedFiles'
  <2>1. wal' = wal /\ pending' = << >>
    BY <1>3 DEF PublishDelta
  <2>2. \A d \in deltas' : d \in deltas \/ d = PendingDelta
    BY <1>3 DEF PublishDelta, Replacing
  <2>3. PendingDelta.entries = pending
    BY DEF PendingDelta
  <2>4. \A d \in deltas' : NormalizedEntries(d.entries)
    BY <2>2, <2>3 DEF NamespaceInv, NormalizedFiles
  <2> QED BY <1>1, <2>1, <2>4, NormalizedEmpty DEF NamespaceInv, NormalizedFiles
<1>4. ASSUME PublishManifest PROVE NormalizedFiles'
  BY <1>1, <1>4 DEF PublishManifest, NamespaceInv, NormalizedFiles
<1>5. NamespaceIsolation'
  BY <1>1 DEF NamespaceInv, NamespaceIsolation
<1> QED BY <1>2, <1>3, <1>4, <1>5 DEF Checkpoint

LEMMA NamespaceCompaction ==
    ASSUME NamespaceInv, Compaction
    PROVE  NormalizedFiles' /\ NamespaceIsolation'
<1>1. TypeOK /\ UNCHANGED graph
  BY DEF NamespaceInv, TypeInv, Compaction, BeginCompaction, WriteNodes,
         WriteEdges, WriteVectors, WriteSegment, ReplaceManifest, RemoveDeltas,
         TruncateWal
<1>2. ASSUME BeginCompaction PROVE NormalizedFiles'
  <2>1. NormalizedEntries(wal')
    BY <1>1, <1>2, NormalizedLogged, EmptyBatchFacts
       DEF BeginCompaction, WalAppend, NamespaceInv, NormalizedFiles, FrameKinds
  <2>2. UNCHANGED << segments, deltas, pending, cursor >>
    BY <1>2 DEF BeginCompaction
  <2> QED BY <2>1, <2>2 DEF NamespaceInv, NormalizedFiles
<1>3. ASSUME WriteNodes \/ WriteEdges \/ WriteVectors PROVE NormalizedFiles'
  <2>1. UNCHANGED << wal, deltas, pending, cursor >>
    BY <1>3 DEF WriteNodes, WriteEdges, WriteVectors, WriteSegment
  <2>2. segments'.edges = segments.edges \/ segments'.edges = EdgeSnapshot
    BY <1>1, <1>3 DEF WriteNodes, WriteEdges, WriteVectors, WriteSegment, TypeOK,
                      SnapshotFiles
  <2>3. \A e \in EdgeIds : EdgeSnapshot[e] # Absent =>
           NamespaceOf[EdgeSnapshot[e].source] = NamespaceOf[EdgeSnapshot[e].target]
    BY DEF EdgeSnapshot, NamespaceInv, NamespaceIsolation, NamespaceLocal, Live
  <2> QED BY <2>1, <2>2, <2>3 DEF NamespaceInv, NormalizedFiles
<1>4. ASSUME ReplaceManifest PROVE NormalizedFiles'
  <2>1. UNCHANGED << wal, segments, deltas, pending >>
    BY <1>4 DEF ReplaceManifest
  <2>2. cursor'.entries = cursor.entries \/ cursor'.entries = << >>
    BY <1>4 DEF ReplaceManifest, NoCursor
  <2> QED BY <2>1, <2>2, NormalizedEmpty DEF NamespaceInv, NormalizedFiles
<1>5. ASSUME RemoveDeltas PROVE NormalizedFiles'
  <2>1. UNCHANGED << wal, segments >> /\ \A d \in deltas' : d \in deltas
    BY <1>5 DEF RemoveDeltas
  <2>2. cursor'.entries = cursor.entries \/ cursor'.entries = << >>
    BY <1>1, <1>5 DEF RemoveDeltas, NoCursor, TypeOK, Cursors
  <2>3. pending' = pending \/ pending' = << >>
    BY <1>5 DEF RemoveDeltas
  <2> QED BY <2>1, <2>2, <2>3, NormalizedEmpty DEF NamespaceInv, NormalizedFiles
<1>6. ASSUME TruncateWal PROVE NormalizedFiles'
  <2>1. UNCHANGED << segments, deltas, pending, cursor >>
    BY <1>6 DEF TruncateWal
  <2>2. NormalizedEntries(wal')
    <3>1. wal \in Seq(Frames) /\ NormalizedEntries(wal)
      BY <1>1 DEF TypeOK, NamespaceInv, NormalizedFiles
    <3>2. \/ wal' = wal
          \/ \E n \in DOMAIN wal : wal' = SubSeq(wal, n + 1, Len(wal))
      BY <1>6 DEF TruncateWal, OldestSegmentEnds
    <3>3. \A n \in DOMAIN wal : NormalizedEntries(SubSeq(wal, n + 1, Len(wal)))
      BY <3>1, SuffixIn DEF NormalizedEntries
    <3> QED BY <3>1, <3>2, <3>3
  <2> QED BY <2>1, <2>2 DEF NamespaceInv, NormalizedFiles
<1>7. NamespaceIsolation'
  BY <1>1 DEF NamespaceInv, NamespaceIsolation
<1> QED BY <1>2, <1>3, <1>4, <1>5, <1>6, <1>7 DEF Compaction

LEMMA NamespaceCrash ==
    ASSUME NamespaceInv, Crash
    PROVE  NormalizedFiles' /\ NamespaceIsolation'
<1>1. NormalizedEntries(wal')
  <2>1. \A k \in Torn : k \in FrameKinds
    BY DEF Torn, FrameKinds
  <2> QED BY <2>1, NormalizedLogged, EmptyBatchFacts
          DEF Crash, NamespaceInv, TypeInv, NormalizedFiles
<1>2. /\ UNCHANGED << segments, deltas >>
      /\ pending' = << >> /\ graph' = EmptyGraph /\ cursor'.entries = << >>
  BY DEF Crash, NoCursor
<1> QED BY <1>1, <1>2, NormalizedEmpty, EmptyGraphFacts
        DEF NamespaceInv, NormalizedFiles, NamespaceIsolation

\* Recovery applies batches to a graph they were not validated against, but
\* only batches that were normalized when they were accepted.
LEMMA NamespaceRecovery ==
    ASSUME NamespaceInv, Recovery
    PROVE  NormalizedFiles' /\ NamespaceIsolation'
<1>1. TypeOK /\ UNCHANGED << wal, segments, deltas >>
  BY DEF NamespaceInv, TypeInv, Recovery, Open, LoadSegments, LoadDeltas, Replay,
         disk
<1>2. /\ NormalizedEntries(wal) /\ NormalizedEntries(pending)
      /\ NormalizedEntries(cursor.entries) /\ NamespaceLocal(graph)
      /\ \A d \in deltas : NormalizedEntries(d.entries)
  BY DEF NamespaceInv, NormalizedFiles, NamespaceIsolation
<1>3. SUFFICES /\ NormalizedEntries(pending') /\ NormalizedEntries(cursor'.entries)
               /\ NamespaceLocal(graph')
  BY <1>1, <1>2 DEF NamespaceInv, NormalizedFiles, NamespaceIsolation
<1> DEFINE Goal == /\ NormalizedEntries(pending')
                   /\ NormalizedEntries(cursor'.entries)
                   /\ NamespaceLocal(graph')
<1>4. ASSUME Refuse PROVE Goal
  BY <1>4, NormalizedEmpty, EmptyGraphFacts DEF Refuse, NoCursor
<1>5. ASSUME Open, ~Refuse PROVE Goal
  BY <1>2, <1>5 DEF Open
<1>6. ASSUME LoadSegments, ~Refuse PROVE Goal
  <2>1. graph' = LoadedSnapshot /\ pending' = pending /\ cursor'.entries = << >>
    BY <1>6 DEF LoadSegments, NoCursor
  <2> QED BY <1>1, <1>2, <2>1, NormalizedEmpty, LoadedNamespaceLocal
          DEF NamespaceInv
<1>7. ASSUME LoadDeltas, ~Refuse PROVE Goal
  <2>1. pending' = pending /\ cursor.entries \in Seq(Entries) /\ cursor \in Cursors
    BY <1>1, <1>7 DEF LoadDeltas, TypeOK, Cursors
  <2>2. CASE cursor.entries # << >>
    <3>1. /\ graph' = apply_batch_to_maps_unchecked(
                          graph, Head(cursor.entries).batch)
          /\ cursor' = [cursor EXCEPT !.entries = Tail(@)]
      BY <1>7, <2>2 DEF LoadDeltas
    <3>2. /\ Head(cursor.entries) \in Entries
          /\ \E j \in DOMAIN cursor.entries : Head(cursor.entries) = cursor.entries[j]
          /\ \A i \in DOMAIN Tail(cursor.entries) : \E j \in DOMAIN cursor.entries :
                Tail(cursor.entries)[i] = cursor.entries[j]
      BY <2>1, <2>2, TailIn
    <3>3. Normalized(Head(cursor.entries).batch)
      BY <1>2, <3>2 DEF NormalizedEntries
    <3>4. Head(cursor.entries).batch \in WriteBatches
      BY <3>2 DEF Entries
    <3>5. NamespaceLocal(graph')
      BY <1>1, <1>2, <3>1, <3>3, <3>4, ApplyNamespaceLocal DEF TypeOK
    <3>6. NormalizedEntries(Tail(cursor.entries))
      BY <1>2, <3>2 DEF NormalizedEntries
    <3>7. cursor'.entries = Tail(cursor.entries)
      BY <2>1, <3>1 DEF Cursors
    <3> QED BY <1>2, <2>1, <3>5, <3>6, <3>7
  <2>3. CASE cursor.entries = << >> /\ cursor.deltas # {}
    <3>1. NextDelta \in deltas /\ graph' = graph
      BY <1>7, <2>3 DEF LoadDeltas, DeltaUnusable
    <3>2. cursor' = [cursor EXCEPT !.deltas = @ \ {NextDelta},
                                   !.entries = NextDelta.entries]
      BY <1>7, <2>3 DEF LoadDeltas
    <3>3. cursor'.entries = NextDelta.entries
      BY <2>1, <3>2 DEF Cursors
    <3> QED BY <1>2, <2>1, <3>1, <3>3
  <2>4. CASE cursor.entries = << >> /\ cursor.deltas = {}
    BY <1>2, <1>7, <2>1, <2>4 DEF LoadDeltas, DeltaUnusable
  <2> QED BY <2>2, <2>3, <2>4
<1>8. ASSUME Replay, ~Refuse PROVE Goal
  <2>1. NormalizedEntries(cursor'.entries)
    <3>1. cursor' = [cursor EXCEPT !.frame = cursor.frame + 1] \/ cursor' = NoCursor
      BY <1>8 DEF Replay
    <3>2. cursor'.entries = cursor.entries \/ cursor'.entries = << >>
      BY <1>1, <3>1 DEF NoCursor, TypeOK, Cursors
    <3> QED BY <1>2, <3>2, NormalizedEmpty
  <2>2. CASE UNCHANGED << graph, pending >>
    BY <1>2, <2>1, <2>2
  <2>3. CASE ~UNCHANGED << graph, pending >>
    <3> DEFINE f == wal[cursor.frame]
               entry == [lsn |-> f.lsn, batch |-> f.batch]
    <3>1. /\ cursor.frame <= Len(wal)
          /\ graph' = apply_batch_to_maps_unchecked(graph, f.batch)
          /\ pending' = Append(pending, entry)
      BY <1>8, <2>3 DEF Replay, PendingAgain
    <3>2. /\ wal \in Seq(Frames) /\ cursor.frame \in Nat \ {0}
          /\ pending \in Seq(Entries)
      BY <1>1 DEF TypeOK, Cursors
    <3>3. f \in Frames /\ cursor.frame \in DOMAIN wal
      BY <3>1, <3>2
    <3>4. f.batch \in WriteBatches /\ entry \in Entries /\ entry.batch = f.batch
      BY <3>3 DEF Frames, Entries
    <3>5. Normalized(f.batch)
      BY <1>2, <3>3 DEF NormalizedEntries
    <3> HIDE DEF f, entry
    <3>6. NormalizedEntries(pending')
      BY <1>2, <3>1, <3>2, <3>4, <3>5, NormalizedAppend
    <3>7. NamespaceLocal(graph')
      BY <1>1, <1>2, <3>1, <3>4, <3>5, ApplyNamespaceLocal DEF TypeOK
    <3> QED BY <2>1, <3>6, <3>7
  <2> QED BY <2>2, <2>3
<1> QED BY <1>4, <1>5, <1>6, <1>7, <1>8 DEF Recovery

LEMMA InitNamespace ==
    ASSUME Init
    PROVE  NamespaceInv
<1>1. NormalizedFiles
  BY NormalizedEmpty DEF Init, NormalizedFiles, NoCursor, NoSnapshot
<1> QED BY <1>1, InitTypeInv, EmptyGraphFacts
        DEF Init, NamespaceInv, NamespaceIsolation

LEMMA NextNamespace ==
    ASSUME NamespaceInv, [Next]_vars
    PROVE  NamespaceInv'
<1>1. TypeInv'
  BY NextTypeInv DEF NamespaceInv
<1> DEFINE Goal == NormalizedFiles' /\ NamespaceIsolation'
<1>2. ASSUME NEW b \in Batches, apply_write_batch(b) PROVE Goal
  BY <1>2, NamespaceWrite
<1>3. ASSUME NEW b \in Batches, apply_write_batch_fails(b) PROVE Goal
  <2>1. b \in WriteBatches /\ Normalized(b)
    BY <1>3, StorageAssumption DEF apply_write_batch_fails, Accepted
  <2> QED BY <1>3, <2>1, NamespaceFailedAppend DEF apply_write_batch_fails
<1>4. ASSUME MarkerFails PROVE Goal
  BY <1>4, NamespaceFailedAppend, EmptyBatchFacts DEF MarkerFails
<1>5. ASSUME Checkpoint PROVE Goal
  BY <1>5, NamespaceCheckpoint
<1>6. ASSUME Compaction PROVE Goal
  BY <1>6, NamespaceCompaction
<1>7. ASSUME Crash PROVE Goal
  BY <1>7, NamespaceCrash
<1>8. ASSUME Recovery PROVE Goal
  BY <1>8, NamespaceRecovery
<1>9. ASSUME UNCHANGED vars PROVE Goal
  BY <1>9 DEF vars, disk, memory, NamespaceInv, NormalizedFiles,
              NamespaceIsolation
<1> QED BY <1>1, <1>2, <1>3, <1>4, <1>5, <1>6, <1>7, <1>8, <1>9
        DEF Next, NamespaceInv

\* No edge ever connects two namespaces, under every combination of crashes,
\* torn or failed writes, checkpoints, compactions and failed openings.
THEOREM NamespacesIsolated == Spec => []NamespaceIsolation
<1>1. Init => NamespaceInv
  BY InitNamespace
<1>2. NamespaceInv /\ [Next]_vars => NamespaceInv'
  BY NextNamespace
<1>3. NamespaceInv => NamespaceIsolation
  BY DEF NamespaceInv
<1> QED BY <1>1, <1>2, <1>3, PTL DEF Spec

-----------------------------------------------------------------------------
(* Dangling edges                                                          *)

\* Until a second compaction starts, the snapshot files are those of one
\* graph, and were written in an order in which no edge comes before its ends.
OneSnapshot ==
    /\ compactions = 0 \/ pc = "write_nodes" => segments = NoSnapshot
    /\ pc = "write_edges" =>
          segments.edges = Absent /\ segments.nodes = NodeSnapshot
    /\ Closed(LoadedSnapshot)
    /\ Closed(graph)

ClosedInv ==
    /\ TypeInv
    /\ pc \in Compacting => compactions > 0
    /\ compactions <= 1 => OneSnapshot

\* What is live in a loaded snapshot.
LEMMA LoadedLive ==
    ASSUME TypeOK
    PROVE  /\ \A n \in NodeIds : Live(LoadedSnapshot, n) <=>
                 segments.nodes # Absent /\ segments.nodes[n] # Absent
           /\ \A e \in EdgeIds :
                 LoadedSnapshot[e] = IF segments.edges = Absent THEN Absent
                                     ELSE segments.edges[e]
<1>1. ASSUME NEW n \in NodeIds
      PROVE  Live(LoadedSnapshot, n) <=>
                segments.nodes # Absent /\ segments.nodes[n] # Absent
  <2>1. LoadedSnapshot[n] = LoadedNode(n) /\ LoadedSnapshot \in Graphs
    BY LoadedType DEF LoadedSnapshot, Keys
  <2>2. CASE segments.nodes = Absent \/ segments.nodes[n] = Absent
    BY <2>1, <2>2 DEF LoadedNode, Live
  <2>3. CASE segments.nodes # Absent /\ segments.nodes[n] # Absent
    <3>1. /\ segments.nodes[n] \in Bodies
          /\ segments.vectors = Absent \/ segments.vectors[n] \in Vectors \cup {Absent}
      BY <2>3 DEF TypeOK, SnapshotFiles, NodeSegments, VectorSegments
    <3>2. LoadedNode(n) \in NodeRecords
      BY <2>3, <3>1, GraphAssumption DEF LoadedNode, NodeRecords
    <3> QED BY <2>1, <2>3, <3>2, GraphAssumption DEF Live, NodeRecords
  <2> QED BY <2>2, <2>3
<1>2. \A e \in EdgeIds :
         LoadedSnapshot[e] = IF segments.edges = Absent THEN Absent
                             ELSE segments.edges[e]
  BY GraphAssumption DEF LoadedSnapshot, LoadedEdge, Keys
<1> QED BY <1>1, <1>2

LEMMA ClosedWithoutEdges ==
    ASSUME TypeOK, segments.edges = Absent
    PROVE  Closed(LoadedSnapshot)
BY LoadedLive DEF Closed, Live

\* Files that hold the live keys of a closed graph load as a closed graph.
LEMMA ClosedOfSnapshot ==
    ASSUME TypeOK, Closed(graph), segments.nodes = NodeSnapshot,
           segments.edges = EdgeSnapshot
    PROVE  Closed(LoadedSnapshot)
<1>1. /\ segments.nodes # Absent /\ segments.edges # Absent
  BY SnapshotTypes, FilesAssumption
<1>2. \A n \in NodeIds : Live(LoadedSnapshot, n) <=> Live(graph, n)
  <2>1. \A n \in NodeIds : Live(graph, n) => graph[n].body # Absent
    BY GraphAssumption DEF TypeOK, Graphs, Live, NodeRecords
  <2> QED BY <1>1, <2>1, LoadedLive DEF NodeSnapshot
<1>3. \A e \in EdgeIds : LoadedSnapshot[e] = graph[e]
  BY <1>1, LoadedLive DEF EdgeSnapshot
<1>4. \A e \in EdgeIds : Live(graph, e) =>
         graph[e].source \in NodeIds /\ graph[e].target \in NodeIds
  BY DEF TypeOK, Graphs, Live, EdgeRecords
<1> QED BY <1>2, <1>3, <1>4 DEF Closed, Live

\* Loading depends on the files alone.
LEMMA LoadedUnchanged ==
    ASSUME UNCHANGED segments
    PROVE  LoadedSnapshot' = LoadedSnapshot
BY DEF LoadedSnapshot, LoadedNode, LoadedEdge

\* A step that leaves the snapshot files alone and goes to no step that writes
\* them needs only to keep the graph closed.
LEMMA ClosedStep ==
    ASSUME ClosedInv, TypeInv', UNCHANGED segments,
           compactions' = compactions, pc' \in Compacting => pc \in Compacting,
           pc' \notin {"write_nodes", "write_edges"},
           compactions <= 1 => Closed(graph')
    PROVE  ClosedInv'
<1>1. ASSUME compactions' <= 1 PROVE OneSnapshot'
  <2>1. OneSnapshot /\ compactions <= 1
    BY <1>1 DEF ClosedInv
  <2>2. Closed(LoadedSnapshot)' /\ Closed(graph)'
    BY <2>1, LoadedUnchanged DEF OneSnapshot, Closed, Live
  <2> QED BY <2>1, <2>2 DEF OneSnapshot
<1> QED BY <1>1 DEF ClosedInv

LEMMA ClosedWrite ==
    ASSUME ClosedInv, TypeInv', NEW b \in Batches, apply_write_batch(b)
    PROVE  ClosedInv'
<1>1. b \in WriteBatches /\ validate_batch_against_maps(graph, b)
  BY StorageAssumption DEF apply_write_batch, Accepted
<1>2. graph \in Graphs /\ (compactions <= 1 => Closed(graph))
  BY DEF ClosedInv, TypeInv, TypeOK, OneSnapshot
<1>3. compactions <= 1 => Closed(graph')
  BY <1>1, <1>2, ApplyClosed DEF apply_write_batch
<1>4. UNCHANGED << segments, compactions, pc >> /\ pc = "ready"
  BY DEF apply_write_batch
<1> QED BY <1>3, <1>4, ClosedStep

LEMMA ClosedQuiet ==
    ASSUME ClosedInv, TypeInv', UNCHANGED << segments, graph, compactions >>,
           pc' \in Compacting => pc \in Compacting,
           pc' \notin {"write_nodes", "write_edges"}
    PROVE  ClosedInv'
<1>1. compactions <= 1 => Closed(graph')
  BY DEF ClosedInv, OneSnapshot
<1> QED BY <1>1, ClosedStep

LEMMA ClosedCompaction ==
    ASSUME ClosedInv, TypeInv', Compaction
    PROVE  ClosedInv'
<1>1. TypeOK /\ TypeOK' /\ UNCHANGED graph
  BY DEF ClosedInv, TypeInv, Compaction, BeginCompaction, WriteNodes,
         WriteEdges, WriteVectors, WriteSegment, ReplaceManifest, RemoveDeltas,
         TruncateWal
<1>2. ASSUME BeginCompaction PROVE ClosedInv'
  <2>1. /\ compactions' = compactions + 1 /\ pc' = "write_nodes"
        /\ UNCHANGED segments
    BY <1>2 DEF BeginCompaction
  <2>2. ASSUME compactions' <= 1 PROVE OneSnapshot'
    <3>1. compactions = 0
      BY <1>1, <2>1, <2>2 DEF TypeOK
    <3>2. segments = NoSnapshot /\ Closed(LoadedSnapshot) /\ Closed(graph)
      BY <3>1 DEF ClosedInv, OneSnapshot
    <3>3. Closed(LoadedSnapshot)' /\ Closed(graph)'
      BY <1>1, <2>1, <3>2, LoadedUnchanged DEF Closed, Live
    <3> QED BY <2>1, <3>2, <3>3 DEF OneSnapshot
  <2> QED BY <1>1, <2>1, <2>2 DEF ClosedInv, TypeOK
<1>3. ASSUME WriteNodes \/ WriteEdges \/ WriteVectors PROVE ClosedInv'
  <2>1. /\ compactions' = compactions /\ compactions > 0
        /\ pc \in {"write_nodes", "write_edges", "write_vectors"}
    BY <1>3 DEF ClosedInv, WriteNodes, WriteEdges, WriteVectors, WriteSegment,
                history, Compacting
  <2>2. CASE segments' = segments /\ pc' = "ready"
    BY <1>1, <2>1, <2>2, ClosedQuiet DEF Compacting
  <2>3. CASE ~(segments' = segments /\ pc' = "ready")
    <3>1. ASSUME compactions' <= 1 PROVE OneSnapshot'
      <4>1. OneSnapshot /\ Closed(graph)
        BY <2>1, <3>1 DEF ClosedInv, OneSnapshot
      <4>2. Closed(graph)'
        BY <1>1, <4>1 DEF Closed, Live
      <4>3. segments \in SnapshotFiles /\ segments' \in SnapshotFiles
        BY <1>1 DEF TypeOK
      <4>4. CASE WriteNodes
        <5>1. /\ segments' = [segments EXCEPT !.nodes = NodeSnapshot]
              /\ pc' = "write_edges" /\ segments = NoSnapshot
          BY <2>3, <4>1, <4>4 DEF WriteNodes, WriteSegment, OneSnapshot
        <5>2. segments'.edges = Absent /\ segments'.nodes = NodeSnapshot
          BY <5>1 DEF NoSnapshot
        <5>3. NodeSnapshot' = NodeSnapshot
          BY <1>1 DEF NodeSnapshot, Live
        <5>4. Closed(LoadedSnapshot)'
          <6>1. (TypeOK /\ segments.edges = Absent => Closed(LoadedSnapshot))'
            BY ClosedWithoutEdges, PTL
          <6> QED BY <1>1, <5>2, <6>1
        <5> QED BY <2>1, <4>2, <5>1, <5>2, <5>3, <5>4 DEF OneSnapshot
      <4>5. CASE WriteEdges
        <5>1. /\ segments' = [segments EXCEPT !.edges = EdgeSnapshot]
              /\ pc' = "write_vectors" /\ segments.nodes = NodeSnapshot
          BY <2>3, <4>1, <4>5 DEF WriteEdges, WriteSegment, OneSnapshot
        <5>2. segments'.edges = EdgeSnapshot /\ segments'.nodes = NodeSnapshot
          BY <4>3, <5>1 DEF SnapshotFiles
        <5>3. NodeSnapshot' = NodeSnapshot /\ EdgeSnapshot' = EdgeSnapshot
          BY <1>1 DEF NodeSnapshot, EdgeSnapshot, Live
        <5>4. Closed(LoadedSnapshot)'
          <6>1. (TypeOK /\ Closed(graph) /\ segments.nodes = NodeSnapshot
                    /\ segments.edges = EdgeSnapshot => Closed(LoadedSnapshot))'
            BY ClosedOfSnapshot, PTL
          <6> QED BY <1>1, <4>2, <5>2, <5>3, <6>1
        <5> QED BY <2>1, <4>2, <5>1, <5>4 DEF OneSnapshot
      <4>6. CASE WriteVectors
        <5>1. /\ segments' = [segments EXCEPT !.vectors = VectorSnapshot]
              /\ pc' = "replace_manifest"
          BY <2>3, <4>6 DEF WriteVectors, WriteSegment
        <5>2. segments'.edges = segments.edges /\ segments'.nodes = segments.nodes
          BY <4>3, <5>1 DEF SnapshotFiles
        <5>3. (TypeOK =>
                 /\ \A n \in NodeIds : Live(LoadedSnapshot, n) <=>
                       segments.nodes # Absent /\ segments.nodes[n] # Absent
                 /\ \A e \in EdgeIds :
                       LoadedSnapshot[e] = IF segments.edges = Absent THEN Absent
                                           ELSE segments.edges[e])'
          BY LoadedLive, PTL
        <5>4. \A n \in NodeIds : Live(LoadedSnapshot', n) <=> Live(LoadedSnapshot, n)
          BY <1>1, <5>2, <5>3, LoadedLive DEF Live
        <5>5. \A e \in EdgeIds : LoadedSnapshot'[e] = LoadedSnapshot[e]
          BY <1>1, <5>2, <5>3, LoadedLive
        <5>6. \A e \in EdgeIds : Live(LoadedSnapshot, e) =>
                 /\ LoadedSnapshot[e].source \in NodeIds
                 /\ LoadedSnapshot[e].target \in NodeIds
          BY <1>1, LoadedType DEF Graphs, Live, EdgeRecords
        <5>7. Closed(LoadedSnapshot')
          BY <4>1, <5>4, <5>5, <5>6 DEF OneSnapshot, Closed, Live
        <5> QED BY <2>1, <4>2, <5>1, <5>7 DEF OneSnapshot, Closed, Live
      <4> QED BY <1>3, <4>4, <4>5, <4>6
    <3> QED BY <1>1, <2>1, <3>1 DEF ClosedInv
  <2> QED BY <2>2, <2>3
<1>4. ASSUME ReplaceManifest \/ RemoveDeltas \/ TruncateWal PROVE ClosedInv'
  <2>1. /\ UNCHANGED << segments, compactions >> /\ pc \in Compacting
        /\ pc' \notin {"write_nodes", "write_edges"}
    BY <1>4 DEF ReplaceManifest, RemoveDeltas, TruncateWal, history, Compacting
  <2> QED BY <1>1, <2>1, ClosedQuiet
<1> QED BY <1>2, <1>3, <1>4 DEF Compaction

\* Recovery starts from files that load as a closed graph and validates every
\* batch against the graph it applies it to.
LEMMA ClosedRecovery ==
    ASSUME ClosedInv, TypeInv', Recovery
    PROVE  ClosedInv'
<1>1. TypeOK /\ UNCHANGED << segments, compactions >> /\ pc' \notin Compacting
  BY DEF ClosedInv, TypeInv, Recovery, Open, LoadSegments, LoadDeltas, Replay,
         disk, history, Refuse, Compacting
<1>2. SUFFICES ASSUME compactions <= 1 PROVE Closed(graph')
  BY <1>1, ClosedStep DEF Compacting
<1>3. Closed(graph) /\ Closed(LoadedSnapshot) /\ graph \in Graphs
  BY <1>1, <1>2 DEF ClosedInv, OneSnapshot, TypeOK
<1>4. ASSUME Refuse PROVE Closed(graph')
  BY <1>4, EmptyGraphFacts DEF Refuse
<1>5. ASSUME Open, ~Refuse PROVE Closed(graph')
  BY <1>3, <1>5 DEF Open
<1>6. ASSUME LoadSegments, ~Refuse PROVE Closed(graph')
  BY <1>3, <1>6 DEF LoadSegments
<1>7. ASSUME LoadDeltas, ~Refuse PROVE Closed(graph')
  <2>1. CASE cursor.entries # << >>
    <3>1. /\ graph' = apply_batch_to_maps_unchecked(
                          graph, Head(cursor.entries).batch)
          /\ validate_batch_against_maps(graph, Head(cursor.entries).batch)
      BY <1>7, <2>1 DEF LoadDeltas, DeltaUnusable
    <3>2. Head(cursor.entries) \in Entries
      BY <1>1, <2>1, TailIn DEF TypeOK, Cursors
    <3>3. Head(cursor.entries).batch \in WriteBatches
      BY <3>2 DEF Entries
    <3> QED BY <1>3, <3>1, <3>3, ApplyClosed
  <2>2. CASE cursor.entries = << >>
    BY <1>3, <1>7, <2>2 DEF LoadDeltas
  <2> QED BY <2>1, <2>2
<1>8. ASSUME Replay, ~Refuse PROVE Closed(graph')
  <2>1. CASE graph' = graph
    BY <1>3, <2>1
  <2>2. CASE graph' # graph
    <3> DEFINE f == wal[cursor.frame]
    <3>1. /\ cursor.frame <= Len(wal)
          /\ graph' = apply_batch_to_maps_unchecked(graph, f.batch)
          /\ validate_batch_against_maps(graph, f.batch)
      BY <1>8, <2>2 DEF Replay
    <3>2. wal \in Seq(Frames) /\ cursor.frame \in Nat \ {0}
      BY <1>1 DEF TypeOK, Cursors
    <3>3. f \in Frames
      BY <3>1, <3>2
    <3>4. f.batch \in WriteBatches
      BY <3>3 DEF Frames
    <3> QED BY <1>3, <3>1, <3>4, ApplyClosed
  <2> QED BY <2>1, <2>2
<1> QED BY <1>4, <1>5, <1>6, <1>7, <1>8 DEF Recovery

LEMMA NextClosed ==
    ASSUME ClosedInv, [Next]_vars
    PROVE  ClosedInv'
<1>1. TypeInv'
  BY NextTypeInv DEF ClosedInv
<1>2. ASSUME NEW b \in Batches, apply_write_batch(b) PROVE ClosedInv'
  BY <1>1, <1>2, ClosedWrite
<1>3. ASSUME NEW b \in Batches, apply_write_batch_fails(b) PROVE ClosedInv'
  BY <1>1, <1>3, ClosedQuiet DEF apply_write_batch_fails, history
<1>4. ASSUME MarkerFails PROVE ClosedInv'
  BY <1>1, <1>4, ClosedQuiet DEF MarkerFails, history
<1>5. ASSUME Checkpoint PROVE ClosedInv'
  <2>1. /\ UNCHANGED << segments, graph, compactions >>
        /\ pc' \notin Compacting /\ pc' \notin {"write_nodes", "write_edges"}
    BY <1>5 DEF Checkpoint, BeginCheckpoint, PublishDelta, PublishManifest,
                history, Compacting
  <2> QED BY <1>1, <2>1, ClosedQuiet
<1>6. ASSUME Compaction PROVE ClosedInv'
  BY <1>1, <1>6, ClosedCompaction
<1>7. ASSUME Crash PROVE ClosedInv'
  <2>1. /\ UNCHANGED << segments, compactions >> /\ graph' = EmptyGraph
        /\ pc' = "down"
    BY <1>7 DEF Crash
  <2> QED BY <1>1, <2>1, ClosedStep, EmptyGraphFacts DEF Compacting
<1>8. ASSUME Recovery PROVE ClosedInv'
  BY <1>1, <1>8, ClosedRecovery
<1>9. ASSUME UNCHANGED vars PROVE ClosedInv'
  <2>1. UNCHANGED << segments, graph, compactions, pc >> /\ NodeSnapshot' = NodeSnapshot
    BY <1>9 DEF vars, disk, memory, history, NodeSnapshot, Live
  <2>2. LoadedSnapshot' = LoadedSnapshot
    BY <2>1, LoadedUnchanged
  <2> QED BY <1>1, <2>1, <2>2 DEF ClosedInv, OneSnapshot, Closed, Live
<1> QED BY <1>2, <1>3, <1>4, <1>5, <1>6, <1>7, <1>8, <1>9 DEF Next

\* Up to the second compaction, no edge of an open engine is missing an end
\* point, whatever faults hit the log, the deltas, the manifest and the
\* snapshot files, and wherever the process stopped.
THEOREM ClosedUntilRecompacted ==
    Spec => [](compactions <= 1 => NoDanglingEdges)
<1>1. Init => ClosedInv
  <2> SUFFICES ASSUME Init PROVE ClosedInv
    OBVIOUS
  <2>1. TypeInv
    BY InitTypeInv
  <2>2. segments = NoSnapshot /\ graph = EmptyGraph /\ pc = "ready"
    BY DEF Init
  <2>3. Closed(LoadedSnapshot)
    BY <2>1, <2>2, ClosedWithoutEdges DEF NoSnapshot, TypeInv
  <2> QED BY <2>1, <2>2, <2>3, EmptyGraphFacts DEF ClosedInv, OneSnapshot, Compacting
<1>2. ClosedInv /\ [Next]_vars => ClosedInv'
  BY NextClosed
<1>3. ClosedInv => (compactions <= 1 => NoDanglingEdges)
  BY DEF ClosedInv, OneSnapshot, NoDanglingEdges
<1> QED BY <1>1, <1>2, <1>3, PTL DEF Spec

-----------------------------------------------------------------------------
(* Durability.  The engine restarts its log at LSN 1 after a compaction, so *)
(* an LSN means something only since the last restart.  Since then, H[i] is *)
(* the batch logged under LSN i, EmptyBatch for a marker, and S[i] the      *)
(* graph behind it; o is the LSN whose graph the published snapshot holds.  *)

\* Valid batches lead from one graph to the next, from LSN o to LSN n.
Chain(n, o, H, S) ==
    /\ o <= n
    /\ \A i \in (o + 1) .. n :
          /\ validate_batch_against_maps(S[i - 1], H[i])
          /\ S[i] = apply_batch_to_maps_unchecked(S[i - 1], H[i])

\* The keys that the batches behind LSN lo and up to hi name.
Named(H, lo, hi) ==
    {k \in Keys : \E i \in (lo + 1) .. hi : k \in BatchKeys(H[i])}

\* Entries as they were logged, in the order of their LSNs, in (lo, hi].
EntriesOk(H, s, lo, hi) ==
    /\ \A i \in DOMAIN s :
          lo < s[i].lsn /\ s[i].lsn <= hi /\ s[i].batch = H[s[i].lsn]
    /\ \A i, j \in DOMAIN s : i < j => s[i].lsn < s[j].lsn

\* Deltas behind LSN o that cover disjoint ranges of LSNs up to n.
DeltasOk(n, o, H, D) ==
    /\ \A d \in D :
          /\ o < d.first /\ d.first <= d.checkpoint /\ d.checkpoint <= n
          /\ EntriesOk(H, d.entries, d.first - 1, d.checkpoint)
    /\ \A c, d \in D : c = d \/ c.checkpoint < d.first \/ d.checkpoint < c.first

InEntries(s, i) == \E j \in DOMAIN s : s[j].lsn = i
InDeltas(D, i) == \E d \in D : InEntries(d.entries, i)

\* The three snapshot files of a graph.
SnapshotOf(g) ==
    [nodes   |-> [n \in NodeIds |-> IF Live(g, n) THEN g[n].body ELSE Absent],
     edges   |-> [e \in EdgeIds |-> g[e]],
     vectors |-> [n \in NodeIds |-> IF Live(g, n) THEN g[n].vectors ELSE Absent]]

\* The last LSN in the log.
Last == IF wal = << >> THEN 0 ELSE wal[Len(wal)].lsn

\* The log holds what was logged, without gaps, up to Last.
Logged(o, H) ==
    /\ Len(wal) <= Last
    /\ Len(wal) <= MaxFrames
    /\ \A i \in DOMAIN wal :
          /\ wal[i].lsn = Last - Len(wal) + i
          /\ \/ wal[i].kind = "checkpoint" /\ wal[i].batch = EmptyBatch
             \/ wal[i].kind = "write_batch" /\ wal[i].batch # EmptyBatch
          /\ o < wal[i].lsn => wal[i].batch = H[wal[i].lsn]

\* The snapshot files.  Files that no manifest lists hold only keys that the
\* deltas and the log name again.
Based(o, H, S) ==
    IF published.snapshot = NoSnapshot
    THEN /\ o = 0
         /\ \A p \in 0 .. Last : \A k \in Keys :
               Live(S[p], k) => k \in Named(H, 0, p)
         /\ \A k \in Keys : Live(LoadedSnapshot, k) => k \in Named(H, 0, Last)
    ELSE /\ published.snapshot = SnapshotOf(S[o])
         /\ segments.nodes # Absent /\ segments.edges # Absent
         /\ segments.vectors # Absent
         /\ compactions <= 1 => segments = published.snapshot

\* What was logged is in a published delta, or in the log behind the published
\* LSN, unless it is exposed.
OnDisk(o, H) ==
    /\ published.deltas \subseteq deltas
    /\ DeltasOk(Last, o, H, published.deltas)
    /\ o <= published.last_applied_lsn
    /\ \A d \in published.deltas : d.checkpoint <= published.last_applied_lsn
    /\ exposure = "none" =>
          \A i \in (o + 1) .. Last : H[i] # EmptyBatch =>
             IF i <= published.last_applied_lsn THEN InDeltas(published.deltas, i)
             ELSE Last - Len(wal) < i

Writing  == {"write_nodes", "write_edges", "write_vectors", "replace_manifest"}
Replaced == {"remove_deltas", "truncate_wal"}

\* The memory of an engine that serves: what was logged is in a delta of its
\* manifest or pending.
InMemory(o, H) ==
    /\ graph = committed
    /\ manifest.snapshot = published.snapshot
    /\ published.deltas \subseteq manifest.deltas
    /\ manifest.deltas \subseteq deltas
    /\ DeltasOk(Last, o, H, manifest.deltas)
    /\ pc # "truncate_wal" => next_lsn = Last + 1
    /\ pc \notin {"ready"} \cup Replaced => latest_applied_lsn = Last
    /\ pc \in Replaced =>
          o = Last /\ manifest.deltas = {} /\ published.snapshot # NoSnapshot
    /\ pc \in {"publish_manifest", "truncate_wal"} => pending = << >>
    /\ pc # "remove_deltas" =>
          /\ EntriesOk(H, pending, o, Last)
          /\ \A d \in manifest.deltas : \A j \in DOMAIN pending :
                d.checkpoint < pending[j].lsn
          /\ \A i \in (o + 1) .. Last : H[i] # EmptyBatch =>
                InDeltas(manifest.deltas, i) \/ InEntries(pending, i)

\* The files a compaction has written.
Written ==
    /\ pc \in {"write_edges", "write_vectors", "replace_manifest"} =>
          segments.nodes = SnapshotOf(graph).nodes
    /\ pc \in {"write_vectors", "replace_manifest"} =>
          segments.edges = SnapshotOf(graph).edges
    /\ pc = "replace_manifest" => segments.vectors = SnapshotOf(graph).vectors

\* The keys on which a recovery that has come to LSN p agrees with S[p]: all
\* behind a published snapshot, else those named again so far.
Known(o, H, p) ==
    IF published.snapshot = NoSnapshot THEN Named(H, o, p) ELSE Keys

Matches(o, H, S, p) ==
    /\ \A k \in Known(o, H, p) : graph[k] = S[p][k]
    /\ \A k \in Keys : Live(graph, k) => k \in Known(o, H, Last)

\* The entries behind LSN p are still to come from the deltas.
LoadingDeltas(H, p) ==
    /\ pending = << >>
    /\ cursor.frame = 1
    /\ p <= published.last_applied_lsn
    /\ cursor.deltas \subseteq published.deltas
    /\ EntriesOk(H, cursor.entries, p, published.last_applied_lsn)
    /\ \A j \in DOMAIN cursor.entries : cursor.entries[j].lsn <= Last
    /\ \A d \in cursor.deltas :
          /\ p < d.first
          /\ \A j \in DOMAIN cursor.entries : cursor.entries[j].lsn < d.first
    /\ \A i \in (p + 1) .. Last :
          H[i] # EmptyBatch /\ i <= published.last_applied_lsn =>
             InEntries(cursor.entries, i) \/ InDeltas(cursor.deltas, i)

\* The entries behind LSN p are still to come from the log.
Replaying(o, H, p) ==
    /\ EntriesOk(H, pending, published.last_applied_lsn, p)
    /\ \A i \in (o + 1) .. p : H[i] # EmptyBatch =>
          InDeltas(published.deltas, i) \/ InEntries(pending, i)
    /\ \A m \in DOMAIN wal :
          m >= cursor.frame /\ wal[m].lsn > published.last_applied_lsn =>
             p < wal[m].lsn
    /\ \A i \in (p + 1) .. Last : H[i] # EmptyBatch =>
          /\ published.last_applied_lsn < i
          /\ Last - Len(wal) + cursor.frame <= i

Recovering(o, H, S) ==
    /\ manifest = published
    /\ next_lsn = Last + 1
    /\ pc = "load_segments" => pending = << >>
    /\ pc # "load_segments" =>
          \E p \in o .. Last :
             /\ Matches(o, H, S, p)
             /\ pc = "load_deltas" => LoadingDeltas(H, p)
             /\ pc = "replay" => Replaying(o, H, p)

Running == {"ready"} \cup Checkpointing \cup Compacting

FilesHold(o, H, S) ==
    /\ Chain(Last, o, H, S)
    /\ S[Last] = committed
    /\ Logged(o, H)
    /\ Based(o, H, S)
    /\ OnDisk(o, H)

Durable(o, H, S) ==
    /\ FilesHold(o, H, S)
    /\ pc \in Running => InMemory(o, H) /\ Written
    /\ pc \in Opening => Recovering(o, H, S)

\* Failed writes of the log, of the manifest and of snapshot files are
\* tolerated; a manifest that cannot be written is so only until a compaction
\* has replaced the files that it lists.
Tolerated ==
    /\ Faults \subseteq {"append_write", "manifest_write", "segment_write"}
    /\ "manifest_write" \in Faults => MaxCompactions = 0

\* What a step of the engine keeps beside the history.
Counted ==
    /\ compactions <= MaxCompactions
    /\ pc \in Compacting => compactions > 0
    /\ pc \in Writing /\ published.snapshot # NoSnapshot => compactions > 1
    /\ pc \in Down => pending = << >>
    /\ pc \in Down \cup Opening => exposure # "at_risk"
    /\ compactions = 0 =>
          /\ exposure = "none"
          /\ segments = NoSnapshot
          /\ published.snapshot = NoSnapshot
          /\ published.last_applied_lsn <= Last
    /\ pc = "refused" =>
          exposure = "lost" \/ compactions > 1 \/ MaxReplayFrames < MaxFrames

Histories == [Nat -> WriteBatches]
Graphings == [Nat -> Graphs]

DurableHistory ==
    \E o \in Nat, H \in Histories, S \in Graphings : Durable(o, H, S)

DurableInv == TypeInv /\ Counted /\ (exposure # "lost" => DurableHistory)

-----------------------------------------------------------------------------
(* Batches applied to graphs that agree on some keys                       *)

LEMMA EmptyBatchApplied ==
    ASSUME NEW g \in Graphs
    PROVE  /\ apply_batch_to_maps_unchecked(g, EmptyBatch) = g
           /\ validate_batch_against_maps(g, EmptyBatch)
           /\ BatchKeys(EmptyBatch) = {}
<1>1. /\ Upserted(EmptyBatch.nodes_upserted) = {}
      /\ Upserted(EmptyBatch.edges_upserted) = {}
      /\ EmptyBatch.deleted_node_ids = {} /\ EmptyBatch.deleted_edge_ids = {}
      /\ DOMAIN EmptyBatch.edges_upserted = {}
  BY DEF EmptyBatch, Upserted
<1> DEFINE h == apply_batch_to_maps_unchecked(g, EmptyBatch)
<1>2. h \in Graphs
  BY ApplyType, EmptyBatchFacts
<1>3. \A n \in NodeIds : h[n] = g[n]
  BY <1>1, AppliedNode
<1>4. \A e \in EdgeIds : h[e] = g[e]
  BY <1>1, AppliedEdge DEF Incident
<1>5. h = g
  <2>1. \A k \in Keys : h[k] = g[k]
    BY <1>3, <1>4 DEF Keys
  <2>2. h = [k \in Keys |-> h[k]] /\ g = [k \in Keys |-> g[k]]
    BY <1>2 DEF Graphs
  <2> HIDE DEF h
  <2> QED BY <2>1, <2>2
<1> QED BY <1>1, <1>5 DEF validate_batch_against_maps, BatchKeys

\* Two graphs that agree on some keys agree on those and on the keys of the
\* batch once it is applied to both.
LEMMA ApplyAgrees ==
    ASSUME NEW g \in Graphs, NEW h \in Graphs, NEW b \in WriteBatches, NEW K,
           \A k \in K : g[k] = h[k]
    PROVE  \A k \in Keys : k \in K \/ k \in BatchKeys(b) =>
              apply_batch_to_maps_unchecked(g, b)[k]
                 = apply_batch_to_maps_unchecked(h, b)[k]
<1>1. ASSUME NEW n \in NodeIds, n \in K \/ n \in BatchKeys(b)
      PROVE  apply_batch_to_maps_unchecked(g, b)[n]
                = apply_batch_to_maps_unchecked(h, b)[n]
  <2>1. n \notin Upserted(b.edges_upserted) /\ n \notin b.deleted_edge_ids
    BY UpsertedEdge, GraphAssumption DEF WriteBatches
  <2> QED BY <1>1, <2>1, AppliedNode DEF BatchKeys
<1>2. ASSUME NEW e \in EdgeIds, e \in K \/ e \in BatchKeys(b)
      PROVE  apply_batch_to_maps_unchecked(g, b)[e]
                = apply_batch_to_maps_unchecked(h, b)[e]
  <2>1. e \notin Upserted(b.nodes_upserted) /\ e \notin b.deleted_node_ids
    BY UpsertedNode, GraphAssumption DEF WriteBatches
  <2> QED BY <1>2, <2>1, AppliedEdge DEF BatchKeys
<1> QED BY <1>1, <1>2 DEF Keys

\* A live key was live before or is named by the batch.
LEMMA ApplyNamed ==
    ASSUME NEW g \in Graphs, NEW b \in WriteBatches, NEW k \in Keys,
           Live(apply_batch_to_maps_unchecked(g, b), k)
    PROVE  Live(g, k) \/ k \in BatchKeys(b)
BY AppliedNode, AppliedEdge DEF Live, BatchKeys, Keys

\* A batch valid for a graph is valid for one with the same live keys, and
\* possibly more.
LEMMA ValidAgrees ==
    ASSUME NEW g \in Graphs, NEW h \in Graphs, NEW b \in WriteBatches, NEW K,
           \A k \in K : g[k] = h[k], \A k \in Keys : Live(h, k) => k \in K,
           validate_batch_against_maps(h, b)
    PROVE  validate_batch_against_maps(g, b)
<1> SUFFICES ASSUME NEW i \in DOMAIN b.edges_upserted,
                    NEW n \in {b.edges_upserted[i].value.source,
                               b.edges_upserted[i].value.target},
                    n \notin Upserted(b.nodes_upserted)
             PROVE  Live(g, n)
  BY DEF validate_batch_against_maps
<1> DEFINE R == [id : EdgeIds, value : EdgeRecords]
<1>1. b.edges_upserted \in Seq(R)
  BY DEF WriteBatches
<1>2. b.edges_upserted[i] \in R
  <2> HIDE DEF R
  <2> QED BY <1>1
<1>3. n \in NodeIds /\ n \in Keys
  BY <1>2 DEF EdgeRecords, Keys
<1>4. Live(h, n)
  BY DEF validate_batch_against_maps
<1> QED BY <1>3, <1>4 DEF Live

-----------------------------------------------------------------------------
(* Histories                                                               *)

LEMMA HistoryTypes ==
    ASSUME NEW H \in Histories, NEW S \in Graphings, NEW i \in Nat
    PROVE  H[i] \in WriteBatches /\ S[i] \in Graphs
BY DEF Histories, Graphings

\* Markers do not move the graph.
LEMMA Gap ==
    ASSUME NEW n \in Nat, NEW o \in Nat, NEW H \in Histories, NEW S \in Graphings,
           Chain(n, o, H, S), NEW p \in o .. n, NEW q \in p .. n,
           \A i \in (p + 1) .. q : H[i] = EmptyBatch
    PROVE  S[q] = S[p]
<1> DEFINE T == {m \in Nat : p + m <= q => S[p + m] = S[p]}
<1>1. 0 \in T
  OBVIOUS
<1>2. ASSUME NEW m \in Nat, m \in T PROVE m + 1 \in T
  <2> SUFFICES ASSUME p + m + 1 <= q PROVE S[p + m + 1] = S[p]
    OBVIOUS
  <2>1. S[p + m] = S[p] /\ p + m \in Nat
    BY <1>2
  <2>2. /\ p + m + 1 \in (p + 1) .. q /\ p + m + 1 \in (o + 1) .. n
        /\ (p + m + 1) - 1 = p + m
    OBVIOUS
  <2>3. H[p + m + 1] = EmptyBatch
    BY <2>2
  <2>4. S[p + m + 1] = apply_batch_to_maps_unchecked(S[p + m], H[p + m + 1])
    BY <2>2 DEF Chain
  <2>5. S[p + m] \in Graphs
    BY <2>1, HistoryTypes
  <2> QED BY <2>1, <2>3, <2>4, <2>5, EmptyBatchApplied
<1>3. Nat \subseteq T
  <2> HIDE DEF T
  <2> QED BY <1>1, <1>2, NaturalsBySuccessor
<1>4. q - p \in Nat /\ p + (q - p) = q
  OBVIOUS
<1>5. q - p \in T
  BY <1>3, <1>4
<1> QED BY <1>4, <1>5

LEMMA GapNamed ==
    ASSUME NEW o \in Nat, NEW H \in Histories, NEW p \in Nat, NEW q \in Nat,
           p <= q, \A i \in (p + 1) .. q : H[i] = EmptyBatch
    PROVE  Named(H, o, q) = Named(H, o, p)
<1>1. BatchKeys(EmptyBatch) = {}
  BY EmptyGraphFacts, EmptyBatchApplied
<1>2. \A i \in (o + 1) .. q : i \in (o + 1) .. p \/ H[i] = EmptyBatch
  OBVIOUS
<1>3. \A i \in (o + 1) .. p : i \in (o + 1) .. q
  OBVIOUS
<1> QED BY <1>1, <1>2, <1>3 DEF Named

\* The history with one more LSN.
LEMMA ChainExtends ==
    ASSUME NEW n \in Nat, NEW o \in Nat, NEW H \in Histories, NEW S \in Graphings,
           Chain(n, o, H, S), NEW b \in WriteBatches,
           validate_batch_against_maps(S[n], b)
    PROVE  LET G == [H EXCEPT ![n + 1] = b]
               R == [S EXCEPT ![n + 1] = apply_batch_to_maps_unchecked(S[n], b)]
           IN  /\ G \in Histories /\ R \in Graphings
               /\ \A i \in Nat : i <= n => G[i] = H[i] /\ R[i] = S[i]
               /\ G[n + 1] = b /\ R[n + 1] = apply_batch_to_maps_unchecked(S[n], b)
               /\ Chain(n + 1, o, G, R)
<1> DEFINE G == [H EXCEPT ![n + 1] = b]
           g == apply_batch_to_maps_unchecked(S[n], b)
           R == [S EXCEPT ![n + 1] = g]
<1>1. S[n] \in Graphs /\ g \in Graphs
  BY HistoryTypes, ApplyType
<1> HIDE DEF g
<1>2. G \in Histories /\ R \in Graphings
  BY <1>1 DEF Histories, Graphings
<1>3. /\ \A i \in Nat : i <= n => G[i] = H[i] /\ R[i] = S[i]
      /\ G[n + 1] = b /\ R[n + 1] = g
  BY DEF Histories, Graphings
<1> HIDE DEF G, R
<1>4. Chain(n + 1, o, G, R)
  <2> SUFFICES ASSUME NEW i \in (o + 1) .. (n + 1)
               PROVE  /\ validate_batch_against_maps(R[i - 1], G[i])
                      /\ R[i] = apply_batch_to_maps_unchecked(R[i - 1], G[i])
    BY DEF Chain
  <2>1. CASE i <= n
    <3>1. i \in (o + 1) .. n /\ i \in Nat /\ i - 1 \in Nat /\ i - 1 <= n
      BY <2>1
    <3> QED BY <2>1, <3>1, <1>3 DEF Chain
  <2>2. CASE i = n + 1
    <3>1. i - 1 = n
      BY <2>2
    <3> QED BY <2>2, <3>1, <1>3 DEF g
  <2> QED BY <2>1, <2>2
<1> QED BY <1>2, <1>3, <1>4 DEF G, R, g

\* What is said of LSNs up to n stays true when the history grows behind n.
LEMMA EntriesKeep ==
    ASSUME NEW n \in Nat, NEW H \in Histories, NEW G \in Histories,
           \A i \in Nat : i <= n => G[i] = H[i],
           NEW s \in Seq(Entries), NEW lo \in Int, NEW hi \in Nat, hi <= n,
           EntriesOk(H, s, lo, hi)
    PROVE  EntriesOk(G, s, lo, hi)
<1>1. \A i \in DOMAIN s : s[i].lsn \in Nat
  <2>1. \A i \in DOMAIN s : s[i] \in Entries
    OBVIOUS
  <2> QED BY <2>1 DEF Entries, Lsns
<1>2. \A i \in DOMAIN s : s[i].lsn <= n
  BY <1>1 DEF EntriesOk
<1> QED BY <1>1, <1>2 DEF EntriesOk

LEMMA DeltasKeep ==
    ASSUME NEW n \in Nat, NEW m \in Nat, n <= m, NEW o \in Nat,
           NEW H \in Histories, NEW G \in Histories,
           \A i \in Nat : i <= n => G[i] = H[i],
           NEW D \in SUBSET Deltas, DeltasOk(n, o, H, D)
    PROVE  DeltasOk(m, o, G, D)
<1>1. ASSUME NEW d \in D
      PROVE  /\ o < d.first /\ d.first <= d.checkpoint /\ d.checkpoint <= m
             /\ EntriesOk(G, d.entries, d.first - 1, d.checkpoint)
  <2>1. d.first \in Nat /\ d.checkpoint \in Nat /\ d.entries \in Seq(Entries)
    BY DEF Deltas, Lsns
  <2>2. /\ o < d.first /\ d.first <= d.checkpoint /\ d.checkpoint <= n
        /\ EntriesOk(H, d.entries, d.first - 1, d.checkpoint)
    BY DEF DeltasOk
  <2> QED BY <2>1, <2>2, EntriesKeep
<1>2. \A c, d \in D : c = d \/ c.checkpoint < d.first \/ d.checkpoint < c.first
  BY DEF DeltasOk
<1> QED BY <1>1, <1>2 DEF DeltasOk

LEMMA NamedExtends ==
    ASSUME NEW n \in Nat, NEW o \in Nat, o <= n, NEW H \in Histories,
           NEW G \in Histories, \A i \in Nat : i <= n => G[i] = H[i]
    PROVE  /\ \A p \in 0 .. n : Named(G, o, p) = Named(H, o, p)
           /\ Named(H, o, n) \subseteq Named(G, o, n + 1)
           /\ \A k \in Keys : k \in BatchKeys(G[n + 1]) => k \in Named(G, o, n + 1)
<1>1. \A p \in 0 .. n : \A i \in (o + 1) .. p : i \in Nat /\ i <= n
  OBVIOUS
<1>2. \A i \in (o + 1) .. n : i \in (o + 1) .. (n + 1) /\ i \in Nat /\ i <= n
  OBVIOUS
<1>3. n + 1 \in (o + 1) .. (n + 1)
  OBVIOUS
<1> QED BY <1>1, <1>2, <1>3 DEF Named

-----------------------------------------------------------------------------
(* The last LSN and the log                                                *)

LEMMA WalFacts ==
    ASSUME TypeOK
    PROVE  /\ wal \in Seq(Frames) /\ Len(wal) \in Nat /\ DOMAIN wal = 1 .. Len(wal)
           /\ \A i \in DOMAIN wal :
                 wal[i] \in Frames /\ wal[i].lsn \in Nat /\ wal[i].batch \in WriteBatches
           /\ wal # << >> => Len(wal) \in DOMAIN wal
           /\ Last \in Nat
           /\ published.last_applied_lsn \in Nat
<1>1. wal \in Seq(Frames) /\ Len(wal) \in Nat /\ DOMAIN wal = 1 .. Len(wal)
  BY DEF TypeOK
<1>2. \A i \in DOMAIN wal : wal[i] \in Frames
  BY <1>1
<1>3. \A i \in DOMAIN wal : wal[i].lsn \in Nat /\ wal[i].batch \in WriteBatches
  BY <1>2 DEF Frames, Lsns
<1>4. wal # << >> => Len(wal) \in DOMAIN wal
  BY <1>1
<1>5. Last \in Nat
  BY <1>3, <1>4 DEF Last
<1>6. published.last_applied_lsn \in Nat
  BY DEF TypeOK, Manifests, Lsns
<1> QED BY <1>1, <1>2, <1>3, <1>4, <1>5, <1>6

LEMMA DeltaFacts ==
    ASSUME TypeOK
    PROVE  /\ published.deltas \in SUBSET Deltas /\ manifest.deltas \in SUBSET Deltas
           /\ cursor.deltas \in SUBSET Deltas
           /\ \A d \in Deltas : /\ d.first \in Nat /\ d.checkpoint \in Nat
                                /\ d.entries \in Seq(Entries)
           /\ pending \in Seq(Entries) /\ cursor.entries \in Seq(Entries)
<1>1. /\ published.deltas \in SUBSET Deltas /\ manifest.deltas \in SUBSET Deltas
      /\ cursor.deltas \in SUBSET Deltas
      /\ pending \in Seq(Entries) /\ cursor.entries \in Seq(Entries)
  BY DEF TypeOK, Manifests, Cursors
<1>2. \A d \in Deltas : /\ d.first \in Nat /\ d.checkpoint \in Nat
                        /\ d.entries \in Seq(Entries)
  BY DEF Deltas, Lsns
<1> QED BY <1>1, <1>2

LEMMA EntryFacts ==
    ASSUME NEW s \in Seq(Entries)
    PROVE  /\ Len(s) \in Nat /\ DOMAIN s = 1 .. Len(s)
           /\ \A i \in DOMAIN s : s[i].lsn \in Nat /\ s[i].batch \in WriteBatches
<1>1. \A i \in DOMAIN s : s[i] \in Entries
  OBVIOUS
<1> QED BY <1>1 DEF Entries, Lsns

LEMMA AppendedLog ==
    ASSUME TypeOK, NEW kind \in FrameKinds, NEW b \in WriteBatches,
           wal' = Append(wal, Frame(kind, b))
    PROVE  /\ Len(wal') = Len(wal) + 1 /\ DOMAIN wal' = 1 .. (Len(wal) + 1)
           /\ \A i \in DOMAIN wal : wal'[i] = wal[i]
           /\ wal'[Len(wal) + 1].lsn = next_lsn
           /\ wal'[Len(wal) + 1].kind = kind
           /\ wal'[Len(wal) + 1].batch = b
           /\ Last' = next_lsn
<1> DEFINE f == Frame(kind, b)
<1>1. f \in Frames /\ f.lsn = next_lsn /\ f.kind = kind /\ f.batch = b
  BY FrameType DEF Frame
<1>2. wal \in Seq(Frames) /\ wal' = Append(wal, f)
  BY DEF TypeOK
<1> HIDE DEF f
<1>3. /\ Len(wal') = Len(wal) + 1 /\ DOMAIN wal' = 1 .. (Len(wal) + 1)
      /\ \A i \in DOMAIN wal : wal'[i] = wal[i]
      /\ wal'[Len(wal) + 1] = f
      /\ wal' # << >>
  BY <1>1, <1>2
<1> QED BY <1>1, <1>3 DEF Last

-----------------------------------------------------------------------------
(* A record is logged                                                      *)

\* The record extends the history; what the files hold of the earlier history
\* is still there.  A batch below the published LSN is exposed.
LEMMA LoggedFiles ==
    ASSUME TypeOK, TypeOK', NEW o \in Nat, NEW H \in Histories, NEW S \in Graphings,
           FilesHold(o, H, S), next_lsn = Last + 1,
           NEW kind \in {"write_batch", "checkpoint"}, NEW b \in WriteBatches,
           (kind = "checkpoint") <=> (b = EmptyBatch),
           Len(wal) < MaxFrames, wal' = Append(wal, Frame(kind, b)),
           validate_batch_against_maps(committed, b),
           committed' = apply_batch_to_maps_unchecked(committed, b),
           UNCHANGED << segments, deltas, published >>,
           compactions <= compactions',
           exposure' = "none" => /\ exposure = "none"
                                 /\ b = EmptyBatch
                                       \/ published.last_applied_lsn < next_lsn
    PROVE  \E G \in Histories, R \in Graphings :
              /\ FilesHold(o, G, R)'
              /\ \A i \in Nat : i <= Last => G[i] = H[i]
              /\ G[Last + 1] = b
<1>0. PICK n \in Nat : n = Last
  BY WalFacts
<1> DEFINE G == [H EXCEPT ![n + 1] = b]
           R == [S EXCEPT ![n + 1] = apply_batch_to_maps_unchecked(S[n], b)]
<1>1. /\ n = Last /\ n \in Nat /\ S[n] = committed /\ Chain(n, o, H, S) /\ o <= n
      /\ kind \in FrameKinds /\ published.last_applied_lsn \in Nat
      /\ Len(wal) \in Nat /\ DOMAIN wal = 1 .. Len(wal) /\ compactions \in Nat
      /\ compactions' \in Nat
  BY <1>0, WalFacts DEF FilesHold, FrameKinds, Chain, TypeOK
<1>2. /\ G \in Histories /\ R \in Graphings
      /\ \A i \in Nat : i <= n => G[i] = H[i] /\ R[i] = S[i]
      /\ G[n + 1] = b /\ R[n + 1] = apply_batch_to_maps_unchecked(S[n], b)
      /\ Chain(n + 1, o, G, R)
  BY <1>1, ChainExtends
<1> HIDE DEF G, R
<1>3. /\ Len(wal') = Len(wal) + 1 /\ DOMAIN wal' = 1 .. (Len(wal) + 1)
      /\ \A i \in DOMAIN wal : wal'[i] = wal[i]
      /\ wal'[Len(wal) + 1].lsn = n + 1
      /\ wal'[Len(wal) + 1].kind = kind
      /\ wal'[Len(wal) + 1].batch = b
      /\ Last' = n + 1
  BY <1>1, AppendedLog
<1>4. R[n + 1] = committed'
  BY <1>1, <1>2
<1>5. Logged(o, G)'
  <2>1. /\ Len(wal) <= n
        /\ \A i \in DOMAIN wal :
              /\ wal[i].lsn = n - Len(wal) + i
              /\ \/ wal[i].kind = "checkpoint" /\ wal[i].batch = EmptyBatch
                 \/ wal[i].kind = "write_batch" /\ wal[i].batch # EmptyBatch
              /\ o < wal[i].lsn => wal[i].batch = H[wal[i].lsn]
    BY <1>1 DEF FilesHold, Logged
  <2>2. Len(wal') <= Last' /\ Len(wal') <= MaxFrames
    BY <1>1, <1>3, <2>1, StorageAssumption
  <2>3. ASSUME NEW i \in DOMAIN wal'
        PROVE  /\ wal'[i].lsn = Last' - Len(wal') + i
               /\ \/ wal'[i].kind = "checkpoint" /\ wal'[i].batch = EmptyBatch
                  \/ wal'[i].kind = "write_batch" /\ wal'[i].batch # EmptyBatch
               /\ o < wal'[i].lsn => wal'[i].batch = G[wal'[i].lsn]
    <3>1. CASE i \in DOMAIN wal
      <4>1. wal'[i] = wal[i] /\ wal[i].lsn = n - Len(wal) + i /\ i \in Nat /\ i <= Len(wal)
        BY <1>1, <1>3, <2>1, <3>1
      <4>2. wal[i].lsn \in Nat /\ wal[i].lsn <= n
        BY <1>1, <2>1, <4>1
      <4>3. Last' - Len(wal') + i = n - Len(wal) + i
        BY <1>1, <1>3, <4>1
      <4>4. o < wal[i].lsn => wal[i].batch = G[wal[i].lsn]
        BY <1>2, <2>1, <3>1, <4>2
      <4> QED BY <2>1, <3>1, <4>1, <4>3, <4>4
    <3>2. CASE i = Len(wal) + 1
      <4>1. Last' - Len(wal') + i = n + 1
        BY <1>1, <1>3, <3>2
      <4> QED BY <1>2, <1>3, <3>2, <4>1
    <3> QED BY <1>1, <1>3, <3>1, <3>2
  <2> QED BY <2>2, <2>3 DEF Logged
<1>6. Based(o, G, R)'
  <2>1. LoadedSnapshot' = LoadedSnapshot
    BY LoadedUnchanged
  <2>2. CASE published.snapshot = NoSnapshot
    <3>1. /\ o = 0
          /\ \A p \in 0 .. n : \A k \in Keys : Live(S[p], k) => k \in Named(H, 0, p)
          /\ \A k \in Keys : Live(LoadedSnapshot, k) => k \in Named(H, 0, n)
      BY <1>1, <2>2 DEF FilesHold, Based
    <3>2. /\ \A p \in 0 .. n : Named(G, 0, p) = Named(H, 0, p)
          /\ Named(H, 0, n) \subseteq Named(G, 0, n + 1)
          /\ \A k \in Keys : k \in BatchKeys(b) => k \in Named(G, 0, n + 1)
      BY <1>1, <1>2, NamedExtends
    <3>3. ASSUME NEW p \in 0 .. (n + 1), NEW k \in Keys, Live(R[p], k)
          PROVE  k \in Named(G, 0, p)
      <4>1. CASE p <= n
        <5>1. p \in 0 .. n /\ p \in Nat
          BY <1>1, <4>1
        <5> QED BY <1>2, <3>1, <3>2, <3>3, <4>1, <5>1
      <4>2. CASE p = n + 1
        <5>1. n \in 0 .. n /\ S[n] \in Graphs
          BY <1>1, HistoryTypes
        <5>2. Live(S[n], k) \/ k \in BatchKeys(b)
          BY <1>2, <3>3, <4>2, <5>1, ApplyNamed
        <5> QED BY <3>1, <3>2, <4>2, <5>1, <5>2
      <4> QED BY <1>1, <4>1, <4>2
    <3> QED BY <1>3, <2>1, <2>2, <3>1, <3>2, <3>3 DEF Based
  <2>3. CASE published.snapshot # NoSnapshot
    <3>1. R[o] = S[o]
      BY <1>1, <1>2
    <3> QED BY <1>1, <2>3, <3>1 DEF FilesHold, Based
  <2> QED BY <2>2, <2>3
<1>7. OnDisk(o, G)'
  <2>1. /\ published.deltas \subseteq deltas
        /\ DeltasOk(n, o, H, published.deltas)
        /\ o <= published.last_applied_lsn
        /\ \A d \in published.deltas : d.checkpoint <= published.last_applied_lsn
        /\ exposure = "none" =>
              \A i \in (o + 1) .. n : H[i] # EmptyBatch =>
                 IF i <= published.last_applied_lsn THEN InDeltas(published.deltas, i)
                 ELSE n - Len(wal) < i
    BY <1>1 DEF FilesHold, OnDisk
  <2>2. DeltasOk(n + 1, o, G, published.deltas)
    <3>1. published.deltas \in SUBSET Deltas /\ n + 1 \in Nat /\ n <= n + 1
      BY <1>1, DeltaFacts
    <3>2. \A i \in Nat : i <= n => G[i] = H[i]
      BY <1>2
    <3> QED BY <1>1, <1>2, <2>1, <3>1, <3>2, DeltasKeep
  <2>3. ASSUME exposure' = "none", NEW i \in (o + 1) .. (n + 1), G[i] # EmptyBatch
        PROVE  IF i <= published.last_applied_lsn THEN InDeltas(published.deltas, i)
               ELSE (n + 1) - (Len(wal) + 1) < i
    <3>1. CASE i <= n
      <4>1. i \in (o + 1) .. n /\ G[i] = H[i] /\ (n + 1) - (Len(wal) + 1) = n - Len(wal)
        BY <1>1, <1>2, <3>1
      <4> QED BY <2>1, <2>3, <4>1
    <3>2. CASE i = n + 1
      BY <1>1, <1>2, <2>3, <3>2
    <3> QED BY <1>1, <3>1, <3>2
  <2> QED BY <1>3, <2>1, <2>2, <2>3 DEF OnDisk
<1> QED BY <1>1, <1>2, <1>3, <1>4, <1>5, <1>6, <1>7 DEF FilesHold

\* The engine that logged it still holds every logged batch.
LEMMA LoggedMemory ==
    ASSUME TypeOK, NEW o \in Nat, NEW H \in Histories, NEW G \in Histories,
           InMemory(o, H), pc = "ready", o <= Last,
           \A i \in Nat : i <= Last => G[i] = H[i],
           Last' = Last + 1, next_lsn' = Last + 2,
           UNCHANGED << deltas, published, manifest >>,
           graph' = committed',
           pc' \in {"ready", "publish_delta", "publish_manifest", "write_nodes"},
           pc' # "ready" => latest_applied_lsn' = Last + 1,
           pc' = "publish_manifest" => pending = << >>,
           \/ pending' = pending /\ G[Last + 1] = EmptyBatch
           \/ /\ pending' = Append(pending, [lsn |-> Last + 1, batch |-> G[Last + 1]])
              /\ pc' = "ready"
    PROVE  InMemory(o, G)'
<1> DEFINE n == Last
           entry == [lsn |-> n + 1, batch |-> G[n + 1]]
<1>1. n \in Nat /\ pending \in Seq(Entries) /\ manifest.deltas \in SUBSET Deltas
  BY WalFacts, DeltaFacts
<1>2. /\ manifest.snapshot = published.snapshot
      /\ published.deltas \subseteq manifest.deltas
      /\ manifest.deltas \subseteq deltas
      /\ DeltasOk(n, o, H, manifest.deltas)
      /\ EntriesOk(H, pending, o, n)
      /\ \A d \in manifest.deltas : \A j \in DOMAIN pending :
            d.checkpoint < pending[j].lsn
      /\ \A i \in (o + 1) .. n : H[i] # EmptyBatch =>
            InDeltas(manifest.deltas, i) \/ InEntries(pending, i)
  BY DEF InMemory, n
<1>3. Last' = n + 1 /\ \A i \in Nat : i <= n => G[i] = H[i]
  BY DEF n
<1>4. entry \in Entries /\ entry.lsn = n + 1 /\ entry.batch = G[n + 1]
  BY <1>1, HistoryTypes DEF Entries, Lsns, Histories
<1>5. \/ pending' = pending /\ G[n + 1] = EmptyBatch
      \/ pending' = Append(pending, entry)
  BY DEF n
<1> HIDE DEF n, entry
<1>6. DeltasOk(n + 1, o, G, manifest.deltas)
  BY <1>1, <1>2, <1>3, DeltasKeep
<1>7. EntriesOk(G, pending, o, n)
  BY <1>1, <1>2, <1>3, EntriesKeep
<1>8. \A i \in DOMAIN pending : pending[i].lsn \in Nat
  BY <1>1, EntryFacts
<1>9. /\ EntriesOk(G, pending', o, n + 1)
      /\ \A d \in manifest.deltas : \A j \in DOMAIN pending' :
            d.checkpoint < pending'[j].lsn
      /\ \A i \in (o + 1) .. (n + 1) : G[i] # EmptyBatch =>
            InDeltas(manifest.deltas, i) \/ InEntries(pending', i)
  <2>1. \A i \in (o + 1) .. (n + 1) : i \in (o + 1) .. n \/ i = n + 1
    BY <1>1
  <2>2. \A i \in (o + 1) .. n : i \in Nat /\ i <= n
    BY <1>1
  <2>3. CASE pending' = pending /\ G[n + 1] = EmptyBatch
    <3>1. EntriesOk(G, pending, o, n + 1)
      BY <1>1, <1>7, <1>8 DEF EntriesOk
    <3> QED BY <1>2, <1>3, <2>1, <2>2, <2>3, <3>1
  <2>4. CASE pending' = Append(pending, entry)
    <3>1. /\ Len(pending) \in Nat /\ DOMAIN pending = 1 .. Len(pending)
          /\ DOMAIN pending' = 1 .. (Len(pending) + 1)
          /\ pending'[Len(pending) + 1] = entry
          /\ \A i \in DOMAIN pending : pending'[i] = pending[i]
      BY <1>1, <1>4, <2>4
    <3>2. \A i \in DOMAIN pending' :
             i \in DOMAIN pending \/ (i = Len(pending) + 1 /\ pending'[i] = entry)
      BY <3>1
    <3>3. \A i \in DOMAIN pending : i \in DOMAIN pending' /\ i < Len(pending) + 1
      BY <3>1
    <3>4. \A i \in DOMAIN pending' :
             /\ o < pending'[i].lsn /\ pending'[i].lsn <= n + 1
             /\ pending'[i].batch = G[pending'[i].lsn]
      BY <1>1, <1>4, <1>7, <1>8, <3>1, <3>2 DEF EntriesOk, n
    <3>5. ASSUME NEW i \in DOMAIN pending', NEW j \in DOMAIN pending', i < j
          PROVE  pending'[i].lsn < pending'[j].lsn
      <4>1. i \in DOMAIN pending
        BY <3>1, <3>2, <3>5
      <4>2. CASE j \in DOMAIN pending
        BY <1>7, <3>1, <3>5, <4>1, <4>2 DEF EntriesOk
      <4>3. CASE j = Len(pending) + 1
        <5>1. pending[i].lsn <= n /\ pending[i].lsn \in Nat
          BY <1>7, <1>8, <4>1 DEF EntriesOk
        <5> QED BY <1>1, <1>4, <3>1, <4>1, <4>3, <5>1
      <4> QED BY <3>2, <4>2, <4>3
    <3>6. ASSUME NEW d \in manifest.deltas, NEW j \in DOMAIN pending'
          PROVE  d.checkpoint < pending'[j].lsn
      <4>1. d.checkpoint \in Nat /\ d.checkpoint <= n
        BY <1>1, <1>2, DeltaFacts DEF DeltasOk
      <4>2. CASE j \in DOMAIN pending
        BY <1>2, <3>1, <4>2
      <4>3. CASE j = Len(pending) + 1
        BY <1>1, <1>4, <3>1, <4>1, <4>3
      <4> QED BY <3>2, <4>2, <4>3
    <3>7. ASSUME NEW i \in (o + 1) .. (n + 1), G[i] # EmptyBatch
          PROVE  InDeltas(manifest.deltas, i) \/ InEntries(pending', i)
      <4>1. CASE i \in (o + 1) .. n
        <5>1. InDeltas(manifest.deltas, i) \/ InEntries(pending, i)
          BY <1>2, <1>3, <2>2, <3>7, <4>1
        <5> QED BY <3>1, <3>3, <5>1 DEF InEntries
      <4>2. CASE i = n + 1
        <5>1. Len(pending) + 1 \in DOMAIN pending'
          BY <3>1
        <5> QED BY <1>4, <3>1, <4>2, <5>1 DEF InEntries
      <4> QED BY <2>1, <4>1, <4>2
    <3> QED BY <3>4, <3>5, <3>6, <3>7 DEF EntriesOk
  <2> QED BY <1>5, <2>3, <2>4
<1>10. pc' = "publish_manifest" => pending' = << >>
  OBVIOUS
<1>11. next_lsn' = Last' + 1 /\ (pc' # "ready" => latest_applied_lsn' = Last')
  BY <1>1, <1>3 DEF n
<1> QED BY <1>2, <1>3, <1>6, <1>9, <1>10, <1>11 DEF InMemory, Replaced, n

-----------------------------------------------------------------------------
(* Steps of a serving engine                                               *)

LEMMA FilesUnchanged ==
    ASSUME NEW o, NEW H, NEW S, FilesHold(o, H, S), UNCHANGED << disk, history >>
    PROVE  FilesHold(o, H, S)'
<1>1. UNCHANGED << wal, segments, deltas, published, committed, exposure,
                   compactions >>
  BY DEF disk, history
<1>2. LoadedSnapshot' = LoadedSnapshot
  BY <1>1, LoadedUnchanged
<1>3. Last' = Last
  BY <1>1 DEF Last
<1> QED BY <1>1, <1>2, <1>3 DEF FilesHold, Logged, Based, OnDisk

LEMMA MemoryUnchanged ==
    ASSUME NEW o, NEW H, InMemory(o, H), Written, UNCHANGED << disk, history >>,
           UNCHANGED << pc, graph, next_lsn, latest_applied_lsn, pending, manifest >>
    PROVE  (InMemory(o, H) /\ Written)'
<1>1. UNCHANGED << wal, segments, deltas, published, committed >>
  BY DEF disk, history
<1>2. Last' = Last
  BY <1>1 DEF Last
<1>3. SnapshotOf(graph)' = SnapshotOf(graph)
  BY DEF SnapshotOf, Live
<1>4. InMemory(o, H)'
  BY <1>1, <1>2 DEF InMemory
<1>5. Written'
  BY <1>1, <1>3 DEF Written, SnapshotOf
<1> QED BY <1>4, <1>5

\* What the invariant says of a running engine that has lost nothing.
LEMMA RunningFacts ==
    ASSUME DurableInv, pc \in Running, exposure # "lost"
    PROVE  /\ TypeOK
           /\ \E o \in Nat, H \in Histories, S \in Graphings :
                 FilesHold(o, H, S) /\ InMemory(o, H) /\ Written
BY DEF DurableInv, DurableHistory, Durable, TypeInv

\* Such an engine after a step.
LEMMA RunningAgain ==
    ASSUME TypeInv', Counted', pc' \in Running,
           NEW o \in Nat, NEW H \in Histories, NEW S \in Graphings,
           FilesHold(o, H, S)', InMemory(o, H)', Written'
    PROVE  DurableInv'
<1>1. pc' \notin Opening
  BY DEF Running, Opening, Checkpointing, Compacting
<1>2. Durable(o, H, S)'
  BY <1>1 DEF Durable
<1> QED BY <1>2 DEF DurableInv, DurableHistory

LEMMA DurableWrite ==
    ASSUME DurableInv, TypeInv', NEW b \in Batches, apply_write_batch(b)
    PROVE  DurableInv'
<1>1. /\ b \in WriteBatches /\ b # EmptyBatch /\ pc = "ready" /\ pc' = "ready"
      /\ validate_batch_against_maps(graph, b)
      /\ graph' = apply_batch_to_maps_unchecked(graph, b)
      /\ committed' = apply_batch_to_maps_unchecked(committed, b)
      /\ Len(wal) < MaxFrames /\ wal' = Append(wal, Frame("write_batch", b))
      /\ next_lsn' = next_lsn + 1
      /\ pending' = Append(pending, [lsn |-> next_lsn, batch |-> b])
      /\ UNCHANGED << segments, deltas, published, manifest, compactions >>
  BY StorageAssumption DEF apply_write_batch, Accepted, WalAppend
<1>2. exposure' = IF exposure = "none" /\ next_lsn <= published.last_applied_lsn
                  THEN "at_risk" ELSE exposure
  BY DEF apply_write_batch
<1>3. pc \in Running /\ pc' \in Running /\ "write_batch" \in FrameKinds
  BY <1>1 DEF Running, FrameKinds
<1>4. TypeOK /\ TypeOK' /\ Last' = next_lsn /\ next_lsn \in Nat /\ Last \in Nat
      /\ published.last_applied_lsn \in Nat /\ compactions \in Nat
  BY <1>1, <1>3, AppendedLog, WalFacts DEF DurableInv, TypeInv, TypeOK
<1>5. CASE exposure = "lost"
  <2>1. exposure' = "lost"
    BY <1>2, <1>5
  <2> QED BY <1>1, <1>5, <2>1 DEF DurableInv, Counted, Compacting, Writing, Down, Opening
<1>6. CASE exposure # "lost"
  <2>1. PICK o \in Nat, H \in Histories, S \in Graphings :
           FilesHold(o, H, S) /\ InMemory(o, H) /\ Written
    BY <1>3, <1>6, RunningFacts
  <2>2. /\ graph = committed /\ next_lsn = Last + 1 /\ o <= Last
    BY <1>1, <2>1 DEF InMemory, FilesHold, Chain
  <2>3. exposure' = "none" => exposure = "none" /\ published.last_applied_lsn < next_lsn
    BY <1>2, <1>4
  <2>4. PICK G \in Histories, R \in Graphings :
           /\ FilesHold(o, G, R)'
           /\ \A i \in Nat : i <= Last => G[i] = H[i]
           /\ G[Last + 1] = b
    BY <1>1, <1>4, <2>1, <2>2, <2>3, LoggedFiles
  <2>5. InMemory(o, G)'
    <3>1. /\ pending' = Append(pending, [lsn |-> Last + 1, batch |-> G[Last + 1]])
          /\ graph' = committed' /\ Last' = Last + 1 /\ next_lsn' = Last + 2
      BY <1>1, <1>4, <2>2, <2>4
    <3> QED BY <1>1, <1>4, <2>1, <2>2, <2>4, <3>1, LoggedMemory
  <2>6. Written'
    BY <1>1 DEF Written
  <2>7. Counted'
    <3>1. compactions = 0 => published.last_applied_lsn <= Last /\ exposure = "none"
      BY DEF DurableInv, Counted
    <3>2. compactions = 0 =>
             exposure' = "none" /\ published.last_applied_lsn <= Last'
      BY <1>2, <1>4, <2>2, <3>1
    <3> QED BY <1>1, <3>2 DEF DurableInv, Counted, Compacting, Writing, Down, Opening
  <2> QED BY <1>3, <2>4, <2>5, <2>6, <2>7, RunningAgain
<1> QED BY <1>5, <1>6

\* The marker of a checkpoint or of a compaction.
LEMMA DurableMarker ==
    ASSUME DurableInv, TypeInv', BeginCheckpoint \/ BeginCompaction
    PROVE  DurableInv'
<1>1. /\ pc = "ready" /\ Len(wal) < MaxFrames
      /\ wal' = Append(wal, Frame("checkpoint", EmptyBatch))
      /\ next_lsn' = next_lsn + 1 /\ latest_applied_lsn' = next_lsn
      /\ UNCHANGED << segments, deltas, published, graph, pending, manifest,
                      committed, exposure >>
      /\ \/ /\ compactions' = compactions
            /\ pc' \in {"publish_delta", "publish_manifest"}
            /\ pc' = "publish_manifest" => pending = << >>
         \/ /\ compactions' = compactions + 1 /\ pc' = "write_nodes"
            /\ compactions < MaxCompactions
  BY DEF BeginCheckpoint, BeginCompaction, WalAppend, history
<1>2. /\ pc \in Running /\ pc' \in Running /\ "checkpoint" \in FrameKinds
      /\ pc' \in {"publish_delta", "publish_manifest", "write_nodes"}
      /\ pc' \in Compacting => compactions' = compactions + 1
  BY <1>1 DEF Running, Checkpointing, Compacting, FrameKinds
<1>3. /\ TypeOK /\ TypeOK' /\ next_lsn \in Nat /\ Last \in Nat
      /\ published.last_applied_lsn \in Nat /\ compactions \in Nat
      /\ EmptyBatch \in WriteBatches /\ committed \in Graphs
  BY WalFacts, EmptyBatchFacts DEF DurableInv, TypeInv, TypeOK
<1>4. Last' = next_lsn
  BY <1>1, <1>2, <1>3, AppendedLog
<1>5. /\ compactions' <= MaxCompactions /\ compactions <= compactions'
      /\ pc' \in Compacting => compactions' > 0
      /\ compactions' = 0 => compactions = 0
      /\ compactions' \in Nat
      /\ pc' \in Writing /\ published'.snapshot # NoSnapshot => compactions' > 1
      /\ pc' \notin Down \cup Opening
  <2>1. /\ compactions <= MaxCompactions /\ MaxCompactions \in Nat
        /\ compactions = 0 => published.snapshot = NoSnapshot
    BY StorageAssumption DEF DurableInv, Counted
  <2>2. pc' \notin Down \cup Opening
    BY <1>2 DEF Down, Opening
  <2>3. pc' \in Writing => compactions' = compactions + 1
    BY <1>1 DEF Writing
  <2> QED BY <1>1, <1>2, <1>3, <2>1, <2>2, <2>3
<1>6. CASE exposure = "lost"
  <2>1. compactions # 0
    BY <1>6 DEF DurableInv, Counted
  <2>2. Counted'
    BY <1>5, <2>1 DEF Counted, Down, Opening
  <2> QED BY <1>1, <1>6, <2>2 DEF DurableInv
<1>7. CASE exposure # "lost"
  <2>1. PICK o \in Nat, H \in Histories, S \in Graphings :
           FilesHold(o, H, S) /\ InMemory(o, H) /\ Written
    BY <1>2, <1>7, RunningFacts
  <2>2. /\ graph = committed /\ next_lsn = Last + 1 /\ o <= Last
    BY <1>1, <2>1 DEF InMemory, FilesHold, Chain
  <2>3. /\ validate_batch_against_maps(committed, EmptyBatch)
        /\ committed' = apply_batch_to_maps_unchecked(committed, EmptyBatch)
    BY <1>1, <1>3, EmptyBatchApplied
  <2>4. PICK G \in Histories, R \in Graphings :
           /\ FilesHold(o, G, R)'
           /\ \A i \in Nat : i <= Last => G[i] = H[i]
           /\ G[Last + 1] = EmptyBatch
    <3>1. /\ Len(wal) < MaxFrames /\ wal' = Append(wal, Frame("checkpoint", EmptyBatch))
          /\ UNCHANGED << segments, deltas, published >> /\ compactions <= compactions'
          /\ exposure' = "none" => exposure = "none"
      BY <1>1, <1>5
    <3>2. "checkpoint" \in {"write_batch", "checkpoint"}
      OBVIOUS
    <3> QED BY <1>3, <2>1, <2>2, <2>3, <3>1, <3>2, LoggedFiles
  <2>5. InMemory(o, G)'
    <3>1. /\ graph' = committed' /\ Last' = Last + 1 /\ next_lsn' = Last + 2
          /\ latest_applied_lsn' = Last + 1
      BY <1>1, <1>3, <1>4, <2>2
    <3> QED BY <1>1, <1>2, <1>3, <2>1, <2>2, <2>4, <3>1, LoggedMemory
  <2>6. Written'
    BY <1>2 DEF Written
  <2>7. Counted'
    <3>1. compactions = 0 =>
             /\ published.last_applied_lsn <= Last /\ exposure = "none"
             /\ segments = NoSnapshot /\ published.snapshot = NoSnapshot
      BY DEF DurableInv, Counted
    <3>2. compactions' = 0 => published'.last_applied_lsn <= Last'
      BY <1>1, <1>3, <1>4, <1>5, <2>2, <3>1
    <3> QED BY <1>1, <1>5, <3>1, <3>2 DEF Counted, Down, Opening
  <2> QED BY <1>2, <2>4, <2>5, <2>6, <2>7, RunningAgain
<1> QED BY <1>6, <1>7

\* A record that cannot be logged leaves nothing behind.
LEMMA DurableFailedAppend ==
    ASSUME Tolerated, DurableInv, TypeInv', NEW kind, NEW b,
           WalAppendFails(kind, b), pc = "ready",
           UNCHANGED << segments, deltas, published, pc, graph,
                        latest_applied_lsn, pending, manifest, cursor, history >>
    PROVE  DurableInv'
<1>1. UNCHANGED << disk, next_lsn >>
  BY DEF WalAppendFails, Tolerated, disk
<1>2. Last' = Last
  BY <1>1 DEF Last, disk
<1>3. Counted'
  BY <1>1, <1>2 DEF DurableInv, Counted, disk, history
<1>4. CASE exposure = "lost"
  BY <1>3, <1>4 DEF DurableInv, history
<1>5. CASE exposure # "lost"
  <2>1. PICK o \in Nat, H \in Histories, S \in Graphings :
           FilesHold(o, H, S) /\ InMemory(o, H) /\ Written
    BY <1>5, RunningFacts DEF Running
  <2>2. FilesHold(o, H, S)'
    BY <1>1, <2>1, FilesUnchanged
  <2>3. (InMemory(o, H) /\ Written)'
    BY <1>1, <2>1, MemoryUnchanged
  <2> QED BY <1>3, <2>2, <2>3, RunningAgain DEF Running
<1> QED BY <1>4, <1>5

LEMMA NoEntries ==
    ASSUME NEW H, NEW lo, NEW hi
    PROVE  EntriesOk(H, << >>, lo, hi) /\ \A i : ~InEntries(<< >>, i)
BY DEF EntriesOk, InEntries

\* The pending entries become a delta of their own, behind all others.
LEMMA DurablePublishDelta ==
    ASSUME Tolerated, DurableInv, TypeInv', PublishDelta
    PROVE  DurableInv'
<1> DEFINE d == PendingDelta
<1>1. /\ pc = "publish_delta" /\ pc' = "publish_manifest" /\ pending' = << >>
      /\ deltas' = Replacing(deltas, d)
      /\ manifest' = [manifest EXCEPT !.deltas = Replacing(manifest.deltas, d)]
      /\ UNCHANGED << wal, segments, published, graph, next_lsn,
                      latest_applied_lsn, committed, exposure, compactions >>
  BY DEF PublishDelta, Tolerated, history
<1>2. TypeOK /\ pc \in Running /\ pc' \in Running /\ Last' = Last
  BY <1>1 DEF DurableInv, TypeInv, Running, Checkpointing, Last
<1>3. Counted'
  BY <1>1, <1>2 DEF DurableInv, Counted, Compacting, Writing, Down, Opening
<1>4. CASE exposure = "lost"
  BY <1>1, <1>3, <1>4 DEF DurableInv
<1>5. CASE exposure # "lost"
  <2>1. PICK o \in Nat, H \in Histories, S \in Graphings :
           FilesHold(o, H, S) /\ InMemory(o, H) /\ Written
    BY <1>2, <1>5, RunningFacts
  <2>2. /\ graph = committed /\ latest_applied_lsn = Last
        /\ manifest.snapshot = published.snapshot
        /\ published.deltas \subseteq manifest.deltas
        /\ manifest.deltas \subseteq deltas
        /\ DeltasOk(Last, o, H, manifest.deltas)
        /\ next_lsn = Last + 1
        /\ EntriesOk(H, pending, o, Last)
        /\ \A x \in manifest.deltas : \A j \in DOMAIN pending :
              x.checkpoint < pending[j].lsn
        /\ \A i \in (o + 1) .. Last : H[i] # EmptyBatch =>
              InDeltas(manifest.deltas, i) \/ InEntries(pending, i)
    BY <1>1, <2>1 DEF InMemory, Replaced
  <2>3. /\ d.first = pending[1].lsn /\ d.checkpoint = Last /\ d.entries = pending
    BY <2>2 DEF PendingDelta
  <2>4. /\ Len(pending) \in Nat /\ DOMAIN pending = 1 .. Len(pending)
        /\ \A i \in DOMAIN pending : pending[i].lsn \in Nat
        /\ 1 \in DOMAIN pending /\ Last \in Nat
    <3>1. pending \in Seq(Entries) /\ pending # << >>
      BY <1>1 DEF DurableInv, TypeInv, TypeOK, PendingWhenPublishing
    <3>2. 1 \in DOMAIN pending
      BY <3>1
    <3> QED BY <1>2, <3>1, <3>2, EntryFacts, WalFacts
  <2>5. \A x \in manifest.deltas :
           /\ x.first \in Nat /\ x.checkpoint \in Nat
           /\ x.first <= x.checkpoint /\ x.checkpoint < d.first
    BY <1>2, <2>2, <2>3, <2>4, DeltaFacts DEF DeltasOk
  <2>6. \A x \in manifest.deltas :
           <<x.first, x.checkpoint>> # <<d.first, d.checkpoint>>
    <3>1. d.first \in Nat
      BY <2>3, <2>4
    <3> QED BY <2>5, <3>1
  <2>7. /\ manifest.deltas \cup {d} \subseteq deltas'
        /\ manifest'.deltas = manifest.deltas \cup {d}
        /\ manifest'.snapshot = manifest.snapshot
    <3>1. manifest' = [manifest EXCEPT !.deltas = Replacing(manifest.deltas, d)]
      BY <1>1
    <3>2. manifest \in Manifests
      BY <1>2 DEF TypeOK
    <3>3. Replacing(manifest.deltas, d) = manifest.deltas \cup {d}
      BY <2>6 DEF Replacing
    <3>4. manifest.deltas \cup {d} \subseteq Replacing(deltas, d)
      BY <2>2, <2>6 DEF Replacing
    <3> QED BY <1>1, <3>1, <3>2, <3>3, <3>4 DEF Manifests
  <2>8. DeltasOk(Last, o, H, manifest.deltas \cup {d})
    <3>1. EntriesOk(H, pending, d.first - 1, Last)
      <4>1. \A i \in DOMAIN pending : d.first <= pending[i].lsn
        <5>1. \A i \in DOMAIN pending : i = 1 \/ 1 < i
          BY <2>4
        <5>2. \A i \in DOMAIN pending : 1 < i => pending[1].lsn < pending[i].lsn
          BY <2>2, <2>4 DEF EntriesOk
        <5> QED BY <2>3, <2>4, <5>1, <5>2
      <4> QED BY <2>2, <2>3, <2>4, <4>1 DEF EntriesOk
    <3>2. o < d.first /\ d.first <= d.checkpoint /\ d.checkpoint <= Last
      BY <2>2, <2>3, <2>4 DEF EntriesOk
    <3>3. \A x \in manifest.deltas : x = d \/ x.checkpoint < d.first \/ d.checkpoint < x.first
      BY <2>5
    <3> HIDE DEF d
    <3> QED BY <2>2, <2>3, <3>1, <3>2, <3>3 DEF DeltasOk
  <2>9. \A i \in (o + 1) .. Last : H[i] # EmptyBatch =>
           InDeltas(manifest.deltas \cup {d}, i)
    BY <2>2, <2>3 DEF InDeltas
  <2> HIDE DEF d
  <2>10. FilesHold(o, H, S)'
    <3>1. LoadedSnapshot' = LoadedSnapshot
      BY <1>1, LoadedUnchanged
    <3>2. published.deltas \subseteq deltas'
      BY <2>2, <2>7
    <3>3. OnDisk(o, H)'
      BY <1>1, <1>2, <2>1, <3>2 DEF FilesHold, OnDisk
    <3> QED BY <1>1, <1>2, <2>1, <3>1, <3>3 DEF FilesHold, Logged, Based
  <2>11. InMemory(o, H)'
    <3>1. /\ graph' = committed' /\ manifest'.snapshot = published'.snapshot
          /\ published'.deltas \subseteq manifest'.deltas
          /\ manifest'.deltas \subseteq deltas'
          /\ DeltasOk(Last', o, H, manifest'.deltas)
          /\ next_lsn' = Last' + 1 /\ latest_applied_lsn' = Last'
          /\ \A i \in (o + 1) .. Last' : H[i] # EmptyBatch => InDeltas(manifest'.deltas, i)
      BY <1>1, <1>2, <2>2, <2>7, <2>8, <2>9
    <3>2. EntriesOk(H, pending', o, Last') /\ DOMAIN pending' = {}
      BY <1>1, NoEntries
    <3> QED BY <1>1, <3>1, <3>2 DEF InMemory, Replaced
  <2>12. Written'
    BY <1>1 DEF Written
  <2> QED BY <1>2, <1>3, <2>10, <2>11, <2>12, RunningAgain
<1> QED BY <1>4, <1>5

\* Nothing is pending when the manifest is published: its deltas hold all that
\* was logged.
LEMMA DurablePublishManifest ==
    ASSUME DurableInv, TypeInv', PublishManifest
    PROVE  DurableInv'
<1>1. /\ pc = "publish_manifest" /\ pc' = "ready"
      /\ manifest' = [manifest EXCEPT !.last_applied_lsn = latest_applied_lsn]
      /\ \/ /\ published' = manifest'
            /\ exposure' = IF exposure = "at_risk" THEN "none" ELSE exposure
         \/ UNCHANGED << published, exposure >>
      /\ UNCHANGED << wal, segments, deltas, graph, next_lsn,
                      latest_applied_lsn, pending, committed, compactions >>
  BY DEF PublishManifest, Publish
<1>2. /\ TypeOK /\ pc \in Running /\ pc' \in Running /\ Last' = Last /\ Last \in Nat
      /\ LoadedSnapshot' = LoadedSnapshot
  BY <1>1, WalFacts, LoadedUnchanged
     DEF DurableInv, TypeInv, Running, Checkpointing, Last
<1>3. /\ manifest'.last_applied_lsn = latest_applied_lsn
      /\ manifest'.snapshot = manifest.snapshot /\ manifest'.deltas = manifest.deltas
  <2>1. manifest \in Manifests
    BY <1>2 DEF TypeOK
  <2> QED BY <1>1, <2>1 DEF Manifests
<1>4. CASE exposure = "lost"
  <2>1. exposure' = "lost" /\ compactions # 0
    BY <1>1, <1>4 DEF DurableInv, Counted
  <2>2. Counted'
    BY <1>1, <1>2, <2>1 DEF DurableInv, Counted, Compacting, Writing, Down, Opening
  <2> QED BY <2>1, <2>2 DEF DurableInv
<1>5. CASE exposure # "lost"
  <2>1. PICK o \in Nat, H \in Histories, S \in Graphings :
           FilesHold(o, H, S) /\ InMemory(o, H) /\ Written
    BY <1>2, <1>5, RunningFacts
  <2>2. /\ graph = committed /\ latest_applied_lsn = Last
        /\ manifest.snapshot = published.snapshot
        /\ published.deltas \subseteq manifest.deltas
        /\ manifest.deltas \subseteq deltas
        /\ DeltasOk(Last, o, H, manifest.deltas)
        /\ next_lsn = Last + 1 /\ pending = << >>
        /\ \A i \in (o + 1) .. Last : H[i] # EmptyBatch => InDeltas(manifest.deltas, i)
    BY <1>1, <2>1, NoEntries DEF InMemory, Replaced
  <2>3. o <= Last
    BY <2>1 DEF FilesHold, Chain
  <2>4. OnDisk(o, H)'
    <3>1. CASE UNCHANGED << published, exposure >>
      BY <1>1, <1>2, <2>1, <3>1 DEF FilesHold, OnDisk
    <3>2. CASE published' = manifest'
      <4>1. /\ published'.deltas = manifest.deltas
            /\ published'.last_applied_lsn = Last
        BY <1>3, <2>2, <3>2
      <4>2. \A d \in manifest.deltas : d.checkpoint <= Last
        BY <2>2 DEF DeltasOk
      <4>3. \A i \in (o + 1) .. Last : i <= Last
        BY <1>2
      <4> QED BY <1>1, <1>2, <2>2, <2>3, <4>1, <4>2, <4>3 DEF OnDisk
    <3> QED BY <1>1, <3>1, <3>2
  <2>5. published'.snapshot = published.snapshot
    BY <1>1, <1>3, <2>2
  <2>6. FilesHold(o, H, S)'
    BY <1>1, <1>2, <2>1, <2>4, <2>5 DEF FilesHold, Logged, Based
  <2>7. InMemory(o, H)'
    <3>1. /\ graph' = committed' /\ manifest'.snapshot = published'.snapshot
          /\ published'.deltas \subseteq manifest'.deltas
          /\ manifest'.deltas \subseteq deltas'
          /\ DeltasOk(Last', o, H, manifest'.deltas)
          /\ next_lsn' = Last' + 1
          /\ \A i \in (o + 1) .. Last' : H[i] # EmptyBatch => InDeltas(manifest'.deltas, i)
      BY <1>1, <1>2, <1>3, <2>2
    <3>2. EntriesOk(H, pending', o, Last') /\ DOMAIN pending' = {}
      BY <1>1, <2>2, NoEntries
    <3> QED BY <1>1, <3>1, <3>2 DEF InMemory, Replaced
  <2>8. Counted'
    <3>1. compactions = 0 =>
             /\ published'.last_applied_lsn <= Last' /\ exposure' = "none"
             /\ segments = NoSnapshot /\ published'.snapshot = NoSnapshot
      <4>1. compactions = 0 =>
               /\ published.last_applied_lsn <= Last /\ exposure = "none"
               /\ segments = NoSnapshot /\ published.snapshot = NoSnapshot
        BY DEF DurableInv, Counted
      <4>2. published'.last_applied_lsn = Last
               \/ published'.last_applied_lsn = published.last_applied_lsn
        BY <1>1, <1>3, <2>2
      <4>3. exposure = "none" => exposure' = "none"
        BY <1>1
      <4> QED BY <1>2, <2>5, <4>1, <4>2, <4>3
    <3> QED BY <1>1, <3>1 DEF DurableInv, Counted, Compacting, Writing, Down, Opening
  <2>9. Written'
    BY <1>1 DEF Written
  <2> QED BY <1>2, <2>6, <2>7, <2>8, <2>9, RunningAgain
<1> QED BY <1>4, <1>5

-----------------------------------------------------------------------------
(* Compaction                                                              *)

LEMMA SnapshotFacts ==
    ASSUME TypeOK
    PROVE  /\ SnapshotOf(graph).nodes = NodeSnapshot
           /\ SnapshotOf(graph).edges = EdgeSnapshot
           /\ SnapshotOf(graph).vectors = VectorSnapshot
           /\ NodeSnapshot # Absent /\ EdgeSnapshot # Absent
           /\ VectorSnapshot # Absent
<1>1. /\ SnapshotOf(graph).nodes = NodeSnapshot
      /\ SnapshotOf(graph).edges = EdgeSnapshot
      /\ SnapshotOf(graph).vectors = VectorSnapshot
  BY DEF SnapshotOf, NodeSnapshot, EdgeSnapshot, VectorSnapshot
<1> QED BY <1>1, SnapshotTypes, FilesAssumption

\* A compaction that replaces a file keeps what the files hold: a published
\* snapshot has been superseded by then, an unpublished one names live keys.
LEMMA FilesWritten ==
    ASSUME TypeOK, TypeOK', NEW o \in Nat, NEW H \in Histories, NEW S \in Graphings,
           FilesHold(o, H, S), graph = committed,
           published.snapshot # NoSnapshot => compactions > 1,
           UNCHANGED << wal, deltas, published, history >>,
           \/ segments' = [segments EXCEPT !.nodes = NodeSnapshot]
           \/ segments' = [segments EXCEPT !.edges = EdgeSnapshot]
           \/ segments' = [segments EXCEPT !.vectors = VectorSnapshot]
    PROVE  FilesHold(o, H, S)'
<1>1. /\ UNCHANGED << committed, exposure, compactions >> /\ Last' = Last
      /\ compactions \in Nat /\ Last \in Nat
  BY WalFacts DEF history, Last, TypeOK
<1>2. segments \in SnapshotFiles
  BY DEF TypeOK
<1>3. /\ segments'.nodes = segments.nodes \/ segments'.nodes = NodeSnapshot
      /\ segments'.edges = segments.edges \/ segments'.edges = EdgeSnapshot
      /\ segments'.vectors = segments.vectors \/ segments'.vectors = VectorSnapshot
  BY <1>2 DEF SnapshotFiles
<1>4. CASE published.snapshot # NoSnapshot
  <2>1. /\ segments'.nodes # Absent /\ segments'.edges # Absent
        /\ segments'.vectors # Absent
    BY <1>3, <1>4, SnapshotFacts DEF FilesHold, Based
  <2>2. Based(o, H, S)'
    BY <1>1, <1>4, <2>1 DEF FilesHold, Based
  <2> QED BY <1>1, <2>2 DEF FilesHold, Logged, OnDisk
<1>5. CASE published.snapshot = NoSnapshot
  <2>1. /\ o = 0
        /\ \A p \in 0 .. Last : \A k \in Keys : Live(S[p], k) => k \in Named(H, 0, p)
        /\ \A k \in Keys : Live(LoadedSnapshot, k) => k \in Named(H, 0, Last)
    BY <1>5 DEF FilesHold, Based
  <2>2. \A k \in Keys : Live(graph, k) => k \in Named(H, 0, Last)
    <3>1. Last \in 0 .. Last /\ S[Last] = graph
      BY <1>1 DEF FilesHold
    <3> QED BY <2>1, <3>1
  <2>3. (TypeOK =>
           /\ \A n \in NodeIds : Live(LoadedSnapshot, n) <=>
                 segments.nodes # Absent /\ segments.nodes[n] # Absent
           /\ \A e \in EdgeIds :
                 LoadedSnapshot[e] = IF segments.edges = Absent THEN Absent
                                     ELSE segments.edges[e])'
    BY LoadedLive, PTL
  <2>4. ASSUME NEW k \in Keys, Live(LoadedSnapshot', k)
        PROVE  Live(LoadedSnapshot, k) \/ Live(graph, k)
    <3>1. CASE k \in NodeIds
      <4>1. segments'.nodes # Absent /\ segments'.nodes[k] # Absent
        BY <2>3, <2>4, <3>1 DEF Live
      <4> QED BY <1>3, <3>1, <4>1, LoadedLive DEF NodeSnapshot
    <3>2. CASE k \in EdgeIds
      <4>1. segments'.edges # Absent /\ segments'.edges[k] # Absent
        BY <2>3, <2>4, <3>2 DEF Live
      <4> QED BY <1>3, <3>2, <4>1, LoadedLive DEF EdgeSnapshot, Live
    <3> QED BY <3>1, <3>2 DEF Keys
  <2>5. \A k \in Keys : Live(LoadedSnapshot', k) => k \in Named(H, 0, Last)
    BY <2>1, <2>2, <2>4
  <2>6. Based(o, H, S)'
    BY <1>1, <1>5, <2>1, <2>5 DEF Based, Live
  <2> QED BY <1>1, <2>6 DEF FilesHold, Logged, OnDisk
<1> QED BY <1>4, <1>5

LEMMA DurableWriteSegment ==
    ASSUME DurableInv, TypeInv', WriteNodes \/ WriteEdges \/ WriteVectors
    PROVE  DurableInv'
<1>1. /\ pc \in {"write_nodes", "write_edges", "write_vectors"}
      /\ \/ segments' = segments /\ pc' = "ready"
         \/ /\ segments' = [segments EXCEPT !.nodes = NodeSnapshot]
            /\ pc = "write_nodes" /\ pc' = "write_edges"
         \/ /\ segments' = [segments EXCEPT !.edges = EdgeSnapshot]
            /\ pc = "write_edges" /\ pc' = "write_vectors"
         \/ /\ segments' = [segments EXCEPT !.vectors = VectorSnapshot]
            /\ pc = "write_vectors" /\ pc' = "replace_manifest"
      /\ UNCHANGED << wal, deltas, published, graph, next_lsn,
                      latest_applied_lsn, pending, manifest, history >>
  BY DEF WriteNodes, WriteEdges, WriteVectors, WriteSegment
<1>2. /\ pc \in Running /\ pc' \in Running /\ pc \in Writing /\ pc \in Compacting
      /\ pc' \notin Down \cup Opening \cup Replaced
  BY <1>1 DEF Running, Compacting, Writing, Down, Opening, Replaced
<1>3. /\ TypeOK /\ TypeOK' /\ Last' = Last /\ compactions \in Nat
      /\ UNCHANGED << committed, exposure, compactions >>
      /\ compactions > 0
      /\ published.snapshot # NoSnapshot => compactions > 1
  BY <1>1, <1>2 DEF DurableInv, TypeInv, Last, history, Counted, TypeOK
<1>4. Counted'
  BY <1>1, <1>2, <1>3 DEF DurableInv, Counted, Down, Opening
<1>5. CASE exposure = "lost"
  BY <1>3, <1>4, <1>5 DEF DurableInv
<1>6. CASE exposure # "lost"
  <2>1. PICK o \in Nat, H \in Histories, S \in Graphings :
           FilesHold(o, H, S) /\ InMemory(o, H) /\ Written
    BY <1>2, <1>6, RunningFacts
  <2>2. graph = committed /\ latest_applied_lsn = Last
    BY <1>1, <2>1 DEF InMemory, Replaced
  <2>3. FilesHold(o, H, S)'
    <3>1. CASE segments' = segments
      BY <1>1, <2>1, <3>1, FilesUnchanged DEF disk
    <3>2. CASE segments' # segments
      BY <1>1, <1>3, <2>1, <2>2, <3>2, FilesWritten
    <3> QED BY <3>1, <3>2
  <2>4. InMemory(o, H)'
    BY <1>1, <1>2, <1>3, <2>1, <2>2 DEF InMemory, Replaced
  <2>5. Written'
    <3>1. segments \in SnapshotFiles /\ SnapshotOf(graph)' = SnapshotOf(graph)
      BY <1>1, <1>3 DEF TypeOK, SnapshotOf, Live
    <3>2. CASE pc' = "ready"
      BY <3>2 DEF Written
    <3>3. CASE pc' = "write_edges"
      <4>1. segments'.nodes = SnapshotOf(graph').nodes
        BY <1>1, <1>3, <3>1, <3>3, SnapshotFacts DEF SnapshotFiles
      <4> QED BY <3>3, <4>1 DEF Written
    <3>4. CASE pc' = "write_vectors"
      <4>1. /\ segments'.nodes = SnapshotOf(graph').nodes
            /\ segments'.edges = SnapshotOf(graph').edges
        BY <1>1, <1>3, <2>1, <3>1, <3>4, SnapshotFacts DEF SnapshotFiles, Written
      <4> QED BY <3>4, <4>1 DEF Written
    <3>5. CASE pc' = "replace_manifest"
      <4>1. /\ segments'.nodes = SnapshotOf(graph').nodes
            /\ segments'.edges = SnapshotOf(graph').edges
            /\ segments'.vectors = SnapshotOf(graph').vectors
        BY <1>1, <1>3, <2>1, <3>1, <3>5, SnapshotFacts DEF SnapshotFiles, Written
      <4> QED BY <3>5, <4>1 DEF Written
    <3> QED BY <1>1, <3>2, <3>3, <3>4, <3>5
  <2> QED BY <1>2, <1>4, <2>3, <2>4, <2>5, RunningAgain
<1> QED BY <1>5, <1>6

\* The snapshot of the graph is published: the history starts again from it.
LEMMA DurableReplaceManifest ==
    ASSUME Tolerated, DurableInv, TypeInv', ReplaceManifest
    PROVE  DurableInv'
<1>1. /\ pc = "replace_manifest" /\ pc \in Compacting /\ pc \in Running
  BY DEF ReplaceManifest, Compacting, Running
<1>2. "manifest_write" \notin Faults
  <2>1. compactions > 0 /\ compactions <= MaxCompactions /\ compactions \in Nat
    BY <1>1 DEF DurableInv, Counted, TypeInv, TypeOK
  <2> QED BY <2>1, StorageAssumption DEF Tolerated
<1>3. /\ pc' = "remove_deltas"
      /\ manifest' = [last_applied_lsn |-> latest_applied_lsn,
                      snapshot |-> segments, deltas |-> {}]
      /\ published' = manifest'
      /\ exposure' = IF exposure = "at_risk" THEN "none" ELSE exposure
      /\ UNCHANGED << wal, segments, deltas, graph, next_lsn,
                      latest_applied_lsn, pending, committed, compactions >>
  BY <1>2 DEF ReplaceManifest, Publish
<1>4. /\ published'.last_applied_lsn = latest_applied_lsn
      /\ published'.snapshot = segments /\ published'.deltas = {}
      /\ manifest'.snapshot = segments /\ manifest'.deltas = {}
  BY <1>3
<1>5. /\ TypeOK /\ TypeOK' /\ Last' = Last /\ Last \in Nat /\ pc' \in Running
      /\ pc' \notin Down \cup Opening /\ pc' \in Compacting /\ pc' \notin Writing
      /\ compactions > 0 /\ compactions \in Nat
  BY <1>1, <1>3, WalFacts
     DEF DurableInv, TypeInv, Last, Running, Compacting, Down, Opening, Writing,
         Counted, TypeOK
<1>6. Counted'
  BY <1>3, <1>5 DEF DurableInv, Counted, Down, Opening
<1>7. CASE exposure = "lost"
  BY <1>3, <1>6, <1>7 DEF DurableInv
<1>8. CASE exposure # "lost"
  <2>1. PICK o \in Nat, H \in Histories, S \in Graphings :
           FilesHold(o, H, S) /\ InMemory(o, H) /\ Written
    BY <1>1, <1>8, RunningFacts
  <2>2. PICK n \in Nat : n = Last
    BY <1>5
  <2>3. graph = committed /\ latest_applied_lsn = n /\ S[n] = graph /\ next_lsn = n + 1
    BY <1>1, <2>1, <2>2 DEF InMemory, Replaced, FilesHold
  <2>4. segments = SnapshotOf(S[n])
    <3>1. /\ segments.nodes = SnapshotOf(graph).nodes
          /\ segments.edges = SnapshotOf(graph).edges
          /\ segments.vectors = SnapshotOf(graph).vectors
      BY <1>1, <2>1 DEF Written
    <3>2. segments \in SnapshotFiles
      BY <1>5 DEF TypeOK
    <3> QED BY <2>3, <3>1, <3>2 DEF SnapshotOf, SnapshotFiles
  <2>5. /\ segments.nodes # Absent /\ segments.edges # Absent
        /\ segments.vectors # Absent /\ segments # NoSnapshot
    BY <1>5, <2>3, <2>4, SnapshotFacts DEF NoSnapshot
  <2>6. Based(n, H, S)'
    BY <1>3, <1>4, <2>4, <2>5 DEF Based
  <2>7. Logged(n, H)'
    <3>1. \A i \in DOMAIN wal : ~(n < wal[i].lsn)
      <4>1. \A i \in DOMAIN wal : wal[i].lsn = n - Len(wal) + i
        BY <2>1, <2>2 DEF FilesHold, Logged
      <4> QED BY <1>5, <2>2, <4>1, WalFacts
    <3> QED BY <1>3, <1>5, <2>1, <2>2, <3>1 DEF FilesHold, Logged
  <2>8. DeltasOk(n, n, H, {}) /\ (n + 1) .. n = {}
    BY DEF DeltasOk
  <2>9. OnDisk(n, H)'
    BY <1>4, <1>5, <2>2, <2>3, <2>8 DEF OnDisk
  <2>10. FilesHold(n, H, S)'
    <3>1. Chain(n, n, H, S)
      BY <2>8 DEF Chain
    <3> QED BY <1>3, <1>5, <2>2, <2>3, <2>6, <2>7, <2>9, <3>1 DEF FilesHold
  <2>11. InMemory(n, H)'
    BY <1>3, <1>4, <1>5, <2>2, <2>3, <2>5, <2>8 DEF InMemory, Replaced
  <2>12. Written'
    BY <1>3 DEF Written
  <2> QED BY <1>5, <1>6, <2>10, <2>11, <2>12, RunningAgain
<1> QED BY <1>7, <1>8

LEMMA DurableRemoveDeltas ==
    ASSUME Tolerated, DurableInv, TypeInv', RemoveDeltas
    PROVE  DurableInv'
<1>1. /\ pc = "remove_deltas" /\ pc \in Compacting /\ pc \in Running
      /\ \/ pc' = pc /\ pending' = pending
         \/ pc' = "truncate_wal" /\ pending' = << >>
      /\ UNCHANGED << wal, segments, published, graph, next_lsn,
                      latest_applied_lsn, manifest, committed, exposure,
                      compactions >>
  BY DEF RemoveDeltas, Tolerated, Compacting, Running, history
<1>2. /\ TypeOK /\ Last' = Last /\ Last \in Nat /\ pc' \in Running
      /\ pc' \notin Down \cup Opening /\ pc' \in Replaced /\ pc' \notin Writing
      /\ compactions > 0 /\ compactions \in Nat
      /\ LoadedSnapshot' = LoadedSnapshot
  BY <1>1, WalFacts, LoadedUnchanged
     DEF DurableInv, TypeInv, Last, Running, Compacting, Down, Opening, Writing,
         Counted, TypeOK, Replaced
<1>3. Counted'
  BY <1>1, <1>2 DEF DurableInv, Counted, Down, Opening
<1>4. CASE exposure = "lost"
  BY <1>1, <1>3, <1>4 DEF DurableInv
<1>5. CASE exposure # "lost"
  <2>1. PICK o \in Nat, H \in Histories, S \in Graphings :
           FilesHold(o, H, S) /\ InMemory(o, H) /\ Written
    BY <1>1, <1>5, RunningFacts
  <2>2. /\ graph = committed /\ manifest.snapshot = published.snapshot
        /\ manifest.deltas = {} /\ published.deltas = {}
        /\ o = Last /\ published.snapshot # NoSnapshot /\ next_lsn = Last + 1
        /\ DeltasOk(Last, o, H, manifest.deltas)
    BY <1>1, <2>1 DEF InMemory, Replaced
  <2>3. FilesHold(o, H, S)'
    BY <1>1, <1>2, <2>1, <2>2 DEF FilesHold, Logged, Based, OnDisk
  <2>4. InMemory(o, H)'
    <3>1. (o + 1) .. Last' = {}
      BY <1>2, <2>2
    <3>2. pc' = "truncate_wal" => EntriesOk(H, pending', o, Last')
      BY <1>1, NoEntries
    <3> QED BY <1>1, <1>2, <2>2, <3>1, <3>2 DEF InMemory, Replaced
  <2>5. Written'
    BY <1>1 DEF Written
  <2> QED BY <1>2, <1>3, <2>3, <2>4, <2>5, RunningAgain
<1> QED BY <1>4, <1>5

LEMMA LogSuffix ==
    ASSUME TypeOK, NEW last \in DOMAIN wal, wal' = SubSeq(wal, last + 1, Len(wal))
    PROVE  /\ Len(wal') = Len(wal) - last /\ DOMAIN wal' = 1 .. (Len(wal) - last)
           /\ \A i \in DOMAIN wal' : last + i \in DOMAIN wal /\ wal'[i] = wal[last + i]
           /\ last = Len(wal) => wal' = << >> /\ Last' = 0
           /\ last # Len(wal) => Last' = Last
<1>1. wal \in Seq(Frames) /\ Len(wal) \in Nat /\ DOMAIN wal = 1 .. Len(wal)
      /\ last \in Nat /\ 1 <= last /\ last <= Len(wal)
  BY WalFacts
<1>2. /\ Len(wal') = Len(wal) - last /\ DOMAIN wal' = 1 .. (Len(wal) - last)
      /\ \A i \in 1 .. (Len(wal) - last) : wal'[i] = wal[last + i]
      /\ wal' \in Seq(Frames)
  BY <1>1
<1>3. \A i \in DOMAIN wal' : last + i \in DOMAIN wal
  BY <1>1, <1>2
<1>4. last = Len(wal) => wal' = << >> /\ Last' = 0
  <2>1. last = Len(wal) => Len(wal') = 0
    BY <1>1, <1>2
  <2> QED BY <1>2, <2>1 DEF Last
<1>5. ASSUME last # Len(wal) PROVE Last' = Last
  <2>1. /\ Len(wal') \in Nat \ {0} /\ Len(wal') \in 1 .. (Len(wal) - last)
        /\ last + Len(wal') = Len(wal)
    BY <1>1, <1>2, <1>5
  <2>2. wal' # << >> /\ wal # << >>
    BY <1>1, <1>2, <2>1
  <2>3. wal'[Len(wal')] = wal[Len(wal)]
    BY <1>2, <2>1
  <2> QED BY <2>2, <2>3 DEF Last
<1> QED BY <1>2, <1>3, <1>4, <1>5

\* While the segment files of the log go, the published snapshot has it all;
\* with the last of them the LSNs start again.
LEMMA DurableTruncateWal ==
    ASSUME Tolerated, DurableInv, TypeInv', TruncateWal
    PROVE  DurableInv'
<1>1. /\ pc = "truncate_wal" /\ pc \in Compacting /\ pc \in Running
      /\ \/ /\ \E last \in DOMAIN wal : wal' = SubSeq(wal, last + 1, Len(wal))
            /\ pc' = "truncate_wal" /\ next_lsn' = next_lsn
         \/ /\ wal = << >> /\ next_lsn' = 1 /\ pc' = "ready" /\ wal' = wal
      /\ UNCHANGED << segments, deltas, published, graph, latest_applied_lsn,
                      pending, manifest, committed, exposure, compactions >>
  BY DEF TruncateWal, OldestSegmentEnds, Tolerated, Compacting, Running, history
<1>2. /\ TypeOK /\ Last \in Nat /\ pc' \in Running
      /\ pc' \notin Down \cup Opening /\ pc' \notin Writing
      /\ compactions > 0 /\ compactions \in Nat
      /\ LoadedSnapshot' = LoadedSnapshot
  BY <1>1, WalFacts, LoadedUnchanged
     DEF DurableInv, TypeInv, Running, Compacting, Down, Opening, Writing,
         Counted, TypeOK
<1>3. Counted'
  BY <1>1, <1>2 DEF DurableInv, Counted, Down, Opening
<1>4. CASE exposure = "lost"
  BY <1>1, <1>3, <1>4 DEF DurableInv
<1>5. CASE exposure # "lost"
  <2>1. PICK o \in Nat, H \in Histories, S \in Graphings :
           FilesHold(o, H, S) /\ InMemory(o, H) /\ Written
    BY <1>1, <1>5, RunningFacts
  <2>2. /\ graph = committed /\ manifest.snapshot = published.snapshot
        /\ manifest.deltas = {} /\ published.deltas = {}
        /\ o = Last /\ published.snapshot # NoSnapshot /\ pending = << >>
    BY <1>1, <2>1 DEF InMemory, Replaced
  <2>3. /\ published.snapshot = SnapshotOf(committed)
        /\ segments.nodes # Absent /\ segments.edges # Absent
        /\ segments.vectors # Absent
        /\ compactions <= 1 => segments = published.snapshot
        /\ S[o] = committed
    BY <2>1, <2>2 DEF FilesHold, Based
  <2>4. Written'
    BY <1>1 DEF Written
  <2>5. CASE Last' = Last
    <3>1. FilesHold(o, H, S)'
      <4>1. Logged(o, H)'
        <5>1. CASE wal' = wal
          BY <1>1, <2>1, <2>5, <5>1 DEF FilesHold, Logged
        <5>2. CASE wal' # wal
          <6>1. PICK last \in DOMAIN wal : wal' = SubSeq(wal, last + 1, Len(wal))
            BY <1>1, <5>2
          <6>2. /\ Len(wal') = Len(wal) - last
                /\ DOMAIN wal' = 1 .. (Len(wal) - last)
                /\ \A i \in DOMAIN wal' :
                      last + i \in DOMAIN wal /\ wal'[i] = wal[last + i]
            BY <1>2, <6>1, LogSuffix
          <6>3. /\ Len(wal) <= Last /\ Len(wal) <= MaxFrames
                /\ \A i \in DOMAIN wal :
                      /\ wal[i].lsn = Last - Len(wal) + i
                      /\ \/ wal[i].kind = "checkpoint" /\ wal[i].batch = EmptyBatch
                         \/ wal[i].kind = "write_batch" /\ wal[i].batch # EmptyBatch
                      /\ o < wal[i].lsn => wal[i].batch = H[wal[i].lsn]
            BY <2>1 DEF FilesHold, Logged
          <6>4. Len(wal) \in Nat /\ last \in Nat /\ MaxFrames \in Nat
            BY <1>2, WalFacts, StorageAssumption
          <6>5. Len(wal') <= Last' /\ Len(wal') <= MaxFrames
            BY <1>2, <2>5, <6>2, <6>3, <6>4
          <6>6. \A i \in DOMAIN wal' : Last' - Len(wal') + i = Last - Len(wal) + (last + i)
            BY <1>2, <2>5, <6>2, <6>4
          <6> QED BY <6>2, <6>3, <6>5, <6>6 DEF Logged
        <5> QED BY <5>1, <5>2
      <4>2. OnDisk(o, H)'
        <5>1. (o + 1) .. Last = {}
          BY <1>2, <2>2
        <5> QED BY <1>1, <2>1, <2>5, <5>1 DEF FilesHold, OnDisk
      <4> QED BY <1>1, <1>2, <2>1, <2>5, <4>1, <4>2 DEF FilesHold, Based
    <3>2. InMemory(o, H)'
      <4>1. (o + 1) .. Last' = {} /\ EntriesOk(H, pending, o, Last')
        BY <1>2, <2>2, <2>5, NoEntries
      <4>2. pc' # "truncate_wal" => next_lsn' = Last' + 1
        BY <1>1, <2>5 DEF Last
      <4> QED BY <1>1, <2>1, <2>2, <2>5, <4>1, <4>2 DEF InMemory, Replaced
    <3> QED BY <1>2, <1>3, <2>4, <3>1, <3>2, RunningAgain
  <2>6. CASE Last' # Last
    <3>1. wal' = << >> /\ Last' = 0 /\ pc' = "truncate_wal"
      BY <1>1, <1>2, <2>6, LogSuffix DEF Last
    <3>2. PICK g \in Graphs : g = committed
      BY <1>2 DEF TypeOK
    <3> DEFINE R == [S EXCEPT ![0] = g]
    <3>3. R \in Graphings /\ R[0] = g
      BY <3>2 DEF Graphings
    <3> HIDE DEF R
    <3>4. DeltasOk(0, 0, H, {}) /\ 1 .. 0 = {} /\ DOMAIN wal' = {} /\ Len(wal') = 0
      BY <3>1 DEF DeltasOk
    <3>5. Logged(0, H)'
      BY <3>1, <3>4, StorageAssumption DEF Logged
    <3>6. Based(0, H, R)'
      BY <1>1, <2>2, <2>3, <3>2, <3>3 DEF Based
    <3>7. OnDisk(0, H)'
      <4>1. published.last_applied_lsn \in Nat
        BY <1>2, WalFacts
      <4> QED BY <1>1, <2>2, <3>1, <3>4, <4>1 DEF OnDisk
    <3>8. Chain(0, 0, H, R)
      BY <3>4 DEF Chain
    <3>9. FilesHold(0, H, R)'
      BY <1>1, <3>1, <3>2, <3>3, <3>5, <3>6, <3>7, <3>8 DEF FilesHold
    <3>10. InMemory(0, H)'
      <4>1. EntriesOk(H, pending, 0, 0) /\ DOMAIN pending = {}
        BY <2>2, NoEntries
      <4> QED BY <1>1, <2>2, <3>1, <3>4, <4>1 DEF InMemory, Replaced
    <3> QED BY <1>2, <1>3, <2>4, <3>3, <3>9, <3>10, RunningAgain
  <2> QED BY <2>5, <2>6
<1> QED BY <1>4, <1>5

-----------------------------------------------------------------------------
(* Stopping and opening                                                    *)

\* A process that is not running keeps its files, and what is exposed when it
\* stops is lost.
LEMMA DownAgain ==
    ASSUME DurableInv, TypeInv', UNCHANGED << disk, committed, compactions >>,
           pc' \in Down, pending' = << >>,
           exposure' = IF exposure = "at_risk" THEN "lost" ELSE exposure,
           pc' = "refused" =>
              exposure = "lost" \/ compactions > 1 \/ MaxReplayFrames < MaxFrames
    PROVE  DurableInv'
<1>1. /\ pc' \notin Running \cup Opening \cup Compacting \cup Writing /\ Last' = Last
      /\ exposure \in Exposures
  BY DEF Down, Running, Opening, Checkpointing, Compacting, Writing, disk, Last,
         DurableInv, TypeInv, TypeOK
<1>2. Counted'
  <2>1. exposure' # "at_risk" /\ (exposure = "lost" => exposure' = "lost")
    BY <1>1 DEF Exposures
  <2>2. compactions = 0 => exposure' = "none"
    BY DEF DurableInv, Counted
  <2> QED BY <1>1, <2>1, <2>2 DEF DurableInv, Counted, disk
<1>3. ASSUME exposure' # "lost" PROVE DurableHistory'
  <2>1. exposure' = exposure /\ exposure # "lost"
    BY <1>3
  <2>2. PICK o \in Nat, H \in Histories, S \in Graphings : Durable(o, H, S)
    BY <2>1 DEF DurableInv, DurableHistory
  <2>3. FilesHold(o, H, S)'
    BY <2>1, <2>2, FilesUnchanged DEF Durable, history
  <2>4. Durable(o, H, S)'
    BY <1>1, <2>3 DEF Durable
  <2> QED BY <2>4 DEF DurableHistory
<1> QED BY <1>2, <1>3 DEF DurableInv

LEMMA DurableCrash ==
    ASSUME Tolerated, DurableInv, TypeInv', Crash
    PROVE  DurableInv'
<1>1. /\ UNCHANGED << disk, committed, compactions >> /\ pc' = "down"
      /\ pending' = << >>
      /\ exposure' = IF exposure = "at_risk" THEN "lost" ELSE exposure
  BY DEF Crash, Tolerated, disk
<1> QED BY <1>1, DownAgain DEF Down

LEMMA DurableRefuse ==
    ASSUME DurableInv, TypeInv', Refuse, UNCHANGED << disk, history >>,
           pc \in Down \cup Opening,
           exposure = "lost" \/ compactions > 1 \/ MaxReplayFrames < MaxFrames
    PROVE  DurableInv'
<1>1. /\ UNCHANGED << disk, committed, compactions, exposure >> /\ pc' = "refused"
      /\ pending' = << >> /\ exposure # "at_risk"
  BY DEF Refuse, history, DurableInv, Counted
<1> QED BY <1>1, DownAgain DEF Down

\* An opening after a step that does not refuse the files.
LEMMA OpeningAgain ==
    ASSUME DurableInv, TypeInv', UNCHANGED << disk, history >>,
           pc \in Down \cup Opening, pc' \in Opening,
           \A o \in Nat, H \in Histories, S \in Graphings :
              exposure = "none" /\ Durable(o, H, S) => Recovering(o, H, S)'
    PROVE  DurableInv'
<1>1. /\ UNCHANGED << wal, segments, published, exposure, compactions >>
      /\ pc' \notin Running \cup Down \cup Compacting \cup Writing /\ Last' = Last
      /\ exposure # "at_risk" /\ exposure \in Exposures
  BY DEF Down, Running, Opening, Checkpointing, Compacting, Writing, disk, history,
         Last, DurableInv, TypeInv, TypeOK, Counted
<1>2. Counted'
  BY <1>1 DEF DurableInv, Counted, Down
<1>3. ASSUME exposure' # "lost" PROVE DurableHistory'
  <2>1. exposure = "none" /\ exposure # "lost"
    BY <1>1, <1>3 DEF Exposures
  <2>2. PICK o \in Nat, H \in Histories, S \in Graphings : Durable(o, H, S)
    BY <2>1 DEF DurableInv, DurableHistory
  <2>3. FilesHold(o, H, S)'
    BY <2>2, FilesUnchanged DEF Durable
  <2>4. Durable(o, H, S)'
    BY <1>1, <2>1, <2>2, <2>3 DEF Durable
  <2> QED BY <2>4 DEF DurableHistory
<1> QED BY <1>2, <1>3 DEF DurableInv

\* In a log without torn frames every frame is read.
LEMMA AllReadable ==
    ASSUME TypeOK, NEW o \in Nat, NEW H \in Histories, Logged(o, H)
    PROVE  /\ ~Undecodable /\ \A i \in DOMAIN wal : Readable(i)
           /\ ReopenedLsn = Last + 1
<1>1. \A i \in DOMAIN wal : wal[i].kind \notin Torn /\ wal[i].kind # "torn_corrupts"
  BY DEF Logged, Torn
<1>2. \A i \in DOMAIN wal : Readable(i)
  BY <1>1 DEF Readable, BehindTorn
<1>3. ~Undecodable
  BY <1>1 DEF Undecodable
<1>4. ReopenedLsn = Last + 1
  <2> DEFINE readable == {i \in DOMAIN wal : Readable(i)}
             m == CHOOSE i \in readable : \A j \in readable : j <= i
  <2>1. readable = DOMAIN wal
    BY <1>2
  <2>2. CASE wal = << >>
    <3>1. DOMAIN wal = {}
      BY <2>2
    <3> QED BY <2>1, <2>2, <3>1 DEF ReopenedLsn, Last
  <2>3. CASE wal # << >>
    <3>1. /\ Len(wal) \in DOMAIN wal /\ DOMAIN wal = 1 .. Len(wal) /\ Len(wal) \in Nat
      BY <2>3, WalFacts
    <3>2. \A j \in readable : j <= Len(wal)
      BY <2>1, <3>1
    <3>3. m \in readable /\ \A j \in readable : j <= m
      BY <2>1, <3>1, <3>2
    <3>4. m = Len(wal)
      <4> HIDE DEF m, readable
      <4> QED BY <2>1, <3>1, <3>2, <3>3
    <3>5. readable # {}
      BY <2>1, <3>1
    <3>6. ReopenedLsn = wal[m].lsn + 1
      <4>1. ReopenedLsn = IF readable = {} THEN 1 ELSE wal[m].lsn + 1
        BY DEF ReopenedLsn
      <4> HIDE DEF m, readable
      <4> QED BY <3>5, <4>1
    <3> HIDE DEF m
    <3> QED BY <2>3, <3>4, <3>6 DEF Last
  <2> QED BY <2>2, <2>3
<1> QED BY <1>2, <1>3, <1>4

LEMMA DurableOpen ==
    ASSUME DurableInv, TypeInv', Open
    PROVE  DurableInv'
<1>1. /\ pc \in Down /\ UNCHANGED << disk, history >> /\ TypeOK
      /\ pending = << >> /\ exposure # "at_risk" /\ exposure \in Exposures
  BY DEF Open, DurableInv, Counted, TypeInv, TypeOK
<1>2. CASE ReplayFails /\ Refuse
  <2>1. ASSUME exposure # "lost" PROVE MaxReplayFrames < MaxFrames
    <3>1. PICK o \in Nat, H \in Histories, S \in Graphings : Durable(o, H, S)
      BY <2>1 DEF DurableInv, DurableHistory
    <3>2. Logged(o, H)
      BY <3>1 DEF Durable, FilesHold
    <3>3. ~Undecodable
      BY <1>1, <3>2, AllReadable
    <3>4. Len(wal) > MaxReplayFrames /\ Len(wal) <= MaxFrames /\ Len(wal) \in Nat
      BY <1>1, <1>2, <3>2, <3>3, WalFacts DEF ReplayFails, Logged
    <3> QED BY <3>4, StorageAssumption
  <2> QED BY <1>1, <1>2, <2>1, DurableRefuse
<1>3. CASE ~(ReplayFails /\ Refuse)
  <2>1. /\ pc' = "load_segments" /\ manifest' = published
        /\ next_lsn' = ReopenedLsn /\ pending' = pending
    BY <1>3 DEF Open
  <2>2. ASSUME NEW o \in Nat, NEW H \in Histories, NEW S \in Graphings,
               Durable(o, H, S)
        PROVE  Recovering(o, H, S)'
    <3>1. ReopenedLsn = Last + 1
      BY <1>1, <2>2, AllReadable DEF Durable, FilesHold
    <3>2. Last' = Last /\ published' = published
      BY <1>1 DEF Last, disk
    <3> QED BY <1>1, <2>1, <3>1, <3>2 DEF Recovering
  <2> QED BY <1>1, <2>1, <2>2, OpeningAgain DEF Opening
<1> QED BY <1>2, <1>3

\* The snapshot files of a graph load as that graph.
LEMMA LoadedOf ==
    ASSUME TypeOK, NEW g \in Graphs, segments = SnapshotOf(g)
    PROVE  LoadedSnapshot = g
<1>1. /\ segments.nodes = [n \in NodeIds |-> IF Live(g, n) THEN g[n].body ELSE Absent]
      /\ segments.edges = [e \in EdgeIds |-> g[e]]
      /\ segments.vectors =
            [n \in NodeIds |-> IF Live(g, n) THEN g[n].vectors ELSE Absent]
  BY DEF SnapshotOf
<1>2. \A n \in NodeIds : g[n] \in NodeRecords \cup {Absent}
  BY DEF Graphs
<1>3. \A n \in NodeIds : Live(g, n) =>
         /\ g[n].body \in Bodies /\ g[n].vectors \in Vectors
         /\ g[n] = [body |-> g[n].body, vectors |-> g[n].vectors]
  BY <1>2 DEF Live, NodeRecords
<1>4. \A e \in EdgeIds : g[e] \in EdgeRecords \cup {Absent}
  BY DEF Graphs
<1>5. /\ segments.nodes # Absent /\ segments.edges # Absent
      /\ segments.vectors # Absent
  <2>1. segments.nodes \in NodeSegments
    BY <1>1, <1>3 DEF NodeSegments
  <2>2. segments.edges \in EdgeSegments
    BY <1>1, <1>4 DEF EdgeSegments
  <2>3. segments.vectors \in VectorSegments
    BY <1>1, <1>3 DEF VectorSegments
  <2> QED BY <2>1, <2>2, <2>3, FilesAssumption
<1>6. ASSUME NEW n \in NodeIds PROVE LoadedNode(n) = g[n]
  <2>1. CASE Live(g, n)
    <3>1. /\ segments.nodes[n] = g[n].body /\ segments.vectors[n] = g[n].vectors
      BY <1>1, <2>1
    <3>2. g[n].body # Absent /\ g[n].vectors # Absent
      BY <1>3, <2>1, GraphAssumption
    <3> QED BY <1>3, <1>5, <2>1, <3>1, <3>2 DEF LoadedNode
  <2>2. CASE ~Live(g, n)
    <3>1. segments.nodes[n] = Absent
      BY <1>1, <2>2
    <3> QED BY <2>2, <3>1 DEF LoadedNode, Live
  <2> QED BY <2>1, <2>2
<1>7. \A e \in EdgeIds : LoadedEdge(e) = g[e]
  BY <1>1, <1>5 DEF LoadedEdge
<1>8. \A k \in Keys : LoadedSnapshot[k] = g[k]
  BY <1>6, <1>7 DEF LoadedSnapshot, Keys
<1>9. LoadedSnapshot = [k \in Keys |-> LoadedSnapshot[k]] /\ g = [k \in Keys |-> g[k]]
  BY DEF LoadedSnapshot, Graphs
<1> QED BY <1>8, <1>9

\* Files that pass verification are those of the published snapshot, or were
\* never published; after one compaction they always pass.
LEMMA DurableLoadSegments ==
    ASSUME DurableInv, TypeInv', LoadSegments
    PROVE  DurableInv'
<1> DEFINE verified ==
              /\ Verified(segments.nodes, manifest.snapshot.nodes)
              /\ Verified(segments.edges, manifest.snapshot.edges)
              /\ Verified(segments.vectors, manifest.snapshot.vectors)
<1>1. /\ pc = "load_segments" /\ UNCHANGED << disk, history >> /\ TypeOK
      /\ exposure # "at_risk" /\ exposure \in Exposures /\ pc \in Opening
      /\ compactions \in Nat
  BY DEF LoadSegments, DurableInv, Counted, TypeInv, TypeOK, Opening
<1>2. CASE ~verified /\ Refuse
  <2>1. ASSUME exposure # "lost", compactions <= 1 PROVE FALSE
    <3>1. PICK o \in Nat, H \in Histories, S \in Graphings : Durable(o, H, S)
      BY <2>1 DEF DurableInv, DurableHistory
    <3>2. manifest = published /\ Based(o, H, S)
      BY <1>1, <3>1 DEF Durable, Recovering, FilesHold
    <3>3. published.snapshot = NoSnapshot \/ segments = published.snapshot
      BY <2>1, <3>2 DEF Based
    <3> QED BY <1>2, <3>2, <3>3 DEF Verified, NoSnapshot
  <2>2. exposure = "lost" \/ compactions > 1
    BY <1>1, <2>1
  <2> QED BY <1>1, <1>2, <2>2, DurableRefuse
<1>3. CASE ~(~verified /\ Refuse)
  <2>1. /\ verified /\ graph' = LoadedSnapshot /\ pc' = "load_deltas"
        /\ cursor' = [NoCursor EXCEPT !.deltas = manifest.deltas]
        /\ UNCHANGED << next_lsn, pending, manifest >>
    BY <1>3 DEF LoadSegments
  <2>2. cursor'.deltas = manifest.deltas /\ cursor'.entries = << >> /\ cursor'.frame = 1
    BY <2>1 DEF NoCursor
  <2>3. ASSUME NEW o \in Nat, NEW H \in Histories, NEW S \in Graphings,
               exposure = "none", Durable(o, H, S)
        PROVE  Recovering(o, H, S)'
    <3>1. /\ manifest = published /\ next_lsn = Last + 1 /\ pending = << >>
          /\ FilesHold(o, H, S) /\ Based(o, H, S) /\ OnDisk(o, H)
      BY <1>1, <2>3 DEF Durable, Recovering, FilesHold
    <3>2. /\ Last' = Last /\ UNCHANGED << published, segments, wal >>
          /\ Last \in Nat /\ published.last_applied_lsn \in Nat /\ o <= Last
          /\ o \in o .. Last
      BY <1>1, <3>1, WalFacts DEF Last, disk, FilesHold, Chain
    <3>3. Matches(o, H, S, o)'
      <4>1. CASE published.snapshot = NoSnapshot
        <5>1. Named(H, o, o) = {}
          BY DEF Named
        <5>2. o = 0 /\ \A k \in Keys : Live(LoadedSnapshot, k) => k \in Named(H, 0, Last)
          BY <3>1, <4>1 DEF Based
        <5> QED BY <2>1, <3>2, <4>1, <5>1, <5>2 DEF Matches, Known, Live
      <4>2. CASE published.snapshot # NoSnapshot
        <5>1. /\ published.snapshot = SnapshotOf(S[o]) /\ segments.nodes # Absent
              /\ segments.edges # Absent /\ segments.vectors # Absent
          BY <3>1, <4>2 DEF Based
        <5>2. S[o] \in Graphs
          BY HistoryTypes
        <5>3. /\ SnapshotOf(S[o]).nodes # Absent /\ SnapshotOf(S[o]).edges # Absent
              /\ SnapshotOf(S[o]).vectors # Absent
          <6>1. /\ SnapshotOf(S[o]).nodes \in NodeSegments
                /\ SnapshotOf(S[o]).edges \in EdgeSegments
                /\ SnapshotOf(S[o]).vectors \in VectorSegments
            BY <5>2 DEF SnapshotOf, NodeSegments, EdgeSegments, VectorSegments,
                        Graphs, Live, NodeRecords
          <6> QED BY <6>1, FilesAssumption
        <5>4. segments = SnapshotOf(S[o])
          <6>1. /\ segments.nodes = SnapshotOf(S[o]).nodes
                /\ segments.edges = SnapshotOf(S[o]).edges
                /\ segments.vectors = SnapshotOf(S[o]).vectors
            BY <2>1, <3>1, <5>1, <5>3 DEF Verified
          <6>2. segments \in SnapshotFiles
            BY <1>1 DEF TypeOK
          <6> QED BY <6>1, <6>2 DEF SnapshotOf, SnapshotFiles
        <5>5. LoadedSnapshot = S[o]
          BY <1>1, <5>2, <5>4, LoadedOf
        <5> QED BY <2>1, <3>2, <4>2, <5>5 DEF Matches, Known
      <4> QED BY <4>1, <4>2
    <3>4. LoadingDeltas(H, o)'
      <4>1. /\ o <= published.last_applied_lsn
            /\ \A d \in published.deltas : o < d.first
            /\ \A i \in (o + 1) .. Last :
                  H[i] # EmptyBatch /\ i <= published.last_applied_lsn =>
                     InDeltas(published.deltas, i)
        BY <2>3, <3>1 DEF OnDisk, DeltasOk
      <4>2. EntriesOk(H, << >>, o, published.last_applied_lsn) /\ DOMAIN << >> = {}
        BY NoEntries
      <4> QED BY <2>1, <2>2, <3>1, <3>2, <4>1, <4>2 DEF LoadingDeltas
    <3> QED BY <2>1, <3>1, <3>2, <3>3, <3>4 DEF Recovering
  <2> QED BY <1>1, <2>1, <2>3, OpeningAgain DEF Opening
<1> QED BY <1>2, <1>3

\* A graph that matches the history at LSN p takes the next batch of the
\* history, and matches it again behind that batch.
LEMMA MatchesApply ==
    ASSUME TypeOK, NEW o \in Nat, NEW H \in Histories, NEW S \in Graphings,
           FilesHold(o, H, S), NEW p \in o .. Last, Matches(o, H, S, p),
           NEW q \in (p + 1) .. Last,
           \A i \in (p + 1) .. (q - 1) : H[i] = EmptyBatch
    PROVE  /\ validate_batch_against_maps(graph, H[q])
           /\ \A k \in Known(o, H, q) :
                 apply_batch_to_maps_unchecked(graph, H[q])[k] = S[q][k]
           /\ \A k \in Keys :
                 Live(apply_batch_to_maps_unchecked(graph, H[q]), k) =>
                    k \in Known(o, H, Last)
<1>1. Last \in Nat /\ graph \in Graphs
  BY WalFacts DEF TypeOK
<1>2. PICK n \in Nat : n = Last
  BY <1>1
<1>3. /\ p \in o .. n /\ q \in (p + 1) .. n /\ Chain(n, o, H, S) /\ p \in Nat
      /\ q \in Nat /\ q - 1 \in Nat /\ q - 1 \in p .. n /\ q \in (o + 1) .. n
      /\ Based(o, H, S)
  BY <1>2 DEF FilesHold
<1>4. H[q] \in WriteBatches /\ S[p] \in Graphs
  BY <1>3, HistoryTypes
<1>5. S[q - 1] = S[p]
  BY <1>3, Gap
<1>6. /\ validate_batch_against_maps(S[p], H[q])
      /\ S[q] = apply_batch_to_maps_unchecked(S[p], H[q])
  BY <1>3, <1>5 DEF Chain
<1>7. /\ \A k \in Known(o, H, p) : graph[k] = S[p][k]
      /\ \A k \in Keys : Live(graph, k) => k \in Known(o, H, Last)
  BY DEF Matches
<1>8. \A k \in Keys : Live(S[p], k) => k \in Known(o, H, p)
  <2>1. p \in 0 .. Last
    BY <1>2, <1>3
  <2> QED BY <1>3, <2>1 DEF Based, Known
<1>9. \A k \in Known(o, H, q) :
         k \in Keys /\ (k \in Known(o, H, p) \/ k \in BatchKeys(H[q]))
  <2>1. BatchKeys(EmptyBatch) = {}
    BY EmptyGraphFacts, EmptyBatchApplied
  <2>2. \A i \in (o + 1) .. q :
           i \in (o + 1) .. p \/ i \in (p + 1) .. (q - 1) \/ i = q
    BY <1>3
  <2> QED BY <2>1, <2>2 DEF Known, Named
<1>10. \A k \in Keys : k \in BatchKeys(H[q]) => k \in Known(o, H, Last)
  BY <1>2, <1>3 DEF Known, Named
<1>11. validate_batch_against_maps(graph, H[q])
  BY <1>1, <1>4, <1>6, <1>7, <1>8, ValidAgrees
<1>12. \A k \in Keys : k \in Known(o, H, p) \/ k \in BatchKeys(H[q]) =>
          apply_batch_to_maps_unchecked(graph, H[q])[k]
             = apply_batch_to_maps_unchecked(S[p], H[q])[k]
  BY <1>1, <1>4, <1>7, ApplyAgrees
<1>13. \A k \in Keys : Live(apply_batch_to_maps_unchecked(graph, H[q]), k) =>
          k \in Known(o, H, Last)
  BY <1>1, <1>4, <1>7, <1>10, ApplyNamed
<1> QED BY <1>6, <1>9, <1>11, <1>12, <1>13

\* A graph that matches the history at an LSN behind which there are only
\* markers is the graph of the acknowledged batches.
LEMMA MatchesEnd ==
    ASSUME TypeOK, NEW o \in Nat, NEW H \in Histories, NEW S \in Graphings,
           FilesHold(o, H, S), NEW p \in o .. Last, Matches(o, H, S, p),
           \A i \in (p + 1) .. Last : H[i] = EmptyBatch
    PROVE  graph = committed
<1>1. Last \in Nat /\ graph \in Graphs /\ committed \in Graphs
  BY WalFacts DEF TypeOK
<1>2. PICK n \in Nat : n = Last
  BY <1>1
<1>3. /\ p \in o .. n /\ n \in p .. n /\ Chain(n, o, H, S) /\ p \in Nat /\ p <= n
      /\ S[n] = committed /\ Based(o, H, S) /\ n \in 0 .. n
  BY <1>2 DEF FilesHold
<1>4. S[n] = S[p] /\ Named(H, o, n) = Named(H, o, p)
  BY <1>2, <1>3, Gap, GapNamed
<1>5. /\ \A k \in Known(o, H, n) : graph[k] = committed[k]
      /\ \A k \in Keys : Live(graph, k) => k \in Known(o, H, n)
  BY <1>2, <1>3, <1>4 DEF Matches, Known
<1>6. \A k \in Keys : Live(committed, k) => k \in Known(o, H, n)
  BY <1>2, <1>3 DEF Based, Known
<1>7. \A k \in Keys : graph[k] = committed[k]
  BY <1>5, <1>6 DEF Live
<1>8. graph = [k \in Keys |-> graph[k]] /\ committed = [k \in Keys |-> committed[k]]
  BY <1>1 DEF Graphs
<1> QED BY <1>7, <1>8

-----------------------------------------------------------------------------
(* Loading the deltas                                                      *)

LEMMA TailFacts ==
    ASSUME NEW s \in Seq(Entries), s # << >>
    PROVE  /\ Head(s) = s[1] /\ 1 \in DOMAIN s
           /\ \A j \in DOMAIN Tail(s) : j + 1 \in DOMAIN s /\ Tail(s)[j] = s[j + 1]
           /\ \A j \in DOMAIN s : j # 1 => j - 1 \in DOMAIN Tail(s)
           /\ \A j \in DOMAIN s : j # 1 => s[j] = Tail(s)[j - 1]
OBVIOUS

\* The next entry is the next batch of the history.
LEMMA NextEntry ==
    ASSUME TypeOK, NEW o \in Nat, NEW H \in Histories, OnDisk(o, H),
           NEW p \in o .. Last, LoadingDeltas(H, p), cursor.entries # << >>
    PROVE  LET q == Head(cursor.entries).lsn
           IN  /\ q \in (p + 1) .. Last /\ Head(cursor.entries).batch = H[q]
               /\ q <= published.last_applied_lsn
               /\ \A i \in (p + 1) .. (q - 1) : H[i] = EmptyBatch
<1> DEFINE s == cursor.entries
           q == Head(s).lsn
<1>1. /\ s \in Seq(Entries) /\ cursor.deltas \in SUBSET Deltas /\ Last \in Nat
      /\ published.last_applied_lsn \in Nat /\ p \in Nat
      /\ \A d \in Deltas : d.first \in Nat /\ d.checkpoint \in Nat
                           /\ d.entries \in Seq(Entries)
  BY DeltaFacts, WalFacts
<1>2. /\ Head(s) = s[1] /\ 1 \in DOMAIN s
  BY <1>1, TailFacts
<1>3. \A j \in DOMAIN s : s[j].lsn \in Nat /\ j \in Nat /\ (j # 1 => 1 < j)
  BY <1>1, EntryFacts
<1>4. /\ EntriesOk(H, s, p, published.last_applied_lsn)
      /\ \A j \in DOMAIN s : s[j].lsn <= Last
      /\ cursor.deltas \subseteq published.deltas
      /\ \A d \in cursor.deltas : \A j \in DOMAIN s : s[j].lsn < d.first
      /\ \A i \in (p + 1) .. Last :
            H[i] # EmptyBatch /\ i <= published.last_applied_lsn =>
               InEntries(s, i) \/ InDeltas(cursor.deltas, i)
  BY DEF LoadingDeltas
<1>5. /\ q \in Nat /\ p < q /\ q <= published.last_applied_lsn /\ q <= Last
      /\ Head(s).batch = H[q]
  BY <1>2, <1>3, <1>4 DEF EntriesOk
<1> HIDE DEF s
<1>6. ASSUME NEW i \in (p + 1) .. (q - 1), H[i] # EmptyBatch PROVE FALSE
  <2>1. i \in (p + 1) .. Last /\ i <= published.last_applied_lsn /\ i < q /\ i \in Nat
    BY <1>1, <1>5
  <2>2. ASSUME InEntries(s, i) PROVE FALSE
    <3>1. PICK j \in DOMAIN s : s[j].lsn = i
      BY <2>2 DEF InEntries
    <3>2. j # 1 => s[1].lsn < s[j].lsn
      BY <1>2, <1>3, <1>4 DEF EntriesOk
    <3> QED BY <1>2, <1>5, <2>1, <3>1, <3>2
  <2>3. ASSUME InDeltas(cursor.deltas, i) PROVE FALSE
    <3>1. PICK d \in cursor.deltas : InEntries(d.entries, i)
      BY <2>3 DEF InDeltas
    <3>2. PICK j \in DOMAIN d.entries : d.entries[j].lsn = i
      BY <3>1 DEF InEntries
    <3>3. EntriesOk(H, d.entries, d.first - 1, d.checkpoint)
      BY <1>4 DEF OnDisk, DeltasOk
    <3>4. d.first - 1 < i
      BY <3>2, <3>3 DEF EntriesOk
    <3>5. q < d.first /\ d.first \in Nat
      BY <1>1, <1>2, <1>4
    <3> QED BY <1>5, <2>1, <3>4, <3>5
  <2> QED BY <1>4, <1>6, <2>1, <2>2, <2>3
<1> QED BY <1>1, <1>5, <1>6 DEF s

\* Once it is applied the rest of the entries is behind it.
LEMMA EntryLoaded ==
    ASSUME TypeOK, NEW o \in Nat, NEW H \in Histories, OnDisk(o, H),
           NEW p \in o .. Last, LoadingDeltas(H, p), cursor.entries # << >>,
           cursor' = [cursor EXCEPT !.entries = Tail(@)],
           UNCHANGED << pending, disk >>,
           NEW q \in Nat, q = Head(cursor.entries).lsn
    PROVE  LoadingDeltas(H, q)'
<1> DEFINE s == cursor.entries
           t == Tail(s)
<1>1. q = Head(s).lsn
  OBVIOUS
<1>2. /\ q \in (p + 1) .. Last /\ q <= published.last_applied_lsn
  BY <1>1, NextEntry
<1>3. /\ s \in Seq(Entries) /\ Last \in Nat /\ published.last_applied_lsn \in Nat
      /\ p \in Nat /\ q \in Nat
  BY <1>2, DeltaFacts, WalFacts
<1>4. /\ s[1].lsn = q /\ 1 \in DOMAIN s
      /\ \A j \in DOMAIN t : j + 1 \in DOMAIN s /\ t[j] = s[j + 1]
      /\ \A j \in DOMAIN s : j # 1 => j - 1 \in DOMAIN t /\ s[j] = t[j - 1]
  BY <1>1, <1>3, TailFacts
<1>5. /\ cursor'.deltas = cursor.deltas /\ cursor'.entries = t
      /\ cursor'.frame = cursor.frame /\ Last' = Last
      /\ UNCHANGED << published, pending >>
  BY DEF TypeOK, Cursors, disk, Last
<1>6. \A j \in DOMAIN s : s[j].lsn \in Nat /\ j \in Nat
  BY <1>3, EntryFacts
<1>7. \A j \in DOMAIN t : j \in Nat /\ 1 < j + 1
  <2>1. t \in Seq(Entries)
    BY <1>3
  <2> HIDE DEF t
  <2> QED BY <2>1, EntryFacts
<1> HIDE DEF s, t
<1>8. /\ EntriesOk(H, s, p, published.last_applied_lsn)
      /\ \A j \in DOMAIN s : s[j].lsn <= Last
      /\ pending = << >> /\ cursor.frame = 1
      /\ cursor.deltas \subseteq published.deltas
      /\ \A d \in cursor.deltas : \A j \in DOMAIN s : s[j].lsn < d.first
      /\ \A i \in (p + 1) .. Last :
            H[i] # EmptyBatch /\ i <= published.last_applied_lsn =>
               InEntries(s, i) \/ InDeltas(cursor.deltas, i)
  BY DEF LoadingDeltas, s
<1>9. EntriesOk(H, t, q, published.last_applied_lsn)
  <2>1. ASSUME NEW j \in DOMAIN t
        PROVE  q < t[j].lsn /\ t[j].lsn <= published.last_applied_lsn
               /\ t[j].batch = H[t[j].lsn]
    BY <1>4, <1>7, <1>8 DEF EntriesOk
  <2>2. ASSUME NEW i \in DOMAIN t, NEW j \in DOMAIN t, i < j
        PROVE  t[i].lsn < t[j].lsn
    <3>1. i + 1 < j + 1
      BY <1>7, <2>2
    <3> QED BY <1>4, <1>8, <3>1 DEF EntriesOk
  <2> QED BY <2>1, <2>2 DEF EntriesOk
<1>10. \A j \in DOMAIN t : t[j].lsn <= Last
  BY <1>4, <1>8
<1>11. \A d \in cursor.deltas : q < d.first /\ \A j \in DOMAIN t : t[j].lsn < d.first
  BY <1>4, <1>8
<1>12. ASSUME NEW i \in (q + 1) .. Last, H[i] # EmptyBatch,
              i <= published.last_applied_lsn
       PROVE  InEntries(t, i) \/ InDeltas(cursor.deltas, i)
  <2>1. i \in (p + 1) .. Last /\ i # q
    BY <1>2, <1>3
  <2>2. InEntries(s, i) => InEntries(t, i)
    BY <1>4, <2>1 DEF InEntries
  <2> QED BY <1>8, <1>12, <2>1, <2>2
<1> QED BY <1>2, <1>5, <1>8, <1>9, <1>10, <1>11, <1>12 DEF LoadingDeltas

\* The delta that is read next is behind LSN p and in front of all others.
LEMMA NextDeltaIs ==
    ASSUME TypeOK, NEW o \in Nat, NEW H \in Histories, OnDisk(o, H),
           NEW p \in o .. Last, LoadingDeltas(H, p), cursor.deltas # {}
    PROVE  /\ NextDelta \in cursor.deltas
           /\ \A c \in cursor.deltas :
                 c # NextDelta => NextDelta.checkpoint < c.first
<1>1. /\ cursor.deltas \in SUBSET Deltas
      /\ \A d \in Deltas : d.first \in Nat /\ d.checkpoint \in Nat
  BY DeltaFacts
<1>2. cursor.deltas \subseteq published.deltas
  BY DEF LoadingDeltas
<1>3. /\ \A d \in cursor.deltas : d.first <= d.checkpoint
      /\ \A c, d \in cursor.deltas :
            c = d \/ c.checkpoint < d.first \/ d.checkpoint < c.first
  BY <1>2 DEF OnDisk, DeltasOk
<1> DEFINE T == {d.first : d \in cursor.deltas}
           Least(d) == \A c \in cursor.deltas :
              d.first < c.first \/ (d.first = c.first /\ d.checkpoint <= c.checkpoint)
<1>4. PICK x \in T : \A y \in T : x <= y
  <2>1. T \in SUBSET Nat /\ T # {}
    BY <1>1
  <2> HIDE DEF T
  <2> QED BY <2>1, LeastNatural
<1>5. PICK d \in cursor.deltas : d.first = x
  BY <1>4
<1>6. Least(d)
  <2> SUFFICES ASSUME NEW c \in cursor.deltas
               PROVE  d.first < c.first
                         \/ (d.first = c.first /\ d.checkpoint <= c.checkpoint)
    OBVIOUS
  <2>1. /\ d.first <= c.first /\ d.first \in Nat /\ c.first \in Nat
        /\ d.checkpoint \in Nat /\ c.checkpoint \in Nat
    BY <1>1, <1>4, <1>5
  <2> QED BY <1>3, <2>1
<1>7. NextDelta \in cursor.deltas /\ Least(NextDelta)
  <2>1. NextDelta = CHOOSE c \in cursor.deltas : Least(c)
    BY DEF NextDelta
  <2> HIDE DEF Least
  <2> QED BY <1>6, <2>1
<1>8. PICK e \in cursor.deltas : e = NextDelta /\ Least(e)
  BY <1>7
<1>9. ASSUME NEW c \in cursor.deltas, c # e PROVE e.checkpoint < c.first
  <2>1. /\ e.first <= c.first /\ e.first \in Nat /\ c.first \in Nat
        /\ e.checkpoint \in Nat /\ c.checkpoint \in Nat
    BY <1>1, <1>8
  <2> QED BY <1>3, <1>9, <2>1
<1> QED BY <1>8, <1>9

LEMMA DeltaRead ==
    ASSUME TypeOK, NEW o \in Nat, NEW H \in Histories, OnDisk(o, H),
           NEW p \in o .. Last, LoadingDeltas(H, p), cursor.entries = << >>,
           cursor.deltas # {},
           cursor' = [cursor EXCEPT !.deltas = @ \ {NextDelta},
                                    !.entries = NextDelta.entries],
           UNCHANGED << pending, disk >>
    PROVE  LoadingDeltas(H, p)'
<1>1. PICK d \in cursor.deltas :
         d = NextDelta /\ \A c \in cursor.deltas : c # d => d.checkpoint < c.first
  BY NextDeltaIs
<1>2. /\ cursor.deltas \in SUBSET Deltas /\ d.first \in Nat /\ d.checkpoint \in Nat
      /\ d.entries \in Seq(Entries) /\ Last \in Nat /\ p \in Nat
      /\ published.last_applied_lsn \in Nat
      /\ \A c \in cursor.deltas : c.first \in Nat
  BY DeltaFacts, WalFacts
<1>3. /\ cursor'.deltas = cursor.deltas \ {d} /\ cursor'.entries = d.entries
      /\ cursor'.frame = cursor.frame /\ Last' = Last
      /\ UNCHANGED << published, pending >>
  BY <1>1 DEF TypeOK, Cursors, disk, Last
<1>4. /\ pending = << >> /\ cursor.frame = 1 /\ p <= published.last_applied_lsn
      /\ cursor.deltas \subseteq published.deltas
      /\ \A c \in cursor.deltas : p < c.first
      /\ \A i \in (p + 1) .. Last :
            H[i] # EmptyBatch /\ i <= published.last_applied_lsn =>
               InDeltas(cursor.deltas, i)
  BY NoEntries DEF LoadingDeltas
<1>5. /\ d.checkpoint <= Last /\ d.checkpoint <= published.last_applied_lsn
      /\ EntriesOk(H, d.entries, d.first - 1, d.checkpoint)
  BY <1>4 DEF OnDisk, DeltasOk
<1>6. \A j \in DOMAIN d.entries : d.entries[j].lsn \in Nat
  BY <1>2, EntryFacts
<1>7. ASSUME NEW j \in DOMAIN d.entries
      PROVE  /\ p < d.entries[j].lsn /\ d.entries[j].lsn <= d.checkpoint
             /\ d.entries[j].lsn <= published.last_applied_lsn
             /\ d.entries[j].lsn <= Last
  <2>1. /\ d.first - 1 < d.entries[j].lsn /\ d.entries[j].lsn <= d.checkpoint
        /\ d.entries[j].lsn \in Nat /\ p < d.first
    BY <1>4, <1>5, <1>6 DEF EntriesOk
  <2> QED BY <1>2, <1>5, <2>1
<1>8. EntriesOk(H, d.entries, p, published.last_applied_lsn)
  BY <1>5, <1>7 DEF EntriesOk
<1>9. \A c \in cursor.deltas \ {d} : \A j \in DOMAIN d.entries :
         d.entries[j].lsn < c.first
  BY <1>1, <1>2, <1>6, <1>7
<1>10. \A i : InDeltas(cursor.deltas, i) =>
          InEntries(d.entries, i) \/ InDeltas(cursor.deltas \ {d}, i)
  BY DEF InDeltas
<1>11. \A j \in DOMAIN d.entries : d.entries[j].lsn <= Last
  BY <1>7
<1>12. \A c \in cursor.deltas \ {d} : p < c.first
  BY <1>4
<1>13. \A i \in (p + 1) .. Last :
          H[i] # EmptyBatch /\ i <= published.last_applied_lsn =>
             InEntries(d.entries, i) \/ InDeltas(cursor.deltas \ {d}, i)
  BY <1>4, <1>10
<1>14. cursor.deltas \ {d} \subseteq published.deltas
  BY <1>4
<1> QED BY <1>3, <1>4, <1>8, <1>9, <1>11, <1>12, <1>13, <1>14 DEF LoadingDeltas

\* Behind the last delta, what is left of the history is in the log.
LEMMA DeltasLoaded ==
    ASSUME TypeOK, NEW o \in Nat, NEW H \in Histories, OnDisk(o, H),
           exposure = "none", NEW p \in o .. Last, LoadingDeltas(H, p),
           cursor.entries = << >>, cursor.deltas = {},
           UNCHANGED << pending, disk, cursor >>
    PROVE  Replaying(o, H, p)'
<1>1. Last \in Nat /\ published.last_applied_lsn \in Nat /\ p \in Nat /\ Len(wal) \in Nat
  BY WalFacts
<1>2. /\ pending = << >> /\ cursor.frame = 1 /\ p <= published.last_applied_lsn
      /\ \A i \in (p + 1) .. Last :
            H[i] # EmptyBatch => published.last_applied_lsn < i
  <2>1. \A i : ~InEntries(<< >>, i) /\ ~InDeltas({}, i)
    BY NoEntries DEF InDeltas
  <2> QED BY <1>1, <2>1 DEF LoadingDeltas
<1>3. \A i \in (o + 1) .. Last : H[i] # EmptyBatch =>
         IF i <= published.last_applied_lsn THEN InDeltas(published.deltas, i)
         ELSE Last - Len(wal) < i
  BY DEF OnDisk
<1>4. \A i \in (o + 1) .. p : H[i] # EmptyBatch => InDeltas(published.deltas, i)
  <2>1. \A i \in (o + 1) .. p : i \in (o + 1) .. Last /\ i <= published.last_applied_lsn
    BY <1>1, <1>2
  <2> QED BY <1>3, <2>1
<1>5. \A i \in (p + 1) .. Last : H[i] # EmptyBatch => Last - Len(wal) + 1 <= i
  <2>1. \A i \in (p + 1) .. Last : i \in (o + 1) .. Last /\ i \in Nat
    BY <1>1
  <2> QED BY <1>1, <1>2, <1>3, <2>1
<1>6. \A m \in DOMAIN wal : wal[m].lsn > published.last_applied_lsn => p < wal[m].lsn
  BY <1>1, <1>2, WalFacts
<1>7. EntriesOk(H, << >>, published.last_applied_lsn, p)
  BY NoEntries
<1>8. UNCHANGED << wal, published, pending, cursor >> /\ Last' = Last
  BY DEF disk, Last
<1> QED BY <1>2, <1>4, <1>5, <1>6, <1>7, <1>8 DEF Replaying

\* How far the loading of the deltas has come.
LEMMA LoadingFacts ==
    ASSUME TypeOK, pc = "load_deltas",
           NEW o \in Nat, NEW H \in Histories, NEW S \in Graphings, Durable(o, H, S)
    PROVE  /\ FilesHold(o, H, S) /\ OnDisk(o, H) /\ manifest = published
           /\ next_lsn = Last + 1
           /\ \E p \in o .. Last : Matches(o, H, S, p) /\ LoadingDeltas(H, p)
BY DEF Durable, FilesHold, Recovering, Opening

LEMMA DeltasUsable ==
    ASSUME TypeOK, pc = "load_deltas",
           NEW o \in Nat, NEW H \in Histories, NEW S \in Graphings, Durable(o, H, S)
    PROVE  ~DeltaUnusable
<1>1. PICK p \in o .. Last : Matches(o, H, S, p) /\ LoadingDeltas(H, p)
  BY LoadingFacts
<1>2. FilesHold(o, H, S) /\ OnDisk(o, H)
  BY LoadingFacts
<1>3. CASE cursor.entries # << >>
  <2>1. PICK q : q = Head(cursor.entries).lsn
    OBVIOUS
  <2>2. /\ q \in (p + 1) .. Last /\ Head(cursor.entries).batch = H[q]
        /\ \A i \in (p + 1) .. (q - 1) : H[i] = EmptyBatch
    BY <1>1, <1>2, <1>3, <2>1, NextEntry
  <2>3. validate_batch_against_maps(graph, H[q])
    BY <1>1, <1>2, <2>2, MatchesApply
  <2> QED BY <1>3, <2>2, <2>3 DEF DeltaUnusable
<1>4. CASE cursor.entries = << >> /\ cursor.deltas # {}
  <2>1. NextDelta \in cursor.deltas
    BY <1>1, <1>2, <1>4, NextDeltaIs
  <2>2. cursor.deltas \subseteq published.deltas /\ published.deltas \subseteq deltas
    BY <1>1, <1>2 DEF LoadingDeltas, OnDisk
  <2> QED BY <1>4, <2>1, <2>2 DEF DeltaUnusable
<1> QED BY <1>3, <1>4 DEF DeltaUnusable

LEMMA DurableLoadDeltas ==
    ASSUME DurableInv, TypeInv', LoadDeltas
    PROVE  DurableInv'
<1>1. /\ pc = "load_deltas" /\ UNCHANGED << disk, history >> /\ TypeOK
      /\ exposure # "at_risk" /\ exposure \in Exposures /\ pc \in Opening
  BY DEF LoadDeltas, DurableInv, Counted, TypeInv, TypeOK, Opening
<1>2. CASE DeltaUnusable /\ Refuse
  <2>1. ASSUME exposure # "lost" PROVE FALSE
    <3>1. PICK o \in Nat, H \in Histories, S \in Graphings : Durable(o, H, S)
      BY <2>1 DEF DurableInv, DurableHistory
    <3> QED BY <1>1, <1>2, <3>1, DeltasUsable
  <2> QED BY <1>1, <1>2, <2>1, DurableRefuse
<1>3. CASE ~(DeltaUnusable /\ Refuse)
  <2>1. Last' = Last /\ UNCHANGED << published, next_lsn, manifest, pending >>
    BY <1>1, <1>3 DEF LoadDeltas, disk, Last
  <2>2. CASE cursor.entries # << >>
    <3>1. /\ graph' = apply_batch_to_maps_unchecked(graph, Head(cursor.entries).batch)
          /\ cursor' = [cursor EXCEPT !.entries = Tail(@)] /\ pc' = pc
      BY <1>3, <2>2 DEF LoadDeltas
    <3>2. ASSUME NEW o \in Nat, NEW H \in Histories, NEW S \in Graphings,
                 Durable(o, H, S)
          PROVE  Recovering(o, H, S)'
      <4>1. PICK p \in o .. Last : Matches(o, H, S, p) /\ LoadingDeltas(H, p)
        BY <1>1, <3>2, LoadingFacts
      <4>2. /\ FilesHold(o, H, S) /\ OnDisk(o, H) /\ manifest = published
            /\ next_lsn = Last + 1
        BY <1>1, <3>2, LoadingFacts
      <4>3. Last \in Nat
        BY <1>1, WalFacts
      <4>4. PICK q : q = Head(cursor.entries).lsn
        OBVIOUS
      <4>5. /\ q \in (p + 1) .. Last /\ Head(cursor.entries).batch = H[q]
            /\ \A i \in (p + 1) .. (q - 1) : H[i] = EmptyBatch
        BY <1>1, <2>2, <4>1, <4>2, <4>4, NextEntry
      <4>6. q \in Nat /\ q \in o .. Last
        BY <4>3, <4>5
      <4>7. Matches(o, H, S, q)'
        <5>1. /\ \A k \in Known(o, H, q) :
                    apply_batch_to_maps_unchecked(graph, H[q])[k] = S[q][k]
              /\ \A k \in Keys :
                    Live(apply_batch_to_maps_unchecked(graph, H[q]), k) =>
                       k \in Known(o, H, Last)
          BY <1>1, <4>1, <4>2, <4>5, MatchesApply
        <5> QED BY <2>1, <3>1, <4>5, <5>1 DEF Matches, Known, Live
      <4>8. LoadingDeltas(H, q)'
        BY <1>1, <2>1, <2>2, <3>1, <4>1, <4>2, <4>4, <4>6, EntryLoaded
      <4> QED BY <1>1, <2>1, <3>1, <4>2, <4>6, <4>7, <4>8 DEF Recovering
    <3> QED BY <1>1, <3>1, <3>2, OpeningAgain
  <2>3. CASE cursor.entries = << >>
    <3>1. graph' = graph /\ pc' \in {"load_deltas", "replay"}
      BY <1>1, <1>3, <2>3 DEF LoadDeltas
    <3>2. ASSUME NEW o \in Nat, NEW H \in Histories, NEW S \in Graphings,
                 exposure = "none", Durable(o, H, S)
          PROVE  Recovering(o, H, S)'
      <4>1. PICK p \in o .. Last : Matches(o, H, S, p) /\ LoadingDeltas(H, p)
        BY <1>1, <3>2, LoadingFacts
      <4>2. /\ FilesHold(o, H, S) /\ OnDisk(o, H) /\ manifest = published
            /\ next_lsn = Last + 1
        BY <1>1, <3>2, LoadingFacts
      <4>3. Matches(o, H, S, p)'
        BY <2>1, <3>1, <4>1 DEF Matches, Known, Live
      <4>4. CASE cursor.deltas # {}
        <5>1. /\ pc' = pc
              /\ cursor' = [cursor EXCEPT !.deltas = @ \ {NextDelta},
                                          !.entries = NextDelta.entries]
          BY <1>3, <2>3, <4>4 DEF LoadDeltas
        <5>2. LoadingDeltas(H, p)'
          BY <1>1, <2>1, <2>3, <4>1, <4>2, <4>4, <5>1, DeltaRead
        <5> QED BY <1>1, <2>1, <4>2, <4>3, <5>1, <5>2 DEF Recovering
      <4>5. CASE cursor.deltas = {}
        <5>1. pc' = "replay" /\ cursor' = cursor
          BY <1>3, <2>3, <4>5 DEF LoadDeltas
        <5>2. Replaying(o, H, p)'
          BY <1>1, <2>1, <2>3, <3>2, <4>1, <4>2, <4>5, <5>1, DeltasLoaded
        <5> QED BY <2>1, <4>2, <4>3, <5>1, <5>2 DEF Recovering
      <4> QED BY <4>4, <4>5
    <3> QED BY <1>1, <3>1, <3>2, OpeningAgain DEF Opening
  <2> QED BY <2>2, <2>3
<1> QED BY <1>2, <1>3

-----------------------------------------------------------------------------
(* Replaying the log                                                       *)

\* How far the replay has come.
LEMMA ReplayingFacts ==
    ASSUME TypeOK, pc = "replay",
           NEW o \in Nat, NEW H \in Histories, NEW S \in Graphings, Durable(o, H, S)
    PROVE  /\ FilesHold(o, H, S) /\ OnDisk(o, H) /\ Logged(o, H)
           /\ manifest = published /\ next_lsn = Last + 1
           /\ \E p \in o .. Last : Matches(o, H, S, p) /\ Replaying(o, H, p)
BY DEF Durable, FilesHold, Recovering, Opening

\* The frame under the cursor.
LEMMA FrameFacts ==
    ASSUME TypeOK, NEW o \in Nat, NEW H \in Histories, Logged(o, H),
           cursor.frame <= Len(wal), manifest = published
    PROVE  LET i == cursor.frame
           IN  /\ i \in DOMAIN wal /\ i \in Nat
               /\ wal[i].lsn = Last - Len(wal) + i
               /\ wal[i].lsn \in Nat /\ wal[i].lsn <= Last
               /\ Skipped(i) <=> wal[i].lsn <= published.last_applied_lsn
               /\ wal[i].kind = "checkpoint" => wal[i].batch = EmptyBatch
               /\ wal[i].kind = "checkpoint" \/ wal[i].kind = "write_batch"
               /\ o < wal[i].lsn => wal[i].batch = H[wal[i].lsn]
<1>1. PICK i : i = cursor.frame
  OBVIOUS
<1>2. i \in Nat /\ i >= 1
  BY <1>1 DEF TypeOK, Cursors
<1>3. /\ DOMAIN wal = 1 .. Len(wal) /\ Len(wal) \in Nat /\ Last \in Nat
      /\ \A j \in DOMAIN wal : wal[j].lsn \in Nat
  BY WalFacts
<1>4. i \in DOMAIN wal
  BY <1>1, <1>2, <1>3
<1>5. Readable(i)
  BY <1>4, AllReadable
<1>6. /\ wal[i].lsn = Last - Len(wal) + i
      /\ wal[i].kind = "checkpoint" => wal[i].batch = EmptyBatch
      /\ wal[i].kind = "checkpoint" \/ wal[i].kind = "write_batch"
      /\ o < wal[i].lsn => wal[i].batch = H[wal[i].lsn]
  BY <1>4 DEF Logged
<1>7. wal[i].lsn \in Nat /\ wal[i].lsn <= Last
  BY <1>1, <1>2, <1>3, <1>4, <1>6
<1>8. Skipped(i) <=> wal[i].lsn <= published.last_applied_lsn
  BY <1>5 DEF Skipped
<1> QED BY <1>1, <1>2, <1>4, <1>6, <1>7, <1>8

\* A frame that brings nothing is passed over.
LEMMA FramePassed ==
    ASSUME TypeOK, NEW o \in Nat, NEW H \in Histories, Logged(o, H),
           manifest = published, NEW p \in o .. Last, Replaying(o, H, p),
           cursor.frame <= Len(wal),
           Skipped(cursor.frame) \/ wal[cursor.frame].kind = "checkpoint",
           cursor' = [cursor EXCEPT !.frame = cursor.frame + 1],
           UNCHANGED << pending, disk >>
    PROVE  Replaying(o, H, p)'
<1>1. PICK i, l : i = cursor.frame /\ l = wal[cursor.frame].lsn
  OBVIOUS
<1>2. /\ i \in DOMAIN wal /\ i \in Nat /\ l \in Nat /\ l = Last - Len(wal) + i
      /\ Len(wal) \in Nat /\ Last \in Nat /\ published.last_applied_lsn \in Nat
      /\ p \in Nat /\ DOMAIN wal = 1 .. Len(wal)
  BY <1>1, FrameFacts, WalFacts
<1>3. \/ l <= published.last_applied_lsn
      \/ l > published.last_applied_lsn /\ (o < l => H[l] = EmptyBatch)
  BY <1>1, <1>2, FrameFacts
<1>4. /\ EntriesOk(H, pending, published.last_applied_lsn, p)
      /\ \A j \in (o + 1) .. p : H[j] # EmptyBatch =>
            InDeltas(published.deltas, j) \/ InEntries(pending, j)
      /\ \A m \in DOMAIN wal :
            m >= i /\ wal[m].lsn > published.last_applied_lsn => p < wal[m].lsn
      /\ \A j \in (p + 1) .. Last : H[j] # EmptyBatch =>
            published.last_applied_lsn < j /\ Last - Len(wal) + i <= j
  BY <1>1 DEF Replaying
<1>5. \A m \in DOMAIN wal :
         m >= i + 1 /\ wal[m].lsn > published.last_applied_lsn => p < wal[m].lsn
  BY <1>2, <1>4
<1>6. ASSUME NEW j \in (p + 1) .. Last, H[j] # EmptyBatch
      PROVE  Last - Len(wal) + (i + 1) <= j
  <2>1. j # l
    BY <1>2, <1>3, <1>4, <1>6
  <2> QED BY <1>2, <1>4, <1>6, <2>1
<1>7. /\ UNCHANGED << wal, published, pending >> /\ Last' = Last /\ cursor'.frame = i + 1
  BY <1>1 DEF disk, Last, TypeOK, Cursors
<1> QED BY <1>4, <1>5, <1>6, <1>7 DEF Replaying

\* A batch behind the published LSN is the next batch of the history.
LEMMA NextFrame ==
    ASSUME TypeOK, NEW o \in Nat, NEW H \in Histories, Logged(o, H),
           manifest = published, NEW p \in o .. Last, Replaying(o, H, p),
           cursor.frame <= Len(wal), ~Skipped(cursor.frame)
    PROVE  LET q == wal[cursor.frame].lsn
           IN  /\ q \in (p + 1) .. Last /\ q > published.last_applied_lsn
               /\ wal[cursor.frame].batch = H[q]
               /\ \A j \in (p + 1) .. (q - 1) : H[j] = EmptyBatch
<1>1. PICK i, q : i = cursor.frame /\ q = wal[cursor.frame].lsn
  OBVIOUS
<1>2. /\ i \in DOMAIN wal /\ i \in Nat /\ q \in Nat /\ q = Last - Len(wal) + i
      /\ Len(wal) \in Nat /\ Last \in Nat /\ published.last_applied_lsn \in Nat
      /\ q <= Last /\ p \in Nat /\ q > published.last_applied_lsn
      /\ o < q => wal[i].batch = H[q]
  BY <1>1, FrameFacts, WalFacts
<1>3. p < q
  <2>1. \A m \in DOMAIN wal :
           m >= i /\ wal[m].lsn > published.last_applied_lsn => p < wal[m].lsn
    BY <1>1 DEF Replaying
  <2>2. i >= i /\ wal[i].lsn = q
    BY <1>1, <1>2
  <2> QED BY <1>2, <2>1, <2>2
<1>4. \A j \in (p + 1) .. Last : H[j] # EmptyBatch => q <= j
  BY <1>1, <1>2 DEF Replaying
<1>5. ASSUME NEW j \in (p + 1) .. (q - 1) PROVE H[j] = EmptyBatch
  <2>1. j \in (p + 1) .. Last /\ ~(q <= j)
    BY <1>2
  <2> QED BY <1>4, <2>1
<1> QED BY <1>1, <1>2, <1>3, <1>5

\* It is pending again once it is applied.
LEMMA FrameReplayed ==
    ASSUME TypeOK, NEW o \in Nat, NEW H \in Histories, Logged(o, H),
           manifest = published, NEW p \in o .. Last, Replaying(o, H, p),
           cursor.frame <= Len(wal), ~Skipped(cursor.frame),
           pending' = PendingAgain(cursor.frame),
           cursor' = [cursor EXCEPT !.frame = cursor.frame + 1],
           UNCHANGED disk,
           NEW q \in Nat, q = wal[cursor.frame].lsn
    PROVE  Replaying(o, H, q)'
<1>1. PICK i : i = cursor.frame
  OBVIOUS
<1>2. /\ i \in DOMAIN wal /\ i \in Nat /\ q = Last - Len(wal) + i
      /\ Len(wal) \in Nat /\ Last \in Nat /\ published.last_applied_lsn \in Nat
      /\ p \in Nat /\ DOMAIN wal = 1 .. Len(wal)
  BY <1>1, FrameFacts, WalFacts
<1>3. /\ q \in (p + 1) .. Last /\ q > published.last_applied_lsn
      /\ wal[i].batch = H[q] /\ \A j \in (p + 1) .. (q - 1) : H[j] = EmptyBatch
  BY <1>1, NextFrame
<1>4. /\ EntriesOk(H, pending, published.last_applied_lsn, p)
      /\ \A j \in (o + 1) .. p : H[j] # EmptyBatch =>
            InDeltas(published.deltas, j) \/ InEntries(pending, j)
      /\ \A j \in (p + 1) .. Last : H[j] # EmptyBatch =>
            published.last_applied_lsn < j /\ Last - Len(wal) + i <= j
  BY <1>1 DEF Replaying
<1>5. /\ UNCHANGED << wal, published >> /\ Last' = Last /\ cursor'.frame = i + 1
      /\ pending' = Append(pending, [lsn |-> q, batch |-> H[q]])
  BY <1>1, <1>3 DEF disk, Last, TypeOK, Cursors, PendingAgain
<1>6. pending \in Seq(Entries) /\ H[q] \in WriteBatches
  BY DeltaFacts DEF Histories
<1> DEFINE e == [lsn |-> q, batch |-> H[q]]
           t == Append(pending, e)
           m == Len(pending)
<1>7. e \in Entries /\ e.lsn = q /\ e.batch = H[q]
  BY <1>6 DEF Entries, Lsns
<1> HIDE DEF e
<1>8. /\ m \in Nat /\ DOMAIN pending = 1 .. m /\ DOMAIN t = 1 .. (m + 1)
      /\ \A j \in 1 .. m : t[j] = pending[j] /\ t[j].lsn \in Nat
      /\ t[m + 1] = e
  BY <1>6, <1>7, EntryFacts
<1> HIDE DEF t, m
<1>9. EntriesOk(H, t, published.last_applied_lsn, q)
  <2>1. ASSUME NEW j \in 1 .. m
        PROVE  /\ published.last_applied_lsn < t[j].lsn /\ t[j].lsn < q
               /\ t[j].lsn <= q /\ t[j].batch = H[t[j].lsn]
    <3>1. /\ published.last_applied_lsn < t[j].lsn /\ t[j].lsn <= p
          /\ t[j].batch = H[t[j].lsn] /\ t[j].lsn \in Nat
      BY <1>4, <1>8 DEF EntriesOk
    <3> QED BY <1>2, <1>3, <3>1
  <2>2. ASSUME NEW j \in DOMAIN t
        PROVE  published.last_applied_lsn < t[j].lsn /\ t[j].lsn <= q
               /\ t[j].batch = H[t[j].lsn]
    <3>1. j \in 1 .. m \/ j = m + 1
      BY <1>8
    <3> QED BY <1>3, <1>7, <1>8, <2>1, <3>1
  <2>3. ASSUME NEW j \in DOMAIN t, NEW k \in DOMAIN t, j < k
        PROVE  t[j].lsn < t[k].lsn
    <3>1. j \in 1 .. m /\ (k \in 1 .. m \/ k = m + 1)
      BY <1>8, <2>3
    <3>2. CASE k \in 1 .. m
      BY <1>4, <1>8, <2>3, <3>1, <3>2 DEF EntriesOk
    <3>3. CASE k = m + 1
      BY <1>7, <1>8, <2>1, <3>1, <3>3
    <3> QED BY <3>1, <3>2, <3>3
  <2> QED BY <2>2, <2>3 DEF EntriesOk
<1>10. ASSUME NEW j \in (o + 1) .. q, H[j] # EmptyBatch
       PROVE  InDeltas(published.deltas, j) \/ InEntries(t, j)
  <2>1. j \in (o + 1) .. p \/ j \in (p + 1) .. (q - 1) \/ j = q
    BY <1>2
  <2>2. InEntries(pending, j) => InEntries(t, j)
    BY <1>8 DEF InEntries
  <2>3. InEntries(t, q)
    BY <1>7, <1>8 DEF InEntries
  <2> QED BY <1>3, <1>4, <1>10, <2>1, <2>2, <2>3
<1>11. ASSUME NEW k \in DOMAIN wal, k >= i + 1 PROVE q < wal[k].lsn
  <2>1. wal[k].lsn = Last - Len(wal) + k
    BY DEF Logged
  <2> QED BY <1>2, <1>11, <2>1
<1>12. ASSUME NEW j \in (q + 1) .. Last, H[j] # EmptyBatch
       PROVE  published.last_applied_lsn < j /\ Last - Len(wal) + (i + 1) <= j
  BY <1>2, <1>3
<1> QED BY <1>5, <1>9, <1>10, <1>11, <1>12 DEF Replaying, t, e

\* Behind the last frame the engine holds what the history holds.
LEMMA LogReplayed ==
    ASSUME TypeOK, NEW o \in Nat, NEW H \in Histories, NEW S \in Graphings,
           FilesHold(o, H, S), OnDisk(o, H), manifest = published,
           next_lsn = Last + 1,
           NEW p \in o .. Last, Matches(o, H, S, p), Replaying(o, H, p),
           cursor.frame > Len(wal), pc' = "ready",
           UNCHANGED << disk, history, graph, next_lsn, pending, manifest >>
    PROVE  InMemory(o, H)'
<1>1. /\ Len(wal) \in Nat /\ Last \in Nat /\ published.last_applied_lsn \in Nat
      /\ p \in Nat /\ cursor.frame \in Nat
  BY WalFacts DEF TypeOK, Cursors
<1>2. ASSUME NEW j \in (p + 1) .. Last PROVE H[j] = EmptyBatch
  <2>1. H[j] # EmptyBatch => Last - Len(wal) + cursor.frame <= j
    BY DEF Replaying
  <2> QED BY <1>1, <2>1
<1>3. graph = committed
  BY <1>2, MatchesEnd
<1>4. /\ pending \in Seq(Entries)
      /\ \A j \in DOMAIN pending : pending[j].lsn \in Nat
  BY DeltaFacts, EntryFacts
<1>5. EntriesOk(H, pending, published.last_applied_lsn, p)
  BY DEF Replaying
<1>6. /\ o <= published.last_applied_lsn /\ published.deltas \subseteq deltas
      /\ DeltasOk(Last, o, H, published.deltas)
      /\ \A d \in published.deltas :
            d.checkpoint <= published.last_applied_lsn /\ d.checkpoint \in Nat
  BY DeltaFacts DEF OnDisk
<1>7. EntriesOk(H, pending, o, Last)
  <2>1. ASSUME NEW j \in DOMAIN pending
        PROVE  o < pending[j].lsn /\ pending[j].lsn <= Last
    <3>1. published.last_applied_lsn < pending[j].lsn /\ pending[j].lsn <= p
      BY <1>5 DEF EntriesOk
    <3> QED BY <1>1, <1>4, <1>6, <3>1
  <2> QED BY <1>5, <2>1 DEF EntriesOk
<1>8. ASSUME NEW d \in published.deltas, NEW j \in DOMAIN pending
      PROVE  d.checkpoint < pending[j].lsn
  <2>1. published.last_applied_lsn < pending[j].lsn
    BY <1>5 DEF EntriesOk
  <2> QED BY <1>1, <1>4, <1>6, <2>1
<1>9. ASSUME NEW i \in (o + 1) .. Last, H[i] # EmptyBatch
      PROVE  InDeltas(published.deltas, i) \/ InEntries(pending, i)
  <2>1. i \in (o + 1) .. p \/ i \in (p + 1) .. Last
    BY <1>1
  <2> QED BY <1>2, <1>9, <2>1 DEF Replaying
<1>10. /\ UNCHANGED << wal, published, deltas, committed >> /\ Last' = Last
  BY DEF disk, history, Last
<1> QED BY <1>3, <1>6, <1>7, <1>8, <1>9, <1>10 DEF InMemory, Replaced

LEMMA DurableReplay ==
    ASSUME DurableInv, TypeInv', Replay
    PROVE  DurableInv'
<1> DEFINE i == cursor.frame
<1>1. /\ pc = "replay" /\ UNCHANGED << disk, history >> /\ TypeOK
      /\ exposure # "at_risk" /\ exposure \in Exposures /\ pc \in Opening
  BY DEF Replay, DurableInv, Counted, TypeInv, TypeOK, Opening
<1>2. Last' = Last /\ UNCHANGED published /\ i \in Nat /\ Len(wal) \in Nat
  BY <1>1, WalFacts DEF disk, Last, TypeOK, Cursors
<1>3. CASE /\ i <= Len(wal) /\ ~Skipped(i)
           /\ ~validate_batch_against_maps(graph, wal[i].batch) /\ Refuse
  <2>1. ASSUME exposure # "lost" PROVE FALSE
    <3>1. PICK o \in Nat, H \in Histories, S \in Graphings : Durable(o, H, S)
      BY <2>1 DEF DurableInv, DurableHistory
    <3>2. PICK p \in o .. Last : Matches(o, H, S, p) /\ Replaying(o, H, p)
      BY <1>1, <3>1, ReplayingFacts
    <3>3. FilesHold(o, H, S) /\ Logged(o, H) /\ manifest = published
      BY <1>1, <3>1, ReplayingFacts
    <3>4. PICK q : q = wal[i].lsn
      OBVIOUS
    <3>5. /\ q \in (p + 1) .. Last /\ wal[i].batch = H[q]
          /\ \A j \in (p + 1) .. (q - 1) : H[j] = EmptyBatch
      BY <1>1, <1>3, <3>2, <3>3, <3>4, NextFrame
    <3>6. validate_batch_against_maps(graph, H[q])
      BY <1>1, <3>2, <3>3, <3>5, MatchesApply
    <3> QED BY <1>3, <3>5, <3>6
  <2> QED BY <1>1, <1>3, <2>1, DurableRefuse
<1>4. CASE /\ i <= Len(wal)
           /\ Skipped(i) \/ wal[i].kind = "checkpoint"
           /\ cursor' = [cursor EXCEPT !.frame = i + 1]
           /\ UNCHANGED << pc, graph, next_lsn, pending, manifest >>
  <2>1. ASSUME NEW o \in Nat, NEW H \in Histories, NEW S \in Graphings,
               Durable(o, H, S)
        PROVE  Recovering(o, H, S)'
    <3>1. PICK p \in o .. Last : Matches(o, H, S, p) /\ Replaying(o, H, p)
      BY <1>1, <2>1, ReplayingFacts
    <3>2. Logged(o, H) /\ manifest = published /\ next_lsn = Last + 1
      BY <1>1, <2>1, ReplayingFacts
    <3>3. Replaying(o, H, p)'
      BY <1>1, <1>4, <3>1, <3>2, FramePassed
    <3>4. Matches(o, H, S, p)'
      BY <1>2, <1>4, <3>1 DEF Matches, Known, Live
    <3> QED BY <1>1, <1>2, <1>4, <3>2, <3>3, <3>4 DEF Recovering
  <2> QED BY <1>1, <1>4, <2>1, OpeningAgain
<1>5. CASE /\ i <= Len(wal) /\ ~Skipped(i) /\ pending' = PendingAgain(i)
           /\ graph' = apply_batch_to_maps_unchecked(graph, wal[i].batch)
           /\ cursor' = [cursor EXCEPT !.frame = i + 1]
           /\ UNCHANGED << pc, next_lsn, manifest >>
  <2>1. ASSUME NEW o \in Nat, NEW H \in Histories, NEW S \in Graphings,
               Durable(o, H, S)
        PROVE  Recovering(o, H, S)'
    <3>1. PICK p \in o .. Last : Matches(o, H, S, p) /\ Replaying(o, H, p)
      BY <1>1, <2>1, ReplayingFacts
    <3>2. /\ FilesHold(o, H, S) /\ Logged(o, H) /\ manifest = published
          /\ next_lsn = Last + 1
      BY <1>1, <2>1, ReplayingFacts
    <3>3. PICK q : q = wal[i].lsn
      OBVIOUS
    <3>4. /\ q \in (p + 1) .. Last /\ wal[i].batch = H[q]
          /\ \A j \in (p + 1) .. (q - 1) : H[j] = EmptyBatch
      BY <1>1, <1>5, <3>1, <3>2, <3>3, NextFrame
    <3>5. q \in Nat /\ q \in o .. Last
      BY <1>1, <3>4, WalFacts
    <3>6. Matches(o, H, S, q)'
      <4>1. /\ \A k \in Known(o, H, q) :
                  apply_batch_to_maps_unchecked(graph, H[q])[k] = S[q][k]
            /\ \A k \in Keys :
                  Live(apply_batch_to_maps_unchecked(graph, H[q]), k) =>
                     k \in Known(o, H, Last)
        BY <1>1, <3>1, <3>2, <3>4, MatchesApply
      <4> QED BY <1>2, <1>5, <3>4, <4>1 DEF Matches, Known, Live
    <3>7. Replaying(o, H, q)'
      BY <1>1, <1>5, <3>1, <3>2, <3>3, <3>5, FrameReplayed
    <3> QED BY <1>1, <1>2, <1>5, <3>2, <3>5, <3>6, <3>7 DEF Recovering
  <2> QED BY <1>1, <1>5, <2>1, OpeningAgain
<1>6. CASE /\ i > Len(wal) /\ pc' = "ready"
           /\ UNCHANGED << graph, next_lsn, pending, manifest >>
  <2>1. Counted'
    BY <1>1, <1>2, <1>6 DEF DurableInv, Counted, disk, history, Compacting, Writing,
                            Down, Opening
  <2>2. CASE exposure = "lost"
    <3>1. exposure' = "lost"
      BY <1>1, <2>2 DEF history
    <3> QED BY <2>1, <3>1 DEF DurableInv
  <2>3. CASE exposure # "lost"
    <3>1. PICK o \in Nat, H \in Histories, S \in Graphings : Durable(o, H, S)
      BY <2>3 DEF DurableInv, DurableHistory
    <3>2. PICK p \in o .. Last : Matches(o, H, S, p) /\ Replaying(o, H, p)
      BY <1>1, <3>1, ReplayingFacts
    <3>3. /\ FilesHold(o, H, S) /\ OnDisk(o, H) /\ manifest = published
          /\ next_lsn = Last + 1
      BY <1>1, <3>1, ReplayingFacts
    <3>4. InMemory(o, H)'
      BY <1>1, <1>6, <3>2, <3>3, LogReplayed
    <3>5. FilesHold(o, H, S)'
      BY <1>1, <3>3, FilesUnchanged
    <3>6. Written' /\ pc' \in Running
      BY <1>6 DEF Written, Running
    <3> QED BY <2>1, <3>4, <3>5, <3>6, RunningAgain
  <2> QED BY <2>2, <2>3
<1> QED BY <1>3, <1>4, <1>5, <1>6 DEF Replay

-----------------------------------------------------------------------------
(* The theorems about durability                                           *)

LEMMA InitDurable ==
    ASSUME Init
    PROVE  DurableInv
<1>1. TypeInv /\ EmptyGraph \in Graphs /\ EmptyBatch \in WriteBatches
  BY InitTypeInv, EmptyGraphFacts, EmptyBatchFacts
<1>2. /\ wal = << >> /\ segments = NoSnapshot /\ deltas = {}
      /\ published = EmptyManifest /\ pc = "ready" /\ graph = EmptyGraph
      /\ next_lsn = 1 /\ pending = << >> /\ manifest = EmptyManifest
      /\ committed = EmptyGraph /\ exposure = "none" /\ compactions = 0
  BY DEF Init
<1>3. /\ published.last_applied_lsn = 0 /\ published.snapshot = NoSnapshot
      /\ published.deltas = {} /\ Last = 0 /\ Len(wal) = 0 /\ DOMAIN wal = {}
  BY <1>2 DEF EmptyManifest, Last
<1> DEFINE H == [i \in Nat |-> EmptyBatch]
           S == [i \in Nat |-> EmptyGraph]
<1>4. H \in Histories /\ S \in Graphings /\ \A i \in Nat : S[i] = EmptyGraph
  BY <1>1 DEF Histories, Graphings
<1> HIDE DEF H, S
<1>5. \A k \in Keys : ~Live(EmptyGraph, k)
  BY DEF EmptyGraph, Live
<1>6. \A k \in Keys : ~Live(LoadedSnapshot, k)
  <2>1. LoadedSnapshot = [k \in Keys |-> Absent]
    BY <1>2 DEF LoadedSnapshot, LoadedNode, LoadedEdge, NoSnapshot
  <2> QED BY <2>1 DEF Live
<1>7. Chain(Last, 0, H, S)
  BY <1>3 DEF Chain
<1>8. Logged(0, H)
  BY <1>3, StorageAssumption DEF Logged
<1>9. Based(0, H, S)
  BY <1>3, <1>4, <1>5, <1>6 DEF Based
<1>10. OnDisk(0, H)
  BY <1>2, <1>3 DEF OnDisk, DeltasOk
<1>11. InMemory(0, H) /\ Written
  BY <1>2, <1>3, NoEntries DEF InMemory, Written, DeltasOk, Replaced
<1>12. FilesHold(0, H, S)
  BY <1>2, <1>3, <1>4, <1>7, <1>8, <1>9, <1>10 DEF FilesHold
<1>13. Durable(0, H, S)
  BY <1>2, <1>11, <1>12 DEF Durable, Opening
<1>14. Counted
  BY <1>2, <1>3, StorageAssumption DEF Counted, Compacting, Writing, Down, Opening
<1> QED BY <1>1, <1>4, <1>13, <1>14 DEF DurableInv, DurableHistory

LEMMA NextDurable ==
    ASSUME Tolerated, DurableInv, [Next]_vars
    PROVE  DurableInv'
<1>1. TypeInv'
  BY NextTypeInv DEF DurableInv
<1>2. ASSUME NEW b \in Batches, apply_write_batch(b) PROVE DurableInv'
  BY <1>1, <1>2, DurableWrite
<1>3. ASSUME NEW b \in Batches, apply_write_batch_fails(b) PROVE DurableInv'
  BY <1>1, <1>3, DurableFailedAppend DEF apply_write_batch_fails
<1>4. ASSUME MarkerFails PROVE DurableInv'
  BY <1>1, <1>4, DurableFailedAppend DEF MarkerFails
<1>5. ASSUME Checkpoint PROVE DurableInv'
  BY <1>1, <1>5, DurableMarker, DurablePublishDelta, DurablePublishManifest
     DEF Checkpoint
<1>6. ASSUME Compaction PROVE DurableInv'
  BY <1>1, <1>6, DurableMarker, DurableWriteSegment, DurableReplaceManifest,
     DurableRemoveDeltas, DurableTruncateWal DEF Compaction
<1>7. ASSUME Crash PROVE DurableInv'
  BY <1>1, <1>7, DurableCrash
<1>8. ASSUME Recovery PROVE DurableInv'
  BY <1>1, <1>8, DurableOpen, DurableLoadSegments, DurableLoadDeltas, DurableReplay
     DEF Recovery
<1>9. ASSUME UNCHANGED vars PROVE DurableInv'
  <2>1. /\ UNCHANGED << disk, history >> /\ UNCHANGED << pc, graph, next_lsn,
              latest_applied_lsn, checkpoint_dirty, pending, manifest, cursor >>
    BY <1>9 DEF vars, memory
  <2>2. /\ UNCHANGED << wal, segments, published, exposure, compactions >>
        /\ Last' = Last
    BY <2>1 DEF disk, history, Last
  <2>3. Counted'
    BY <2>1, <2>2 DEF Counted, DurableInv
  <2>4. ASSUME exposure' # "lost" PROVE DurableHistory'
    <3>1. PICK o \in Nat, H \in Histories, S \in Graphings : Durable(o, H, S)
      BY <2>2, <2>4 DEF DurableInv, DurableHistory
    <3>2. FilesHold(o, H, S)'
      BY <2>1, <3>1, FilesUnchanged DEF Durable
    <3>3. pc \in Running => (InMemory(o, H) /\ Written)'
      BY <2>1, <3>1, MemoryUnchanged DEF Durable
    <3>4. Recovering(o, H, S) => Recovering(o, H, S)'
      BY <2>1, <2>2 DEF Recovering, Matches, Known, Live, LoadingDeltas, Replaying
    <3>5. Durable(o, H, S)'
      BY <2>1, <3>1, <3>2, <3>3, <3>4 DEF Durable
    <3> QED BY <3>5 DEF DurableHistory
  <2> QED BY <1>1, <2>3, <2>4 DEF DurableInv
<1> QED BY <1>2, <1>3, <1>4, <1>5, <1>6, <1>7, <1>8, <1>9 DEF Next

LEMMA DurableServes ==
    ASSUME DurableInv, exposure # "lost", pc \in Running
    PROVE  graph = committed
BY RunningFacts DEF InMemory

\* Every acknowledged batch, and no other, is in the graph that the engine
\* serves, after any number of failed appends and snapshot writes, checkpoints,
\* compactions, crashes at any step of them and openings, except after a crash
\* in the window in which compaction has restarted the log below the published
\* LSN.  Manifest writes may fail as well where nothing is compacted.
THEOREM AckedSurvive ==
    ASSUME Tolerated
    PROVE  Spec => []SurviveUnlessShadowed
<1>1. Init => DurableInv
  BY InitDurable
<1>2. DurableInv /\ [Next]_vars => DurableInv'
  BY NextDurable
<1>3. DurableInv => SurviveUnlessShadowed
  BY DurableServes DEF SurviveUnlessShadowed, Running
<1> QED BY <1>1, <1>2, <1>3, PTL DEF Spec

\* A store that is within the replay limit is opened again, until a crash in
\* that window or a second compaction: no checksum, delta or replay error stops
\* StorageEngine::open.
THEOREM ReopenedUnlessShadowed ==
    ASSUME Tolerated, MaxFrames <= MaxReplayFrames
    PROVE  Spec => []RefusedOnlyIfShadowed
<1>1. Init => DurableInv
  BY InitDurable
<1>2. DurableInv /\ [Next]_vars => DurableInv'
  BY NextDurable
<1>3. DurableInv => RefusedOnlyIfShadowed
  BY StorageAssumption DEF DurableInv, Counted, RefusedOnlyIfShadowed
<1> QED BY <1>1, <1>2, <1>3, PTL DEF Spec

\* The acknowledged batches build no dangling edge.
ClosedCommitted == DurableInv /\ (exposure # "lost" => Closed(committed))

LEMMA NextClosedCommitted ==
    ASSUME Tolerated, ClosedCommitted, [Next]_vars
    PROVE  ClosedCommitted'
<1>1. DurableInv' /\ DurableInv
  BY NextDurable DEF ClosedCommitted
<1>2. ASSUME exposure' # "lost" PROVE exposure # "lost"
  <2>1. exposure = "lost" => exposure' = "lost"
    BY DEF Next, apply_write_batch, apply_write_batch_fails, MarkerFails, Checkpoint,
           BeginCheckpoint, PublishDelta, PublishManifest, Publish, Compaction,
           BeginCompaction, WriteNodes, WriteEdges, WriteVectors, WriteSegment,
           ReplaceManifest, RemoveDeltas, TruncateWal, Crash, Recovery, Open,
           LoadSegments, LoadDeltas, Replay, history, vars
  <2> QED BY <1>2, <2>1
<1>3. ASSUME NEW b \in Batches, apply_write_batch(b), exposure # "lost",
             Closed(committed)
      PROVE  Closed(committed')
  <2>1. /\ pc \in Running /\ validate_batch_against_maps(graph, b)
        /\ committed' = apply_batch_to_maps_unchecked(committed, b)
    BY <1>3 DEF apply_write_batch, Accepted, Running
  <2>2. graph = committed
    BY <1>1, <1>3, <2>1, DurableServes
  <2>3. committed \in Graphs /\ b \in WriteBatches
    BY <1>1, StorageAssumption DEF DurableInv, TypeInv, TypeOK
  <2> QED BY <1>3, <2>1, <2>2, <2>3, ApplyClosed
<1>4. \/ \E b \in Batches : apply_write_batch(b)
      \/ committed' = committed
  BY DEF Next, apply_write_batch_fails, MarkerFails, Checkpoint,
         BeginCheckpoint, PublishDelta, PublishManifest, Publish, Compaction,
         BeginCompaction, WriteNodes, WriteEdges, WriteVectors, WriteSegment,
         ReplaceManifest, RemoveDeltas, TruncateWal, Crash, Recovery, Open,
         LoadSegments, LoadDeltas, Replay, history, vars
<1>5. ASSUME exposure' # "lost" PROVE Closed(committed')
  BY <1>2, <1>3, <1>4, <1>5 DEF ClosedCommitted
<1>6. Closed(committed') <=> Closed(committed)'
  BY DEF Closed, Live
<1> QED BY <1>1, <1>5, <1>6 DEF ClosedCommitted

\* However often the store is compacted, crashed and opened again, an open
\* engine has no edge without its ends until a crash loses an exposed batch.
THEOREM ClosedUnlessShadowed ==
    ASSUME Tolerated
    PROVE  Spec => [](exposure # "lost" => NoDanglingEdges)
<1>1. Init => ClosedCommitted
  BY InitDurable, EmptyGraphFacts DEF Init, ClosedCommitted
<1>2. ClosedCommitted /\ [Next]_vars => ClosedCommitted'
  BY NextClosedCommitted
<1>3. ClosedCommitted => (exposure # "lost" => NoDanglingEdges)
  BY DurableServes DEF ClosedCommitted, NoDanglingEdges, Running
<1> QED BY <1>1, <1>2, <1>3, PTL DEF Spec

-----------------------------------------------------------------------------
(* The engine implements the abstract store                                *)

\* Without compaction nothing is exposed, so what clients see is always what
\* was acknowledged.
LEMMA StoreIsCommitted ==
    ASSUME MaxCompactions = 0, DurableInv
    PROVE  (IF pc \in Down \cup Opening THEN committed ELSE graph) = committed
<1>1. exposure = "none" /\ pc \in PCs
  <2>1. compactions \in Nat /\ compactions <= 0
    BY DEF DurableInv, Counted, TypeInv, TypeOK
  <2>2. compactions = 0
    BY <2>1
  <2> QED BY <2>2 DEF DurableInv, Counted, TypeInv, TypeOK
<1>2. pc \in Down \cup Opening \/ pc \in Running
  BY <1>1 DEF PCs, Running
<1> QED BY <1>1, <1>2, DurableServes

LEMMA StepImplements ==
    ASSUME MaxCompactions = 0, DurableInv, DurableInv', [Next]_vars
    PROVE  [Served!DGNext]_(Served!dgVars)
<1> DEFINE store == IF pc \in Down \cup Opening THEN committed ELSE graph
           up == pc \notin Down \cup Opening
<1>1. store = committed
  BY StoreIsCommitted
<1>2. store' = committed'
  <2>1. (IF pc' \in Down \cup Opening THEN committed' ELSE graph') = committed'
    <3>1. /\ pc' \in Down \cup Opening \/ pc' \in Running
          /\ exposure' = "none"
      <4>1. compactions' \in Nat /\ compactions' <= 0 /\ pc' \in PCs
        BY DEF DurableInv, Counted, TypeInv, TypeOK
      <4>2. compactions' = 0
        BY <4>1
      <4> QED BY <4>1, <4>2 DEF DurableInv, Counted, PCs, Running
    <3>2. pc' \in Running => graph' = committed'
      BY <3>1 DEF DurableInv, DurableHistory, Durable, InMemory
    <3> QED BY <3>1, <3>2
  <2> QED BY <2>1
<1>3. CASE \E b \in Batches : apply_write_batch(b)
  <2>1. PICK b \in Batches : apply_write_batch(b)
    BY <1>3
  <2>2. /\ pc = "ready" /\ pc' = "ready" /\ Normalized(b) /\ b # EmptyBatch
        /\ validate_batch_against_maps(graph, b)
        /\ graph' = apply_batch_to_maps_unchecked(graph, b)
    BY <2>1 DEF apply_write_batch, Accepted
  <2>3. up /\ up' /\ store = graph /\ store' = graph'
    BY <2>2 DEF Down, Opening
  <2>4. /\ Served!Normalized(b) /\ b # Served!EmptyBatch
        /\ Served!validate_batch_against_maps(graph, b)
        /\ graph' = Served!apply_batch_to_maps_unchecked(graph, b)
    BY <2>2 DEF Normalized, Served!Normalized, EmptyBatch, Served!EmptyBatch,
                validate_batch_against_maps, Served!validate_batch_against_maps,
                Live, Served!Live, Upserted, Served!Upserted,
                apply_batch_to_maps_unchecked, Served!apply_batch_to_maps_unchecked,
                Keys, Served!Keys, LastUpsert, Served!LastUpsert,
                Incident, Served!Incident
  <2>5. Served!Commit(b)
    BY <2>3, <2>4 DEF Served!Commit
  <2> QED BY <2>5 DEF Served!DGNext
<1>4. CASE committed' = committed
  <2>1. store' = store
    BY <1>1, <1>2, <1>4
  <2>2. CASE up /\ ~up'
    BY <2>1, <2>2 DEF Served!DGNext, Served!Stop
  <2>3. CASE ~up /\ up'
    BY <2>1, <2>3 DEF Served!DGNext, Served!Start
  <2>4. CASE up' = up
    BY <2>1, <2>4 DEF Served!dgVars
  <2> QED BY <2>2, <2>3, <2>4
<1>5. \/ \E b \in Batches : apply_write_batch(b)
      \/ committed' = committed
  BY DEF Next, apply_write_batch_fails, MarkerFails, Checkpoint,
         BeginCheckpoint, PublishDelta, PublishManifest, Publish, Compaction,
         BeginCompaction, WriteNodes, WriteEdges, WriteVectors, WriteSegment,
         ReplaceManifest, RemoveDeltas, TruncateWal, Crash, Recovery, Open,
         LoadSegments, LoadDeltas, Replay, history, vars
<1> QED BY <1>3, <1>4, <1>5

\* As long as the store is not compacted, what clients see of the engine is
\* the abstract store: whole batches, nothing lost or invented by a crash, a
\* failed write of the log or of the manifest, or an opening.
THEOREM EngineIsDurableGraph ==
    ASSUME Tolerated, MaxCompactions = 0
    PROVE  Spec => ImplementsDurableGraph
<1>1. Init => DurableInv /\ Served!DGInit
  BY InitDurable DEF Init, Served!DGInit, Down, Opening, EmptyGraph,
                     Served!EmptyGraph, Keys, Served!Keys
<1>2. DurableInv /\ [Next]_vars => DurableInv'
  BY NextDurable
<1>3. DurableInv /\ DurableInv' /\ [Next]_vars => [Served!DGNext]_(Served!dgVars)
  BY StepImplements
<1> QED BY <1>1, <1>2, <1>3, PTL DEF Spec, ImplementsDurableGraph, Served!DGSpec
=============================================================================
