------------------------- MODULE TransactionsProofs -------------------------
(***************************************************************************)
(* Snapshot isolation of the transaction layer, for all constants.         *)
(***************************************************************************)
EXTENDS Transactions, GraphProofs

-----------------------------------------------------------------------------
(* Types                                                                   *)

\* Appending to or amending a history gives a history.
LEMMA AppendVersionType ==
    ASSUME NEW h \in Histories, NEW r \in Nat, NEW v \in Values
    PROVE  append_version_entry(h, r, v) \in Histories
<1> DEFINE E == [revision : Nat, value : Values]
           x == [revision |-> r, value |-> v]
<1>1. x \in E /\ h \in Seq(E)
  BY DEF Histories
<1> HIDE DEF E, x
<1>2. Append(h, x) \in Seq(E)
  BY <1>1
<1>3. h # << >> => [h EXCEPT ![Len(h)] = x] \in Seq(E)
  BY <1>1
<1>4. append_version_entry(h, r, v) \in Seq(E)
  BY <1>2, <1>3 DEF append_version_entry, x
<1> QED BY <1>4 DEF Histories, E

LEMMA GraphValue ==
    ASSUME NEW g \in Graphs, NEW k \in Keys
    PROVE  g[k] \in Values
BY DEF Graphs, Values

LEMMA PreserveType ==
    ASSUME TypeOK, NEW effects
    PROVE  preserve_historical_versions(effects) \in [Keys -> Histories]
<1>1. ASSUME NEW k \in Keys, lineage[k] # NoRevision
      PROVE  append_version_entry(versions[k], lineage[k], graph[k]) \in Histories
  <2>1. versions[k] \in Histories /\ lineage[k] \in Nat /\ graph \in Graphs
    BY <1>1 DEF TypeOK, Revisions
  <2> QED BY <2>1, AppendVersionType, GraphValue
<1>2. versions \in [Keys -> Histories]
  BY DEF TypeOK
<1> HIDE DEF Histories
<1> QED BY <1>1, <1>2 DEF preserve_historical_versions

LEMMA RecordType ==
    ASSUME NEW h \in [Keys -> Histories], NEW effects, NEW g \in Graphs,
           NEW r \in Nat
    PROVE  record_versions_after_commit(h, effects, g, r) \in [Keys -> Histories]
<1>1. ASSUME NEW k \in Keys
      PROVE  append_version_entry(h[k], r, g[k]) \in Histories
  BY AppendVersionType, GraphValue
<1> QED BY <1>1 DEF record_versions_after_commit

LEMMA HistoryAfterType ==
    ASSUME TypeOK, NEW b \in WriteBatches, NEW readers
    PROVE  HistoryAfter(b, readers) \in [Keys -> Histories]
<1>1. apply_batch_to_maps_unchecked(graph, b) \in Graphs
  BY ApplyType DEF TypeOK
<1>2. preserve_historical_versions(batch_effects(graph, b)) \in [Keys -> Histories]
  BY PreserveType
<1>3. versions \in [Keys -> Histories] /\ next_lsn \in Nat
  BY DEF TypeOK
<1> QED BY <1>1, <1>2, <1>3, RecordType DEF HistoryAfter

LEMMA ApplyBatchType ==
    ASSUME TypeOK, NEW b \in WriteBatches, ApplyBatch(b)
    PROVE  /\ graph' \in Graphs
           /\ lineage' \in [Keys -> Revisions]
           /\ commit_revision' \in Nat
           /\ next_lsn' \in Nat \ {0}
<1>1. graph' \in Graphs
  BY ApplyType DEF ApplyBatch, TypeOK
<1>2. lineage' \in [Keys -> Revisions]
  BY DEF ApplyBatch, TypeOK, update_lineage_for_batch, Revisions
<1> QED BY <1>1, <1>2 DEF ApplyBatch, TypeOK

\* The history a session leaves behind.
LEMMA HistoryWithoutType ==
    ASSUME NEW t, NEW h \in [Keys -> Histories]
    PROVE  HistoryWithout(t, h) \in [Keys -> Histories]
<1>1. << >> \in Histories
  BY DEF Histories
<1> HIDE DEF Histories
<1> QED BY <1>1 DEF HistoryWithout

LEMMA OpenSession ==
    ASSUME TypeOK, NEW t \in Open
    PROVE  t \in TransactionIds /\ transactions[t] \in Sessions
BY DEF TypeOK, Open

LEMMA StagedType ==
    ASSUME NEW s \in Sessions, NEW D \in SUBSET Keys, NEW o \in [D -> Values],
           NEW b \in WriteBatches
    PROVE  Staged(s, o, b) \in Sessions
<1> DEFINE ns == s.staged.nodes_upserted \o b.nodes_upserted
           es == s.staged.edges_upserted \o b.edges_upserted
<1>1. s.staged \in WriteBatches
  BY DEF Sessions
<1>2. ns \in Seq([id : NodeIds, value : NodeRecords])
  <2> DEFINE S == [id : NodeIds, value : NodeRecords]
  <2>1. s.staged.nodes_upserted \in Seq(S) /\ b.nodes_upserted \in Seq(S)
    BY <1>1 DEF WriteBatches
  <2> HIDE DEF S
  <2>2. ns \in Seq(S)
    BY <2>1
  <2> QED BY <2>2 DEF S
<1>3. es \in Seq([id : EdgeIds, value : EdgeRecords])
  <2> DEFINE S == [id : EdgeIds, value : EdgeRecords]
  <2>1. s.staged.edges_upserted \in Seq(S) /\ b.edges_upserted \in Seq(S)
    BY <1>1 DEF WriteBatches
  <2> HIDE DEF S
  <2>2. es \in Seq(S)
    BY <2>1
  <2> QED BY <2>2 DEF S
<1> DEFINE batch == [nodes_upserted |-> ns, edges_upserted |-> es,
                     deleted_node_ids |-> s.staged.deleted_node_ids
                                             \cup b.deleted_node_ids,
                     deleted_edge_ids |-> s.staged.deleted_edge_ids
                                             \cup b.deleted_edge_ids]
           over == [k \in Keys |-> IF k \in DOMAIN o THEN o[k] ELSE s.overrides[k]]
<1>4. batch \in WriteBatches
  BY <1>1, <1>2, <1>3 DEF WriteBatches
<1>5. over \in [Keys -> Values]
  BY DEF Sessions
<1>6. BatchKeys(b) \subseteq Keys
  <2>1. \A n \in Upserted(b.nodes_upserted) : n \in NodeIds
    BY UpsertedNode
  <2>2. \A e \in Upserted(b.edges_upserted) : e \in EdgeIds
    BY UpsertedEdge
  <2> QED BY <2>1, <2>2 DEF BatchKeys, Keys, WriteBatches
<1>7. Staged(s, o, b) =
        [started |-> s.started, overridden |-> s.overridden \cup D,
         overrides |-> over, staged |-> batch,
         touched |-> s.touched \cup BatchKeys(b) \cup D,
         snapshot |-> s.snapshot]
  BY DEF Staged
<1> HIDE DEF batch, over
<1> QED BY <1>4, <1>5, <1>6, <1>7 DEF Sessions

\* What staging an operation leaves alone, and the session it leaves.
LEMMA StageType ==
    ASSUME TypeOK, NEW t \in Open, NEW D \in SUBSET Keys,
           NEW o \in [D -> Values], NEW b \in WriteBatches, Stage(t, o, b)
    PROVE  TypeOK'
<1>1. transactions[t] \in Sessions /\ t \in TransactionIds
  BY OpenSession
<1>2. Staged(transactions[t], o, b) \in Sessions
  BY <1>1, StagedType
<1>3. transactions' \in [TransactionIds -> Sessions \cup {Absent}]
  BY <1>1, <1>2 DEF Stage, TypeOK
<1> QED BY <1>3 DEF Stage, TypeOK

\* The batches that single operations stage.
LEMMA OperationBatchTypes ==
    /\ \A n \in NodeIds, node \in NodeRecords :
          [EmptyBatch EXCEPT !.nodes_upserted = << [id |-> n, value |-> node] >>]
              \in WriteBatches
    /\ \A e \in EdgeIds, edge \in EdgeRecords :
          [EmptyBatch EXCEPT !.edges_upserted = << [id |-> e, value |-> edge] >>]
              \in WriteBatches
    /\ \A n \in NodeIds :
          [EmptyBatch EXCEPT !.deleted_node_ids = {n}] \in WriteBatches
    /\ \A e \in EdgeIds :
          [EmptyBatch EXCEPT !.deleted_edge_ids = {e}] \in WriteBatches
<1> DEFINE N == [id : NodeIds, value : NodeRecords]
           E == [id : EdgeIds, value : EdgeRecords]
<1>1. \A n \in NodeIds, node \in NodeRecords : [id |-> n, value |-> node] \in N
  OBVIOUS
<1>2. \A e \in EdgeIds, edge \in EdgeRecords : [id |-> e, value |-> edge] \in E
  OBVIOUS
<1>3. WriteBatches = [nodes_upserted : Seq(N), edges_upserted : Seq(E),
                      deleted_node_ids : SUBSET NodeIds,
                      deleted_edge_ids : SUBSET EdgeIds]
  BY DEF WriteBatches
<1> HIDE DEF N, E
<1>4. \A x \in N : << x >> \in Seq(N)
  OBVIOUS
<1>5. \A x \in E : << x >> \in Seq(E)
  OBVIOUS
<1>6. << >> \in Seq(N) /\ << >> \in Seq(E)
  OBVIOUS
<1>7. ASSUME NEW n \in NodeIds, NEW node \in NodeRecords
      PROVE  [EmptyBatch EXCEPT !.nodes_upserted = << [id |-> n, value |-> node] >>]
                 \in WriteBatches
  <2> DEFINE x == << [id |-> n, value |-> node] >>
  <2>1. x \in Seq(N)
    BY <1>1, <1>4
  <2> HIDE DEF x
  <2>2. [EmptyBatch EXCEPT !.nodes_upserted = x] \in WriteBatches
    BY <1>3, <1>6, <2>1 DEF EmptyBatch
  <2> QED BY <2>2 DEF x
<1>8. ASSUME NEW e \in EdgeIds, NEW edge \in EdgeRecords
      PROVE  [EmptyBatch EXCEPT !.edges_upserted = << [id |-> e, value |-> edge] >>]
                 \in WriteBatches
  <2> DEFINE x == << [id |-> e, value |-> edge] >>
  <2>1. x \in Seq(E)
    BY <1>2, <1>5
  <2> HIDE DEF x
  <2>2. [EmptyBatch EXCEPT !.edges_upserted = x] \in WriteBatches
    BY <1>3, <1>6, <2>1 DEF EmptyBatch
  <2> QED BY <2>2 DEF x
<1>9. ASSUME NEW n \in NodeIds
      PROVE  [EmptyBatch EXCEPT !.deleted_node_ids = {n}] \in WriteBatches
  BY <1>3, <1>6 DEF EmptyBatch
<1>10. ASSUME NEW e \in EdgeIds
       PROVE  [EmptyBatch EXCEPT !.deleted_edge_ids = {e}] \in WriteBatches
  BY <1>3, <1>6 DEF EmptyBatch
<1> QED BY <1>7, <1>8, <1>9, <1>10

LEMMA StageOperationType ==
    ASSUME TypeOK, NEW t \in TransactionIds, StageOperation(t)
    PROVE  TypeOK'
<1>1. ASSUME NEW n \in NodeIds, NEW node \in NodeRecords,
             StageUpsertNode(t, n, node)
      PROVE  TypeOK'
  <2>1. {n} \in SUBSET Keys /\ [k \in {n} |-> node] \in [{n} -> Values]
    BY DEF Keys, Values
  <2>2. t \in Open
    BY <1>1 DEF StageUpsertNode, MayStage
  <2> QED BY <1>1, <2>1, <2>2, OperationBatchTypes, StageType
          DEF StageUpsertNode
<1>2. ASSUME NEW e \in EdgeIds, NEW edge \in EdgeRecords,
             StageUpsertEdge(t, e, edge)
      PROVE  TypeOK'
  <2>1. {e} \in SUBSET Keys /\ [k \in {e} |-> edge] \in [{e} -> Values]
    BY DEF Keys, Values
  <2>2. t \in Open
    BY <1>2 DEF StageUpsertEdge, MayStage
  <2> QED BY <1>2, <2>1, <2>2, OperationBatchTypes, StageType
          DEF StageUpsertEdge
<1>3. ASSUME NEW edge \in EdgeRecords, StageRejected(t, edge) PROVE TypeOK'
  BY <1>3 DEF StageRejected, TypeOK
<1>4. ASSUME NEW n \in NodeIds, StageDeleteNode(t, n) PROVE TypeOK'
  <2> DEFINE D == {n} \cup transaction_incident_edge_ids(transactions[t], n)
  <2>1. D \in SUBSET Keys
    BY DEF Keys, transaction_incident_edge_ids
  <2>2. [k \in D |-> Absent] \in [D -> Values]
    BY DEF Values
  <2>3. t \in Open
    BY <1>4 DEF StageDeleteNode, MayStage
  <2>4. Stage(t, [k \in D |-> Absent],
              [EmptyBatch EXCEPT !.deleted_node_ids = {n}])
    BY <1>4 DEF StageDeleteNode
  <2> HIDE DEF D
  <2> QED BY <2>1, <2>2, <2>3, <2>4, OperationBatchTypes, StageType
<1>5. ASSUME NEW e \in EdgeIds, StageDeleteEdge(t, e) PROVE TypeOK'
  <2>1. {e} \in SUBSET Keys /\ [k \in {e} |-> Absent] \in [{e} -> Values]
    BY DEF Keys, Values
  <2>2. t \in Open
    BY <1>5 DEF StageDeleteEdge, MayStage
  <2> QED BY <1>5, <2>1, <2>2, OperationBatchTypes, StageType
          DEF StageDeleteEdge
<1> QED BY <1>1, <1>2, <1>3, <1>4, <1>5 DEF StageOperation

LEMMA ApplyFailsType ==
    ASSUME TypeOK, NEW b, NEW readers, ApplyFails(b, readers)
    PROVE  TypeOK'
<1>1. preserve_historical_versions(batch_effects(graph, b)) \in [Keys -> Histories]
  BY PreserveType
<1>2. versions' \in [Keys -> Histories]
  BY <1>1 DEF ApplyFails, TypeOK
<1> QED BY <1>2 DEF ApplyFails, TypeOK

LEMMA InitType ==
    ASSUME Init
    PROVE  TypeOK
<1>1. versions \in [Keys -> Histories]
  <2>1. << >> \in Histories
    BY DEF Histories
  <2> HIDE DEF Histories
  <2> QED BY <2>1 DEF Init
<1>2. graph \in Graphs
  BY TransactionsAssumption DEF Init
<1>3. lineage \in [Keys -> Revisions]
  BY TransactionsAssumption DEF Init, Revisions
<1> QED BY <1>1, <1>2, <1>3, TransactionsAssumption DEF Init, TypeOK

LEMMA NextType ==
    ASSUME TypeOK, [Next]_vars
    PROVE  TypeOK'
<1>1. ASSUME NEW b \in Batches, apply_write_batch(b) PROVE TypeOK'
  <2>1. b \in WriteBatches /\ ApplyBatch(b)
    BY <1>1, TransactionsAssumption DEF apply_write_batch
  <2>2. versions' \in [Keys -> Histories]
    BY <1>1, <2>1, HistoryAfterType DEF apply_write_batch
  <2> QED BY <1>1, <2>1, <2>2, ApplyBatchType DEF apply_write_batch, TypeOK
<1>2. ASSUME NEW b \in Batches, apply_write_batch_fails(b) PROVE TypeOK'
  BY <1>2, ApplyFailsType DEF apply_write_batch_fails
<1>3. ASSUME NEW t \in TransactionIds, begin_transaction(t) PROVE TypeOK'
  <2> DEFINE new == [started |-> commit_revision, overridden |-> {},
                     overrides |-> EmptyGraph, staged |-> EmptyBatch,
                     touched |-> {}, snapshot |-> graph]
  <2>1. EmptyGraph \in [Keys -> Values] /\ graph \in [Keys -> Values]
    BY DEF EmptyGraph, Values, TypeOK, Graphs
  <2>2. new \in Sessions
    BY <2>1, EmptyBatchFacts DEF Sessions, TypeOK
  <2>3. transactions' = [transactions EXCEPT ![t] = new]
    BY <1>3 DEF begin_transaction
  <2> HIDE DEF new
  <2>4. transactions' \in [TransactionIds -> Sessions \cup {Absent}]
    BY <2>2, <2>3 DEF TypeOK
  <2> QED BY <1>3, <2>4 DEF begin_transaction, TypeOK
<1>4. ASSUME NEW t \in TransactionIds, StageOperation(t) PROVE TypeOK'
  BY <1>4, StageOperationType
<1>5. ASSUME NEW t \in TransactionIds, commit_transaction(t) PROVE TypeOK'
  <2>1. t \in Open /\ transactions[t] \in Sessions
    BY <1>5, OpenSession DEF commit_transaction
  <2>2. transactions[t].staged \in WriteBatches
    BY <2>1 DEF Sessions
  <2>3. ApplyBatch(transactions[t].staged)
    BY <1>5 DEF commit_transaction
  <2>4. versions' \in [Keys -> Histories]
    BY <1>5, <2>2, HistoryAfterType, HistoryWithoutType DEF commit_transaction
  <2>5. transactions' \in [TransactionIds -> Sessions \cup {Absent}]
    BY <1>5 DEF commit_transaction, TypeOK
  <2> QED BY <1>5, <2>2, <2>3, <2>4, <2>5, ApplyBatchType
          DEF commit_transaction, TypeOK
<1>6. ASSUME NEW t \in TransactionIds, commit_transaction_fails(t) PROVE TypeOK'
  BY <1>6, ApplyFailsType DEF commit_transaction_fails
<1>7. ASSUME NEW t \in TransactionIds, rollback_transaction(t) PROVE TypeOK'
  <2>1. versions' \in [Keys -> Histories]
    BY <1>7, HistoryWithoutType DEF rollback_transaction, TypeOK
  <2>2. transactions' \in [TransactionIds -> Sessions \cup {Absent}]
    BY <1>7 DEF rollback_transaction, TypeOK
  <2> QED BY <1>7, <2>1, <2>2 DEF rollback_transaction, TypeOK
<1>8. ASSUME checkpoint PROVE TypeOK'
  BY <1>8 DEF checkpoint, TypeOK
<1>9. ASSUME compact PROVE TypeOK'
  BY <1>9 DEF compact, TypeOK
<1>10. ASSUME UNCHANGED vars PROVE TypeOK'
  BY <1>10 DEF vars, TypeOK
<1> QED BY <1>1, <1>2, <1>3, <1>4, <1>5, <1>6, <1>7, <1>8, <1>9, <1>10 DEF Next

\* Every variable of the transaction layer keeps its type.
THEOREM TypeCorrect == Spec => []TypeOK
<1>1. Init => TypeOK
  BY InitType
<1>2. TypeOK /\ [Next]_vars => TypeOK'
  BY NextType
<1> QED BY <1>1, <1>2, PTL DEF Spec

-----------------------------------------------------------------------------
(* The live graph                                                          *)

\* Direct writes and commits of sessions, which validate the staged batch
\* against the live graph again, leave no edge without its end points, however
\* they interleave and whatever is staged, refused or compacted.
THEOREM GraphStaysClosed == Spec => []NoDanglingEdges
<1>1. Init => NoDanglingEdges
  BY TransactionsAssumption DEF Init, NoDanglingEdges
<1>2. TypeOK /\ NoDanglingEdges /\ [Next]_vars => NoDanglingEdges'
  <2> SUFFICES ASSUME TypeOK, NoDanglingEdges, [Next]_vars
               PROVE  NoDanglingEdges'
    OBVIOUS
  <2>1. ASSUME NEW b \in WriteBatches, ApplyBatch(b) PROVE NoDanglingEdges'
    BY <2>1, ApplyClosed DEF ApplyBatch, Accepted, TypeOK, NoDanglingEdges
  <2>2. ASSUME NEW b \in Batches, apply_write_batch(b) PROVE NoDanglingEdges'
    BY <2>1, <2>2, TransactionsAssumption DEF apply_write_batch
  <2>3. ASSUME NEW t \in TransactionIds, commit_transaction(t)
        PROVE  NoDanglingEdges'
    <3>1. transactions[t].staged \in WriteBatches
      BY <2>3, OpenSession DEF commit_transaction, Sessions
    <3> QED BY <2>1, <2>3, <3>1 DEF commit_transaction
  <2>4. ASSUME UNCHANGED graph PROVE NoDanglingEdges'
    BY <2>4 DEF NoDanglingEdges, Closed, Live
  <2> QED BY <2>2, <2>3, <2>4
          DEF Next, StageOperation, apply_write_batch_fails, ApplyFails,
              begin_transaction, StageUpsertNode, StageUpsertEdge, Stage,
              StageRejected, StageDeleteNode, StageDeleteEdge,
              commit_transaction_fails, rollback_transaction, checkpoint,
              compact, vars
<1> QED BY <1>1, <1>2, TypeCorrect, PTL DEF Spec

-----------------------------------------------------------------------------
(* Histories                                                               *)

\* What appending to or amending a history leaves.
LEMMA AppendVersionFacts ==
    ASSUME NEW h \in Histories, NEW r \in Nat, NEW v \in Values
    PROVE  LET a == append_version_entry(h, r, v)
               n == Len(a)
           IN  /\ n \in Nat \ {0}
               /\ DOMAIN a = 1 .. n
               /\ a[n].revision = r /\ a[n].value = v
               /\ \A i \in 1 .. (n - 1) : i \in DOMAIN h /\ a[i] = h[i]
               /\ \A i \in DOMAIN h : i \in 1 .. n
               /\ \A i \in DOMAIN h : i = n => h[i].revision = r
<1> DEFINE E == [revision : Nat, value : Values]
           x == [revision |-> r, value |-> v]
           a == append_version_entry(h, r, v)
<1>1. x \in E /\ h \in Seq(E) /\ x.revision = r /\ x.value = v
  BY DEF Histories
<1>2. a = IF h # << >> /\ h[Len(h)].revision = r
          THEN [h EXCEPT ![Len(h)] = x] ELSE Append(h, x)
  BY DEF append_version_entry
<1> HIDE DEF E, x, a
<1>3. CASE h # << >> /\ h[Len(h)].revision = r
  <2>1. Len(h) \in Nat \ {0} /\ DOMAIN h = 1 .. Len(h)
    BY <1>1, <1>3
  <2>2. a = [h EXCEPT ![Len(h)] = x]
    BY <1>2, <1>3
  <2>3. a \in Seq(E) /\ Len(a) = Len(h) /\ DOMAIN a = 1 .. Len(h)
    BY <1>1, <2>1, <2>2
  <2>4. a[Len(h)] = x /\ \A i \in 1 .. (Len(h) - 1) : a[i] = h[i]
    <3> DEFINE n == Len(h)
    <3>1. n \in Nat \ {0} /\ DOMAIN h = 1 .. n
      BY <2>1
    <3> HIDE DEF n
    <3>2. n \in DOMAIN h /\ \A i \in 1 .. (n - 1) : i \in DOMAIN h /\ i # n
      BY <3>1
    <3>3. a = [h EXCEPT ![n] = x]
      BY <2>2 DEF n
    <3>4. a[n] = x /\ \A i \in DOMAIN h : i # n => a[i] = h[i]
      BY <3>2, <3>3
    <3> QED BY <3>2, <3>4 DEF n
  <2> QED BY <1>1, <1>3, <2>1, <2>3, <2>4 DEF a
<1>4. CASE ~(h # << >> /\ h[Len(h)].revision = r)
  <2>1. Len(h) \in Nat /\ DOMAIN h = 1 .. Len(h)
    BY <1>1
  <2>2. a = Append(h, x)
    BY <1>2, <1>4
  <2>3. a \in Seq(E) /\ Len(a) = Len(h) + 1 /\ DOMAIN a = 1 .. (Len(h) + 1)
    BY <1>1, <2>1, <2>2
  <2>4. a[Len(h) + 1] = x /\ \A i \in 1 .. Len(h) : a[i] = h[i]
    BY <1>1, <2>1, <2>2
  <2> QED BY <1>1, <2>1, <2>3, <2>4 DEF a
<1> QED BY <1>3, <1>4

LEMMA HistoryFacts ==
    ASSUME NEW h \in Histories
    PROVE  /\ Len(h) \in Nat
           /\ DOMAIN h = 1 .. Len(h)
           /\ \A i \in DOMAIN h : h[i].revision \in Nat /\ h[i].value \in Values
<1> DEFINE E == [revision : Nat, value : Values]
<1>1. h \in Seq(E) /\ \A x \in E : x.revision \in Nat /\ x.value \in Values
  BY DEF Histories
<1> HIDE DEF E
<1> QED BY <1>1

\* The newest entry at or before a revision, without the choice.
LEMMA LatestVersionIs ==
    ASSUME NEW h \in Histories, NEW q \in Nat, NEW i \in DOMAIN h,
           h[i].revision <= q,
           \A j \in DOMAIN h : j > i => ~(h[j].revision <= q)
    PROVE  LatestVersion(h, q) = h[i].value
<1> DEFINE old == {j \in DOMAIN h : h[j].revision <= q}
           m == CHOOSE j \in old : \A l \in old : l <= j
<1>1. DOMAIN h = 1 .. Len(h) /\ Len(h) \in Nat
  BY HistoryFacts
<1>2. i \in old /\ \A l \in old : l <= i
  BY <1>1
<1>3. m \in old /\ \A l \in old : l <= m
  BY <1>2
<1>4. m = i
  BY <1>1, <1>2, <1>3
<1> QED BY <1>2, <1>4 DEF LatestVersion

LEMMA LatestVersionNone ==
    ASSUME NEW h, NEW q, \A j \in DOMAIN h : ~(h[j].revision <= q)
    PROVE  LatestVersion(h, q) = Absent
BY DEF LatestVersion

LEMMA LatestVersionExists ==
    ASSUME NEW h \in Histories, NEW q \in Nat
    PROVE  \/ \A j \in DOMAIN h : ~(h[j].revision <= q)
           \/ \E i \in DOMAIN h :
                 /\ h[i].revision <= q
                 /\ \A j \in DOMAIN h : j > i => ~(h[j].revision <= q)
<1> DEFINE old == {j \in DOMAIN h : h[j].revision <= q}
<1>1. DOMAIN h = 1 .. Len(h) /\ Len(h) \in Nat
  BY HistoryFacts
<1>2. CASE old = {}
  BY <1>2
<1>3. CASE old # {}
  <2>1. old \in SUBSET (1 .. Len(h))
    BY <1>1
  <2>2. PICK x \in old : \A y \in old : y <= x
    <3> HIDE DEF old
    <3> QED BY <1>1, <1>3, <2>1, GreatestNatural
  <2>3. \A j \in DOMAIN h : j > x => j \notin old
    BY <1>1, <2>1, <2>2
  <2> QED BY <2>2, <2>3
<1> QED BY <1>2, <1>3

\* A history of absences shows nothing.
LEMMA AbsentHistory ==
    ASSUME NEW h \in Histories, NEW q \in Nat,
           \A i \in DOMAIN h : h[i].value = Absent
    PROVE  LatestVersion(h, q) = Absent
BY LatestVersionIs, LatestVersionNone, LatestVersionExists

\* A deletion appended to a history of nothing leaves a history of nothing.
LEMMA AbsentAppended ==
    ASSUME NEW h \in Histories, NEW r \in Nat, NEW v \in Values
    PROVE  v = Absent /\ (\A j \in DOMAIN h : h[j].value = Absent) =>
               \A i \in DOMAIN append_version_entry(h, r, v) :
                   append_version_entry(h, r, v)[i].value = Absent
<1> DEFINE a == append_version_entry(h, r, v)
           n == Len(a)
<1>1. /\ n \in Nat \ {0}
      /\ DOMAIN a = 1 .. n
      /\ a[n].revision = r /\ a[n].value = v
      /\ \A i \in 1 .. (n - 1) : i \in DOMAIN h /\ a[i] = h[i]
      /\ \A i \in DOMAIN h : i \in 1 .. n
      /\ \A i \in DOMAIN h : i = n => h[i].revision = r
  BY AppendVersionFacts
<1> HIDE DEF a, n
<1> SUFFICES ASSUME v = Absent, \A j \in DOMAIN h : h[j].value = Absent,
                    NEW i \in DOMAIN a
             PROVE  a[i].value = Absent
  BY DEF a
<1>2. i = n \/ i \in 1 .. (n - 1)
  BY <1>1
<1> QED BY <1>1, <1>2

\* An entry later than the revision a session reads is invisible to it.
LEMMA LaterEntryInvisible ==
    ASSUME NEW h \in Histories, NEW r \in Nat, NEW v \in Values, NEW q \in Nat,
           q < r
    PROVE  LatestVersion(append_version_entry(h, r, v), q) = LatestVersion(h, q)
<1> DEFINE a == append_version_entry(h, r, v)
           n == Len(a)
<1>1. /\ n \in Nat \ {0}
      /\ DOMAIN a = 1 .. n
      /\ a[n].revision = r
      /\ \A i \in 1 .. (n - 1) : i \in DOMAIN h /\ a[i] = h[i]
      /\ \A i \in DOMAIN h : i \in 1 .. n
      /\ \A i \in DOMAIN h : i = n => h[i].revision = r
  BY AppendVersionFacts
<1>2. a \in Histories
  BY AppendVersionType
<1> HIDE DEF a, n
<1>3. \A i \in DOMAIN h : h[i].revision <= q => i \in 1 .. (n - 1)
  BY <1>1
<1>4. \A i \in DOMAIN a : a[i].revision <= q => i \in 1 .. (n - 1)
  BY <1>1
<1>5. CASE \A j \in DOMAIN h : ~(h[j].revision <= q)
  <2>1. \A j \in DOMAIN a : ~(a[j].revision <= q)
    BY <1>1, <1>4, <1>5
  <2> QED BY <1>5, <2>1, LatestVersionNone DEF a
<1>6. ASSUME NEW i \in DOMAIN h, h[i].revision <= q,
             \A j \in DOMAIN h : j > i => ~(h[j].revision <= q)
      PROVE  LatestVersion(a, q) = LatestVersion(h, q)
  <2>1. i \in DOMAIN a /\ a[i] = h[i] /\ a[i].revision <= q
    BY <1>1, <1>3, <1>6
  <2>2. \A j \in DOMAIN a : j > i => ~(a[j].revision <= q)
    BY <1>1, <1>4, <1>6
  <2>3. LatestVersion(a, q) = a[i].value
    BY <1>2, <2>1, <2>2, LatestVersionIs
  <2>4. LatestVersion(h, q) = h[i].value
    BY <1>6, LatestVersionIs
  <2> QED BY <2>1, <2>3, <2>4
<1> QED BY <1>5, <1>6, LatestVersionExists DEF a

\* An entry at or before it is what the session reads.
LEMMA EarlierEntryVisible ==
    ASSUME NEW h \in Histories, NEW r \in Nat, NEW v \in Values, NEW q \in Nat,
           r <= q
    PROVE  LatestVersion(append_version_entry(h, r, v), q) = v
<1> DEFINE a == append_version_entry(h, r, v)
           n == Len(a)
<1>1. /\ n \in Nat \ {0}
      /\ DOMAIN a = 1 .. n
      /\ a[n].revision = r /\ a[n].value = v
  BY AppendVersionFacts
<1>2. a \in Histories
  BY AppendVersionType
<1> HIDE DEF a, n
<1>3. n \in DOMAIN a /\ a[n].revision <= q
      /\ \A j \in DOMAIN a : j > n => ~(a[j].revision <= q)
  BY <1>1
<1>4. LatestVersion(a, q) = a[n].value
  BY <1>2, <1>3, LatestVersionIs
<1> QED BY <1>1, <1>4 DEF a

-----------------------------------------------------------------------------
(* Snapshot isolation                                                      *)

\* Whatever is live has a revision.
LineageTotal == \A k \in Keys : Live(graph, k) => lineage[k] # NoRevision

\* A key without a revision never had a value that a history could show.
UnbornHistory ==
    \A k \in Keys : lineage[k] = NoRevision =>
        \A i \in DOMAIN versions[k] : versions[k][i].value = Absent

\* As long as the log never starts again, revisions only grow: none is ahead
\* of commit_revision and the next one is.
RevisionsGrow ==
    /\ compactions = 0
    /\ commit_revision < next_lsn
    /\ \A k \in Keys : lineage[k] <= commit_revision
    /\ \A t \in Open : transactions[t].started <= commit_revision

IsolationInv ==
    TypeOK /\ LineageTotal /\ UnbornHistory /\ RevisionsGrow /\ SnapshotStable

\* A batch leaves alone the keys that batch_effects does not report.
LEMMA EffectsComplete ==
    ASSUME NEW g \in Graphs, NEW b \in WriteBatches, NEW k \in Keys,
           k \notin batch_effects(g, b)
    PROVE  apply_batch_to_maps_unchecked(g, b)[k] = g[k]
<1>1. CASE k \in NodeIds
  BY <1>1, AppliedNode DEF batch_effects, BatchKeys
<1>2. CASE k \in EdgeIds
  BY <1>2, AppliedEdge DEF batch_effects, BatchKeys, Live
<1> QED BY <1>1, <1>2 DEF Keys

\* Preserving the value a write is about to replace changes nothing that an
\* open session reads.
LEMMA PreserveVisible ==
    ASSUME TypeOK, NEW k \in Keys, NEW q \in Nat, NEW effects,
           ~(lineage[k] # NoRevision /\ lineage[k] <= q)
    PROVE  LatestVersion(preserve_historical_versions(effects)[k], q)
             = LatestVersion(versions[k], q)
<1>1. versions[k] \in Histories /\ graph[k] \in Values /\ lineage[k] \in Revisions
  BY GraphValue DEF TypeOK
<1>2. CASE k \in effects /\ lineage[k] # NoRevision
  <2>1. lineage[k] \in Nat /\ q < lineage[k]
    BY <1>1, <1>2 DEF Revisions
  <2>2. LatestVersion(append_version_entry(versions[k], lineage[k], graph[k]), q)
          = LatestVersion(versions[k], q)
    BY <1>1, <2>1, LaterEntryInvisible
  <2> QED BY <1>2, <2>2 DEF preserve_historical_versions
<1>3. CASE ~(k \in effects /\ lineage[k] # NoRevision)
  BY <1>3 DEF preserve_historical_versions
<1> QED BY <1>2, <1>3

\* A write that keeps history changes nothing a session of an earlier revision
\* reads.
LEMMA WriteInvisible ==
    ASSUME TypeOK, NEW b \in WriteBatches, ApplyBatch(b), NEW readers,
           readers # {}, NEW k \in Keys, NEW q \in Nat, q < next_lsn,
           versions' = HistoryAfter(b, readers)
    PROVE  visible_value_at_revision(k, q)' = visible_value_at_revision(k, q)
<1> DEFINE effects == batch_effects(graph, b)
           after == apply_batch_to_maps_unchecked(graph, b)
           kept == preserve_historical_versions(effects)
<1>1. /\ graph' = after
      /\ lineage' = update_lineage_for_batch(effects, after, next_lsn)
      /\ versions' = record_versions_after_commit(kept, effects, after, next_lsn)
  BY DEF ApplyBatch, HistoryAfter
<1>2. /\ after \in Graphs /\ after[k] \in Values /\ graph[k] \in Values
      /\ next_lsn \in Nat /\ lineage[k] \in Revisions
      /\ versions[k] \in Histories
  BY ApplyType, GraphValue DEF TypeOK
<1>3. kept \in [Keys -> Histories]
  BY PreserveType
<1>4. k \notin effects => after[k] = graph[k]
  BY EffectsComplete DEF TypeOK
<1>5. k \notin effects => kept[k] = versions[k]
  BY DEF preserve_historical_versions
<1>6. k \in effects /\ lineage[k] # NoRevision
        => kept[k] = append_version_entry(versions[k], lineage[k], graph[k])
  BY DEF preserve_historical_versions
<1>7. ~(lineage[k] # NoRevision /\ lineage[k] <= q)
        => LatestVersion(kept[k], q) = LatestVersion(versions[k], q)
  BY PreserveVisible
<1> HIDE DEF effects, after, kept
<1>8. CASE k \notin effects
  <2>1. lineage'[k] = lineage[k] /\ versions'[k] = kept[k] /\ graph'[k] = graph[k]
    BY <1>1, <1>4, <1>8 DEF update_lineage_for_batch, record_versions_after_commit
  <2> QED BY <1>5, <1>8, <2>1 DEF visible_value_at_revision
<1>9. CASE k \in effects
  <2>1. versions'[k] = append_version_entry(kept[k], next_lsn, after[k])
    BY <1>1, <1>9 DEF record_versions_after_commit
  <2>2. LatestVersion(versions'[k], q) = LatestVersion(kept[k], q)
    BY <1>2, <1>3, <2>1, LaterEntryInvisible
  <2>3. lineage'[k] = next_lsn \/ (lineage'[k] = lineage[k] /\ lineage[k] = NoRevision)
    BY <1>1, <1>9 DEF update_lineage_for_batch, Keys
  <2>4. visible_value_at_revision(k, q)' = LatestVersion(kept[k], q)
    BY <1>2, <2>2, <2>3 DEF visible_value_at_revision
  <2>5. CASE lineage[k] # NoRevision /\ lineage[k] <= q
    <3>1. lineage[k] \in Nat
      BY <1>2, <2>5 DEF Revisions
    <3>2. LatestVersion(kept[k], q) = graph[k]
      BY <1>2, <1>6, <1>9, <2>5, <3>1, EarlierEntryVisible
    <3> QED BY <2>4, <2>5, <3>2 DEF visible_value_at_revision
  <2>6. CASE ~(lineage[k] # NoRevision /\ lineage[k] <= q)
    BY <1>7, <2>4, <2>6 DEF visible_value_at_revision
  <2> QED BY <2>5, <2>6
<1> QED BY <1>8, <1>9

\* A write gives a revision to whatever it leaves live.
LEMMA WriteLineageTotal ==
    ASSUME TypeOK, LineageTotal, NEW b \in WriteBatches, ApplyBatch(b)
    PROVE  LineageTotal'
<1> DEFINE effects == batch_effects(graph, b)
           after == apply_batch_to_maps_unchecked(graph, b)
<1>1. /\ graph' = after
      /\ lineage' = update_lineage_for_batch(effects, after, next_lsn)
  BY DEF ApplyBatch
<1>2. \A k \in Keys : k \notin effects => after[k] = graph[k]
  BY EffectsComplete DEF TypeOK
<1>3. next_lsn # NoRevision
  BY DEF TypeOK, NoRevision
<1> HIDE DEF effects, after
<1>4. ASSUME NEW k \in Keys, Live(after, k) PROVE lineage'[k] # NoRevision
  <2>1. CASE k \in effects
    BY <1>1, <1>3, <1>4, <2>1 DEF update_lineage_for_batch
  <2>2. CASE k \notin effects
    BY <1>1, <1>2, <1>4, <2>2 DEF update_lineage_for_batch, LineageTotal, Live
  <2> QED BY <2>1, <2>2
<1> QED BY <1>1, <1>4 DEF LineageTotal, Live

\* The revisions and the lineage after a write.
LEMMA WriteLineage ==
    ASSUME IsolationInv, NEW b \in WriteBatches, ApplyBatch(b)
    PROVE  /\ LineageTotal'
           /\ commit_revision' = next_lsn /\ next_lsn' = next_lsn + 1
           /\ \A k \in Keys : lineage'[k] <= next_lsn
           /\ \A k \in Keys : lineage'[k] = NoRevision => lineage[k] = NoRevision
<1> DEFINE effects == batch_effects(graph, b)
           after == apply_batch_to_maps_unchecked(graph, b)
<1>1. /\ graph' = after
      /\ lineage' = update_lineage_for_batch(effects, after, next_lsn)
      /\ commit_revision' = next_lsn /\ next_lsn' = next_lsn + 1
  BY DEF ApplyBatch
<1>2. LineageTotal'
  BY WriteLineageTotal DEF IsolationInv
<1>3. /\ commit_revision \in Nat /\ next_lsn \in Nat
      /\ \A k \in Keys : lineage[k] \in Revisions
  BY DEF IsolationInv, TypeOK
<1> HIDE DEF effects, after
<1>4. ASSUME NEW k \in Keys
      PROVE  /\ lineage'[k] <= next_lsn
             /\ lineage'[k] = NoRevision => lineage[k] = NoRevision
  <2>1. lineage'[k] = next_lsn \/ lineage'[k] = lineage[k]
    BY <1>1 DEF update_lineage_for_batch
  <2>2. lineage[k] <= next_lsn /\ next_lsn # NoRevision
    BY <1>3 DEF IsolationInv, RevisionsGrow, Revisions, NoRevision
  <2> QED BY <1>3, <2>1, <2>2
<1> QED BY <1>1, <1>2, <1>4

\* The history of a key that stays without a revision shows no value.
LEMMA WriteUnborn ==
    ASSUME IsolationInv, NEW b \in WriteBatches, ApplyBatch(b), NEW readers,
           versions' = HistoryAfter(b, readers)
    PROVE  UnbornHistory'
<1> SUFFICES ASSUME NEW k \in Keys, lineage'[k] = NoRevision,
                    NEW i \in DOMAIN versions'[k]
             PROVE  versions'[k][i].value = Absent
  BY DEF UnbornHistory
<1> DEFINE effects == batch_effects(graph, b)
           after == apply_batch_to_maps_unchecked(graph, b)
           kept == preserve_historical_versions(effects)
<1>1. /\ graph' = after
      /\ readers # {} => versions' =
             record_versions_after_commit(kept, effects, after, next_lsn)
      /\ readers = {} => versions' = versions
  BY DEF ApplyBatch, HistoryAfter
<1>2. lineage[k] = NoRevision /\ ~Live(after, k)
  BY <1>1, WriteLineage DEF LineageTotal, Live
<1>3. \A j \in DOMAIN versions[k] : versions[k][j].value = Absent
  BY <1>2 DEF IsolationInv, UnbornHistory
<1>4. kept[k] = versions[k]
  BY <1>2 DEF preserve_historical_versions
<1>5. /\ versions[k] \in Histories /\ next_lsn \in Nat /\ after[k] \in Values
  BY ApplyType, GraphValue DEF IsolationInv, TypeOK
<1>6. after[k] = Absent
  BY <1>2 DEF Live
<1> HIDE DEF effects, after, kept
<1>7. CASE readers # {} /\ k \in effects
  <2>1. versions'[k] = append_version_entry(versions[k], next_lsn, after[k])
    BY <1>1, <1>4, <1>7 DEF record_versions_after_commit
  <2> QED BY <1>3, <1>5, <1>6, <2>1, AbsentAppended
<1>8. CASE ~(readers # {} /\ k \in effects)
  <2>1. versions'[k] = versions[k]
    BY <1>1, <1>4, <1>8 DEF record_versions_after_commit
  <2> QED BY <1>3, <2>1
<1> QED BY <1>7, <1>8

\* A step that neither writes nor moves a revision, and that no session enters
\* or changes the snapshot of, keeps the invariant.
LEMMA QuietStep ==
    ASSUME IsolationInv, TypeOK',
           UNCHANGED << graph, lineage, versions, commit_revision, next_lsn,
                        compactions >>,
           \A t \in Open' :
               /\ t \in Open
               /\ transactions'[t].started = transactions[t].started
               /\ transactions'[t].snapshot = transactions[t].snapshot
    PROVE  IsolationInv'
<1>1. LineageTotal' /\ UnbornHistory' /\ RevisionsGrow'
  BY DEF IsolationInv, LineageTotal, UnbornHistory, RevisionsGrow, Live
<1>2. SnapshotStable'
  <2> SUFFICES ASSUME NEW t \in Open', NEW k \in Keys
               PROVE  visible_value_at_revision(k, transactions[t].started)'
                        = transactions'[t].snapshot[k]
    BY DEF SnapshotStable
  <2>1. visible_value_at_revision(k, transactions[t].started)
          = transactions[t].snapshot[k]
    BY DEF IsolationInv, SnapshotStable
  <2> QED BY <2>1 DEF visible_value_at_revision
<1> QED BY <1>1, <1>2 DEF IsolationInv

\* A write, direct or of a session that ends with it, keeps the invariant when
\* history is kept for every session that stays open.
LEMMA WriteStep ==
    ASSUME IsolationInv, TypeOK', NEW b \in WriteBatches, ApplyBatch(b),
           NEW readers, versions' = HistoryAfter(b, readers),
           UNCHANGED compactions,
           Open' # {} => readers # {},
           \A t \in Open' : t \in Open /\ transactions'[t] = transactions[t]
    PROVE  IsolationInv'
<1>1. LineageTotal' /\ UnbornHistory'
  BY WriteLineage, WriteUnborn
<1>2. \A t \in Open : transactions[t].started \in Nat
                     /\ transactions[t].started < next_lsn
  <2> SUFFICES ASSUME NEW t \in Open
               PROVE  transactions[t].started \in Nat
                      /\ transactions[t].started < next_lsn
    OBVIOUS
  <2>1. transactions[t].started \in Nat
    BY OpenSession DEF IsolationInv, Sessions
  <2> QED BY <2>1 DEF IsolationInv, RevisionsGrow, TypeOK
<1>3. RevisionsGrow'
  BY <1>2, WriteLineage DEF IsolationInv, RevisionsGrow, TypeOK
<1>4. SnapshotStable'
  <2> SUFFICES ASSUME NEW t \in Open', NEW k \in Keys
               PROVE  visible_value_at_revision(k, transactions[t].started)'
                        = transactions'[t].snapshot[k]
    BY DEF SnapshotStable
  <2>1. PICK q \in Nat : q = transactions[t].started
    BY <1>2
  <2>2. visible_value_at_revision(k, q)' = visible_value_at_revision(k, q)
    BY <1>2, <2>1, WriteInvisible DEF IsolationInv
  <2>3. visible_value_at_revision(k, q) = transactions[t].snapshot[k]
    BY <2>1 DEF IsolationInv, SnapshotStable, visible_value_at_revision
  <2> QED BY <2>1, <2>2, <2>3 DEF visible_value_at_revision
<1> QED BY <1>1, <1>3, <1>4 DEF IsolationInv

\* The last session is gone and with it the history.
LEMMA LastSessionEnds ==
    ASSUME IsolationInv, TypeOK', LineageTotal', Open' = {},
           versions' = [k \in Keys |-> << >>],
           compactions' = 0, commit_revision' < next_lsn',
           \A k \in Keys : lineage'[k] <= commit_revision'
    PROVE  IsolationInv'
<1>1. UnbornHistory'
  BY DEF UnbornHistory
<1>2. RevisionsGrow' /\ SnapshotStable'
  BY DEF RevisionsGrow, SnapshotStable
<1> QED BY <1>1, <1>2 DEF IsolationInv

\* A write that the log refuses keeps the invariant.
LEMMA FailedWriteStep ==
    ASSUME IsolationInv, NEW b, NEW readers, ApplyFails(b, readers)
    PROVE  IsolationInv'
<1> DEFINE kept == preserve_historical_versions(batch_effects(graph, b))
<1>1. TypeOK'
  BY ApplyFailsType DEF IsolationInv
<1>2. /\ UNCHANGED << graph, lineage, commit_revision, next_lsn, transactions,
                      compactions >>
      /\ versions' = versions \/ versions' = kept
  BY DEF ApplyFails
<1>3. LineageTotal' /\ RevisionsGrow'
  BY <1>2 DEF IsolationInv, LineageTotal, RevisionsGrow, Live, Open
<1>4. \A k \in Keys : lineage[k] = NoRevision => kept[k] = versions[k]
  BY DEF preserve_historical_versions
<1>5. \A k \in Keys, q \in Nat :
         ~(lineage[k] # NoRevision /\ lineage[k] <= q)
            => LatestVersion(kept[k], q) = LatestVersion(versions[k], q)
  BY PreserveVisible DEF IsolationInv
<1> HIDE DEF kept
<1>6. UnbornHistory'
  BY <1>2, <1>4 DEF IsolationInv, UnbornHistory
<1>7. SnapshotStable'
  <2> SUFFICES ASSUME NEW t \in Open', NEW k \in Keys
               PROVE  visible_value_at_revision(k, transactions[t].started)'
                        = transactions'[t].snapshot[k]
    BY DEF SnapshotStable
  <2>1. t \in Open /\ transactions'[t] = transactions[t]
    BY <1>2 DEF Open
  <2>2. PICK q \in Nat : q = transactions[t].started
    BY <2>1, OpenSession DEF IsolationInv, Sessions
  <2>3. visible_value_at_revision(k, q) = transactions[t].snapshot[k]
    BY <2>1, <2>2 DEF IsolationInv, SnapshotStable, visible_value_at_revision
  <2>4. visible_value_at_revision(k, q)' = visible_value_at_revision(k, q)
    BY <1>2, <1>5 DEF visible_value_at_revision
  <2> QED BY <2>1, <2>2, <2>3, <2>4 DEF visible_value_at_revision
<1> QED BY <1>1, <1>3, <1>6, <1>7 DEF IsolationInv

\* A new session reads the live graph: every live key has a revision that is
\* not ahead of its own, and a key without one shows no value.
LEMMA BeginStep ==
    ASSUME IsolationInv, TypeOK', NEW t \in TransactionIds, begin_transaction(t)
    PROVE  IsolationInv'
<1>1. /\ UNCHANGED << graph, lineage, versions, commit_revision, next_lsn,
                      compactions >>
      /\ transactions'[t].started = commit_revision
      /\ transactions'[t].snapshot = graph
      /\ \A u \in TransactionIds \ {t} : transactions'[u] = transactions[u]
  BY DEF begin_transaction, IsolationInv, TypeOK
<1>2. \A u \in Open' : u = t \/ (u \in Open /\ transactions'[u] = transactions[u])
  BY <1>1 DEF Open
<1>3. LineageTotal' /\ UnbornHistory'
  BY <1>1 DEF IsolationInv, LineageTotal, UnbornHistory, Live
<1>4. RevisionsGrow'
  BY <1>1, <1>2 DEF IsolationInv, RevisionsGrow, TypeOK
<1>5. ASSUME NEW k \in Keys
      PROVE  visible_value_at_revision(k, commit_revision) = graph[k]
  <2>1. CASE lineage[k] # NoRevision
    BY <2>1 DEF visible_value_at_revision, IsolationInv, RevisionsGrow
  <2>2. CASE lineage[k] = NoRevision
    <3>1. graph[k] = Absent
      BY <2>2 DEF IsolationInv, LineageTotal, Live
    <3>2. LatestVersion(versions[k], commit_revision) = Absent
      BY <2>2, AbsentHistory DEF IsolationInv, UnbornHistory, TypeOK
    <3> QED BY <2>2, <3>1, <3>2 DEF visible_value_at_revision
  <2> QED BY <2>1, <2>2
<1>6. SnapshotStable'
  <2> SUFFICES ASSUME NEW u \in Open', NEW k \in Keys
               PROVE  visible_value_at_revision(k, transactions[u].started)'
                        = transactions'[u].snapshot[k]
    BY DEF SnapshotStable
  <2>1. CASE u = t
    BY <1>1, <1>5, <2>1 DEF visible_value_at_revision
  <2>2. CASE u \in Open /\ transactions'[u] = transactions[u]
    <3>1. visible_value_at_revision(k, transactions[u].started)
            = transactions[u].snapshot[k]
      BY <2>2 DEF IsolationInv, SnapshotStable
    <3> QED BY <1>1, <2>2, <3>1 DEF visible_value_at_revision
  <2> QED BY <1>2, <2>1, <2>2
<1> QED BY <1>3, <1>4, <1>6 DEF IsolationInv

LEMMA StageStep ==
    ASSUME IsolationInv, TypeOK', NEW t \in TransactionIds, StageOperation(t)
    PROVE  IsolationInv'
<1>1. UNCHANGED << graph, lineage, versions, commit_revision, next_lsn,
                   compactions >>
  BY DEF StageOperation, StageUpsertNode, StageUpsertEdge, StageRejected,
         StageDeleteNode, StageDeleteEdge, Stage
<1>2. t \in Open
  BY DEF StageOperation, StageUpsertNode, StageUpsertEdge, StageRejected,
         StageDeleteNode, StageDeleteEdge, MayStage
<1>3. \/ transactions' = [transactions EXCEPT ![t] = Absent]
      \/ \E o, b : transactions' =
                     [transactions EXCEPT ![t] = Staged(transactions[t], o, b)]
  BY DEF StageOperation, StageUpsertNode, StageUpsertEdge, StageRejected,
         StageDeleteNode, StageDeleteEdge, Stage
<1>4. \A o, b : /\ Staged(transactions[t], o, b).started = transactions[t].started
                /\ Staged(transactions[t], o, b).snapshot = transactions[t].snapshot
  BY DEF Staged
<1>5. \A u \in Open' :
         /\ u \in Open
         /\ transactions'[u].started = transactions[u].started
         /\ transactions'[u].snapshot = transactions[u].snapshot
  BY <1>2, <1>3, <1>4 DEF Open, IsolationInv, TypeOK
<1> QED BY <1>1, <1>5, QuietStep

\* Session t leaves and the others stay as they are.
LEMMA SessionLeaves ==
    ASSUME TypeOK, NEW t \in TransactionIds,
           transactions' = [transactions EXCEPT ![t] = Absent]
    PROVE  /\ Open' = Open \ {t}
           /\ \A u \in Open' : u \in Open /\ transactions'[u] = transactions[u]
BY DEF Open, TypeOK

LEMMA CommitStep ==
    ASSUME IsolationInv, TypeOK', NEW t \in TransactionIds, commit_transaction(t)
    PROVE  IsolationInv'
<1>1. transactions[t].staged \in WriteBatches
  BY OpenSession DEF commit_transaction, Sessions, IsolationInv
<1>2. /\ ApplyBatch(transactions[t].staged) /\ UNCHANGED compactions
      /\ t \in Open
  BY DEF commit_transaction
<1>3. /\ Open' = Open \ {t}
      /\ \A u \in Open' : u \in Open /\ transactions'[u] = transactions[u]
  BY SessionLeaves DEF commit_transaction, IsolationInv
<1>4. CASE Open = {t}
  <2>1. versions' = [k \in Keys |-> << >>] /\ Open' = {}
    BY <1>3, <1>4 DEF commit_transaction, HistoryWithout
  <2>2. /\ LineageTotal' /\ commit_revision' < next_lsn' /\ compactions' = 0
        /\ \A k \in Keys : lineage'[k] <= commit_revision'
    BY <1>1, <1>2, WriteLineage DEF IsolationInv, RevisionsGrow, TypeOK
  <2> QED BY <2>1, <2>2, LastSessionEnds
<1>5. CASE Open # {t}
  <2>1. versions' = HistoryAfter(transactions[t].staged, Open \ {t})
    BY <1>5 DEF commit_transaction, HistoryWithout
  <2> QED BY <1>1, <1>2, <1>3, <2>1, WriteStep
<1> QED BY <1>4, <1>5

LEMMA RollbackStep ==
    ASSUME IsolationInv, TypeOK', NEW t \in TransactionIds, rollback_transaction(t)
    PROVE  IsolationInv'
<1>1. /\ Open' = Open \ {t}
      /\ \A u \in Open' : u \in Open /\ transactions'[u] = transactions[u]
  BY SessionLeaves DEF rollback_transaction, IsolationInv
<1>2. UNCHANGED << graph, lineage, commit_revision, next_lsn, compactions >>
  BY DEF rollback_transaction
<1>3. CASE Open = {t}
  <2>1. versions' = [k \in Keys |-> << >>] /\ Open' = {}
    BY <1>1, <1>3 DEF rollback_transaction, HistoryWithout
  <2>2. LineageTotal' /\ commit_revision' < next_lsn' /\ compactions' = 0
        /\ \A k \in Keys : lineage'[k] <= commit_revision'
    BY <1>2 DEF IsolationInv, LineageTotal, Live, RevisionsGrow
  <2> QED BY <2>1, <2>2, LastSessionEnds
<1>4. CASE Open # {t}
  <2>1. versions' = versions
    BY <1>4 DEF rollback_transaction, HistoryWithout
  <2> QED BY <1>1, <1>2, <2>1, QuietStep
<1> QED BY <1>3, <1>4

LEMMA InitIsolation ==
    ASSUME compactions = 0, Init
    PROVE  IsolationInv
<1>1. TypeOK
  BY InitType
<1>2. LineageTotal /\ UnbornHistory
  BY TransactionsAssumption DEF Init, LineageTotal, UnbornHistory, NoRevision
<1>3. Open = {}
  BY DEF Init, Open
<1>4. RevisionsGrow
  BY <1>3, TransactionsAssumption DEF Init, RevisionsGrow, NoRevision
<1>5. SnapshotStable
  BY <1>3 DEF SnapshotStable
<1> QED BY <1>1, <1>2, <1>4, <1>5 DEF IsolationInv

LEMMA NextIsolation ==
    ASSUME compactions' = 0, IsolationInv, [Next]_vars
    PROVE  IsolationInv'
<1>1. TypeOK /\ TypeOK'
  BY NextType DEF IsolationInv
<1>2. ASSUME NEW b \in Batches, apply_write_batch(b) PROVE IsolationInv'
  <2>1. b \in WriteBatches
    BY TransactionsAssumption
  <2>2. Open' = Open /\ \A u \in Open' : transactions'[u] = transactions[u]
    BY <1>2 DEF apply_write_batch, Open
  <2> QED BY <1>1, <1>2, <2>1, <2>2, WriteStep DEF apply_write_batch
<1>3. ASSUME NEW b \in Batches, apply_write_batch_fails(b) PROVE IsolationInv'
  BY <1>3, FailedWriteStep DEF apply_write_batch_fails
<1>4. ASSUME NEW t \in TransactionIds, begin_transaction(t) PROVE IsolationInv'
  BY <1>1, <1>4, BeginStep
<1>5. ASSUME NEW t \in TransactionIds, StageOperation(t) PROVE IsolationInv'
  BY <1>1, <1>5, StageStep
<1>6. ASSUME NEW t \in TransactionIds, commit_transaction(t) PROVE IsolationInv'
  BY <1>1, <1>6, CommitStep
<1>7. ASSUME NEW t \in TransactionIds, commit_transaction_fails(t)
      PROVE  IsolationInv'
  BY <1>7, FailedWriteStep DEF commit_transaction_fails
<1>8. ASSUME NEW t \in TransactionIds, rollback_transaction(t) PROVE IsolationInv'
  BY <1>1, <1>8, RollbackStep
<1>9. ASSUME checkpoint PROVE IsolationInv'
  <2>1. LineageTotal' /\ UnbornHistory' /\ RevisionsGrow'
    BY <1>1, <1>9 DEF checkpoint, IsolationInv, LineageTotal, UnbornHistory,
                      RevisionsGrow, Live, Open, TypeOK
  <2>2. SnapshotStable'
    BY <1>9 DEF checkpoint, IsolationInv, SnapshotStable, Open,
                visible_value_at_revision
  <2> QED BY <1>1, <2>1, <2>2 DEF IsolationInv
<1>10. ~compact
  BY <1>1 DEF compact, TypeOK
<1>11. ASSUME UNCHANGED vars PROVE IsolationInv'
  <2>1. \A u \in Open' : u \in Open /\ transactions'[u] = transactions[u]
    BY <1>11 DEF vars, Open
  <2> QED BY <1>1, <1>11, <2>1, QuietStep DEF vars
<1> QED BY <1>2, <1>3, <1>4, <1>5, <1>6, <1>7, <1>8, <1>9, <1>10, <1>11 DEF Next

\* Until the first compaction: compactions are only counted up.
LEMMA Isolated == Spec => [](compactions = 0 => IsolationInv)
<1> DEFINE Inv == compactions = 0 => IsolationInv
<1>1. Init => Inv
  BY InitIsolation
<1>2. TypeOK /\ Inv /\ [Next]_vars => Inv'
  <2> SUFFICES ASSUME TypeOK, Inv, [Next]_vars, compactions' = 0 PROVE IsolationInv'
    OBVIOUS
  <2>1. compactions = 0
    <3>1. CASE compact
      BY <3>1 DEF compact, TypeOK
    <3>2. CASE UNCHANGED compactions
      BY <3>2
    <3> QED BY <3>1, <3>2
            DEF Next, StageOperation, apply_write_batch, apply_write_batch_fails,
                ApplyFails, begin_transaction, StageUpsertNode, StageUpsertEdge, Stage,
                StageRejected, StageDeleteNode, StageDeleteEdge, commit_transaction,
                commit_transaction_fails, rollback_transaction, checkpoint, vars
  <2> QED BY <2>1, NextIsolation
<1> QED BY <1>1, <1>2, TypeCorrect, PTL DEF Spec

LEMMA NeverCompacted ==
    ASSUME MaxCompactions = 0
    PROVE  Spec => [](compactions = 0)
<1>1. Init => compactions = 0
  BY DEF Init
<1>2. compactions = 0 /\ [Next]_vars => (compactions = 0)'
  <2>1. compactions = 0 => ~compact
    BY DEF compact
  <2>2. [Next]_vars => compact \/ UNCHANGED compactions
    BY DEF Next, StageOperation, apply_write_batch, apply_write_batch_fails,
           ApplyFails, begin_transaction, StageUpsertNode, StageUpsertEdge, Stage,
           StageRejected, StageDeleteNode, StageDeleteEdge, commit_transaction,
           commit_transaction_fails, rollback_transaction, checkpoint, vars
  <2> QED BY <2>1, <2>2
<1> QED BY <1>1, <1>2, PTL DEF Spec

\* As long as no compaction starts the log again, a session reads the graph of
\* the moment it began, whoever commits, rolls back or fails in between, for
\* any number of sessions and keys.
THEOREM SnapshotIsolation ==
    ASSUME MaxCompactions = 0
    PROVE  Spec => []SnapshotStable
<1>1. IsolationInv => SnapshotStable
  BY DEF IsolationInv
<1> QED BY <1>1, Isolated, NeverCompacted, PTL

\* Under the same condition the first committer wins: a commit that the
\* conflict check lets through overwrites nothing that changed since the
\* session began.
THEOREM FirstCommitterWins ==
    ASSUME MaxCompactions = 0
    PROVE  Spec => NoLostUpdate
<1>1. IsolationInv /\ [Next]_vars =>
        [\A t \in TransactionIds : commit_transaction(t) =>
            \A k \in transactions[t].touched :
                graph[k] = transactions[t].snapshot[k]]_vars
  <2> SUFFICES ASSUME IsolationInv, NEW t \in TransactionIds,
                      commit_transaction(t), NEW k \in transactions[t].touched
               PROVE  graph[k] = transactions[t].snapshot[k]
    OBVIOUS
  <2>1. t \in Open /\ transactions[t] \in Sessions
    BY OpenSession DEF commit_transaction, IsolationInv
  <2>2. k \in Keys /\ transactions[t].started \in Nat
    BY <2>1 DEF Sessions
  <2>3. visible_value_at_revision(k, transactions[t].started)
          = transactions[t].snapshot[k]
    BY <2>1, <2>2 DEF IsolationInv, SnapshotStable
  <2>4. ~(lineage[k] > transactions[t].started) /\ lineage[k] \in Revisions
    BY <2>2 DEF commit_transaction, Conflict, IsolationInv, TypeOK
  <2>5. CASE lineage[k] # NoRevision
    <3>1. lineage[k] <= transactions[t].started
      BY <2>2, <2>4 DEF Revisions, NoRevision
    <3> QED BY <2>3, <2>5, <3>1 DEF visible_value_at_revision
  <2>6. CASE lineage[k] = NoRevision
    <3>1. graph[k] = Absent
      BY <2>2, <2>6 DEF IsolationInv, LineageTotal, Live
    <3>2. LatestVersion(versions[k], transactions[t].started) = Absent
      BY <2>2, <2>6, AbsentHistory DEF IsolationInv, UnbornHistory, TypeOK
    <3> QED BY <2>3, <2>6, <3>1, <3>2 DEF visible_value_at_revision
  <2> QED BY <2>5, <2>6
<1> QED BY <1>1, Isolated, NeverCompacted, PTL DEF Spec, NoLostUpdate

-----------------------------------------------------------------------------
(* The overlay that queries of a session run on                            *)

\* transaction_delta_from_current overlooks nothing, even across compactions:
\* outside the keys it compares, a session sees the live graph.
THEOREM DeltaIsComplete == Spec => []DeltaComplete
<1>1. Init => LineageTotal
  BY TransactionsAssumption DEF Init, LineageTotal, NoRevision
<1>2. TypeOK /\ LineageTotal /\ [Next]_vars => LineageTotal'
  <2> SUFFICES ASSUME TypeOK, LineageTotal, [Next]_vars
               PROVE  LineageTotal'
    OBVIOUS
  <2>1. ASSUME NEW b \in Batches, apply_write_batch(b) PROVE LineageTotal'
    BY <2>1, WriteLineageTotal, TransactionsAssumption DEF apply_write_batch
  <2>2. ASSUME NEW t \in TransactionIds, commit_transaction(t)
        PROVE  LineageTotal'
    <3>1. transactions[t].staged \in WriteBatches
      BY <2>2, OpenSession DEF commit_transaction, Sessions
    <3> QED BY <2>2, <3>1, WriteLineageTotal DEF commit_transaction
  <2>3. ASSUME UNCHANGED << graph, lineage >> PROVE LineageTotal'
    BY <2>3 DEF LineageTotal, Live
  <2> QED BY <2>1, <2>2, <2>3
          DEF Next, StageOperation, apply_write_batch_fails, ApplyFails,
              begin_transaction, StageUpsertNode, StageUpsertEdge, Stage,
              StageRejected, StageDeleteNode, StageDeleteEdge,
              commit_transaction_fails, rollback_transaction, checkpoint,
              compact, vars
<1>3. TypeOK /\ LineageTotal => DeltaComplete
  <2> SUFFICES ASSUME TypeOK, LineageTotal, NEW t \in Open,
                      NEW k \in Keys \ DeltaKeys(transactions[t])
               PROVE  TransactionVisible(transactions[t], k) = graph[k]
    BY DEF DeltaComplete
  <2>1. /\ ~(lineage[k] > transactions[t].started)
        /\ versions[k] = << >>
        /\ k \notin transactions[t].overridden
    BY DEF DeltaKeys
  <2>2. transactions[t].started \in Nat /\ lineage[k] \in Revisions
    BY OpenSession DEF Sessions, TypeOK
  <2>3. CASE lineage[k] # NoRevision
    <3>1. lineage[k] <= transactions[t].started
      BY <2>1, <2>2, <2>3 DEF Revisions, NoRevision
    <3> QED BY <2>1, <2>3, <3>1 DEF TransactionVisible, visible_value_at_revision
  <2>4. CASE lineage[k] = NoRevision
    <3>1. graph[k] = Absent
      BY <2>4 DEF LineageTotal, Live
    <3>2. LatestVersion(versions[k], transactions[t].started) = Absent
      BY <2>1, LatestVersionNone
    <3> QED BY <2>1, <2>4, <3>1, <3>2
            DEF TransactionVisible, visible_value_at_revision
  <2> QED BY <2>3, <2>4
<1> QED BY <1>1, <1>2, <1>3, TypeCorrect, PTL DEF Spec

-----------------------------------------------------------------------------
(* What a session reads, its own writes included                           *)

\* The snapshot under the staged writes.
View(s) == [k \in Keys |-> IF k \in s.overridden THEN s.overrides[k] ELSE s.snapshot[k]]

\* A view is a graph without dangling edges, and it is what the staged batch
\* makes of the snapshot as long as that batch does not contradict itself.
SessionInv(s) ==
    /\ s.snapshot \in Graphs
    /\ View(s) \in Graphs
    /\ Closed(View(s))
    /\ ~Contradicts(s.staged) =>
         apply_batch_to_maps_unchecked(s.snapshot, s.staged) = View(s)

ViewInv == \A t \in Open : SessionInv(transactions[t])

LEMMA ViewIsRead ==
    ASSUME IsolationInv, NEW t \in Open
    PROVE  /\ TransactionView(transactions[t]) = View(transactions[t])
           /\ \A k \in Keys :
                 TransactionVisible(transactions[t], k) = View(transactions[t])[k]
BY DEF IsolationInv, SnapshotStable, TransactionView, TransactionVisible, View

\* A value goes to one key.
LEMMA StagedView ==
    ASSUME NEW s \in Sessions, NEW D \in SUBSET Keys, NEW o \in [D -> Values], NEW b
    PROVE  /\ Staged(s, o, b).snapshot = s.snapshot
           /\ \A k \in Keys : View(Staged(s, o, b))[k] =
                                  IF k \in D THEN o[k] ELSE View(s)[k]
           /\ View(Staged(s, o, b)) = [k \in Keys |-> View(Staged(s, o, b))[k]]
BY DEF View, Staged

LEMMA EmptyBatchApplied ==
    ASSUME NEW g \in Graphs
    PROVE  apply_batch_to_maps_unchecked(g, EmptyBatch) = g
<1> DEFINE h == apply_batch_to_maps_unchecked(g, EmptyBatch)
<1>1. h \in Graphs
  BY EmptyBatchFacts, ApplyType
<1>2. Upserted(<< >>) = {}
  BY DEF Upserted
<1>3. /\ EmptyBatch.nodes_upserted = << >> /\ EmptyBatch.edges_upserted = << >>
      /\ EmptyBatch.deleted_node_ids = {} /\ EmptyBatch.deleted_edge_ids = {}
  BY DEF EmptyBatch
<1>4. \A n \in NodeIds : h[n] = g[n]
  BY <1>2, <1>3, AppliedNode
<1>5. \A e \in EdgeIds : h[e] = g[e]
  BY <1>2, <1>3, AppliedEdge DEF Incident
<1> HIDE DEF h
<1>6. \A k \in Keys : h[k] = g[k]
  BY <1>4, <1>5 DEF Keys
<1>7. h = [k \in Keys |-> h[k]] /\ g = [k \in Keys |-> g[k]]
  BY <1>1 DEF Graphs
<1>8. h = g
  BY <1>6, <1>7
<1> QED BY <1>8 DEF h

LEMMA StagedNode ==
    ASSUME NEW s \in Sessions, SessionInv(s), NEW n \in NodeIds, NEW node \in NodeRecords
    PROVE  SessionInv(Staged(s, [k \in {n} |-> node],
                [EmptyBatch EXCEPT !.nodes_upserted = << [id |-> n, value |-> node] >>]))
<1> DEFINE x == [id |-> n, value |-> node]
           b == [EmptyBatch EXCEPT !.nodes_upserted = << x >>]
           o == [k \in {n} |-> node]
           d == Staged(s, o, b)
           v == View(s)
           w == View(d)
           new == d.staged
           old == s.staged
<1>1. /\ {n} \in SUBSET Keys /\ o \in [{n} -> Values] /\ o[n] = node
      /\ b \in WriteBatches /\ node # Absent
  BY OperationBatchTypes, GraphAssumption DEF Keys, Values, NodeRecords
<1>2. d \in Sessions /\ old \in WriteBatches /\ new \in WriteBatches
  <2>1. d \in Sessions
    BY <1>1, StagedType
  <2> HIDE DEF d
  <2> QED BY <2>1 DEF Sessions
<1>3. /\ new.nodes_upserted = old.nodes_upserted \o << x >>
      /\ new.edges_upserted = old.edges_upserted
      /\ new.deleted_node_ids = old.deleted_node_ids
      /\ new.deleted_edge_ids = old.deleted_edge_ids
  <2>1. /\ b.nodes_upserted = << x >> /\ b.edges_upserted = << >>
        /\ b.deleted_node_ids = {} /\ b.deleted_edge_ids = {}
    BY DEF EmptyBatch
  <2>2. old.edges_upserted \o << >> = old.edges_upserted
    <3> DEFINE E == [id : EdgeIds, value : EdgeRecords]
    <3>1. old.edges_upserted \in Seq(E)
      BY <1>2 DEF WriteBatches
    <3> HIDE DEF E
    <3> QED BY <3>1
  <2> HIDE DEF b, x
  <2> QED BY <2>1, <2>2 DEF Staged
<1>4. /\ d.snapshot = s.snapshot
      /\ \A k \in Keys : w[k] = IF k = n THEN node ELSE v[k]
      /\ w = [k \in Keys |-> w[k]]
  <2> HIDE DEF b
  <2> QED BY <1>1, StagedView
<1>5. /\ Upserted(new.nodes_upserted) = Upserted(old.nodes_upserted) \cup {n}
      /\ LastUpsert(new.nodes_upserted, n) = node
      /\ \A k \in Upserted(old.nodes_upserted) \ {n} :
            LastUpsert(new.nodes_upserted, k) = LastUpsert(old.nodes_upserted, k)
  <2> DEFINE N == [id : NodeIds, value : NodeRecords]
  <2>1. old.nodes_upserted \in Seq(N) /\ x \in N /\ x.id = n /\ x.value = node
    BY <1>2 DEF WriteBatches
  <2> HIDE DEF N, x, d
  <2> QED BY <1>3, <2>1, UpsertBehind
<1> HIDE DEF x, b, o, d
<1>6. v \in Graphs /\ Closed(v) /\ s.snapshot \in Graphs
  BY DEF SessionInv
<1>7. n \notin EdgeIds
  BY GraphAssumption
<1> HIDE DEF v, w, new, old
<1>8. w \in Graphs
  BY <1>4, <1>6, <1>7 DEF Graphs, Keys
<1>9. Closed(w)
  <2> SUFFICES ASSUME NEW e \in EdgeIds, Live(w, e)
               PROVE  Live(w, w[e].source) /\ Live(w, w[e].target)
    BY DEF Closed
  <2>1. w[e] = v[e] /\ v[e] \in EdgeRecords
    BY <1>4, <1>6, <1>7 DEF Live, Graphs, Keys
  <2>2. Live(v, v[e].source) /\ Live(v, v[e].target)
    BY <1>6, <2>1 DEF Closed, Live
  <2>3. v[e].source \in Keys /\ v[e].target \in Keys
    BY <2>1 DEF EdgeRecords, Keys
  <2> QED BY <1>1, <1>4, <2>1, <2>2, <2>3 DEF Live
<1>10. ASSUME ~Contradicts(new)
       PROVE  apply_batch_to_maps_unchecked(d.snapshot, new) = w
  <2> DEFINE a == apply_batch_to_maps_unchecked(s.snapshot, old)
             c == apply_batch_to_maps_unchecked(s.snapshot, new)
  <2>1. n \notin new.deleted_node_ids /\ ~Contradicts(old)
    BY <1>3, <1>5, <1>10 DEF Contradicts
  <2>2. a = v
    BY <2>1 DEF SessionInv, v, old
  <2>3. ASSUME NEW m \in NodeIds PROVE c[m] = w[m]
    <3>1. a[m] = IF m \in old.deleted_node_ids THEN Absent
                 ELSE IF m \in Upserted(old.nodes_upserted)
                      THEN LastUpsert(old.nodes_upserted, m) ELSE s.snapshot[m]
      BY AppliedNode
    <3>2. c[m] = IF m \in new.deleted_node_ids THEN Absent
                 ELSE IF m \in Upserted(new.nodes_upserted)
                      THEN LastUpsert(new.nodes_upserted, m) ELSE s.snapshot[m]
      BY AppliedNode
    <3>3. w[m] = IF m = n THEN node ELSE a[m]
      BY <1>4, <2>2 DEF Keys
    <3> HIDE DEF a, c
    <3> QED BY <1>3, <1>5, <2>1, <3>1, <3>2, <3>3
  <2>4. \A e \in EdgeIds : c[e] = a[e]
    BY <1>3, AppliedEdge
  <2>5. c \in Graphs
    BY <1>2, <1>6, ApplyType DEF new, old
  <2> HIDE DEF a, c
  <2>6. \A k \in Keys : c[k] = w[k]
    BY <1>4, <1>7, <2>2, <2>3, <2>4 DEF Keys
  <2>7. c = [k \in Keys |-> c[k]]
    BY <2>5 DEF Graphs
  <2>8. c = w
    BY <1>4, <2>6, <2>7
  <2> QED BY <1>4, <2>8 DEF c
<1>11. SessionInv(d)
  BY <1>4, <1>6, <1>8, <1>9, <1>10 DEF SessionInv, w, new
<1> QED BY <1>11 DEF d, o, b, x

\* The end points are visible, so the batch does not delete them.
LEMMA StagedEdge ==
    ASSUME NEW s \in Sessions, SessionInv(s), NEW e \in EdgeIds, NEW edge \in EdgeRecords,
           Live(View(s), edge.source), Live(View(s), edge.target)
    PROVE  SessionInv(Staged(s, [k \in {e} |-> edge],
                [EmptyBatch EXCEPT !.edges_upserted = << [id |-> e, value |-> edge] >>]))
<1> DEFINE x == [id |-> e, value |-> edge]
           b == [EmptyBatch EXCEPT !.edges_upserted = << x >>]
           o == [k \in {e} |-> edge]
           d == Staged(s, o, b)
           v == View(s)
           w == View(d)
           new == d.staged
           old == s.staged
<1>1. /\ {e} \in SUBSET Keys /\ o \in [{e} -> Values] /\ o[e] = edge
      /\ b \in WriteBatches /\ edge # Absent
  BY OperationBatchTypes, GraphAssumption DEF Keys, Values, EdgeRecords
<1>2. d \in Sessions /\ old \in WriteBatches /\ new \in WriteBatches
  <2>1. d \in Sessions
    BY <1>1, StagedType
  <2> HIDE DEF d
  <2> QED BY <2>1 DEF Sessions
<1>3. /\ new.nodes_upserted = old.nodes_upserted
      /\ new.edges_upserted = old.edges_upserted \o << x >>
      /\ new.deleted_node_ids = old.deleted_node_ids
      /\ new.deleted_edge_ids = old.deleted_edge_ids
  <2>1. /\ b.edges_upserted = << x >> /\ b.nodes_upserted = << >>
        /\ b.deleted_node_ids = {} /\ b.deleted_edge_ids = {}
    BY DEF EmptyBatch
  <2>2. old.nodes_upserted \o << >> = old.nodes_upserted
    <3> DEFINE N == [id : NodeIds, value : NodeRecords]
    <3>1. old.nodes_upserted \in Seq(N)
      BY <1>2 DEF WriteBatches
    <3> HIDE DEF N
    <3> QED BY <3>1
  <2> HIDE DEF b, x
  <2> QED BY <2>1, <2>2 DEF Staged
<1>4. /\ d.snapshot = s.snapshot
      /\ \A k \in Keys : w[k] = IF k = e THEN edge ELSE v[k]
      /\ w = [k \in Keys |-> w[k]]
  <2> HIDE DEF b
  <2> QED BY <1>1, StagedView
<1>5. /\ Upserted(new.edges_upserted) = Upserted(old.edges_upserted) \cup {e}
      /\ LastUpsert(new.edges_upserted, e) = edge
      /\ \A k \in Upserted(old.edges_upserted) \ {e} :
            LastUpsert(new.edges_upserted, k) = LastUpsert(old.edges_upserted, k)
  <2> DEFINE E == [id : EdgeIds, value : EdgeRecords]
  <2>1. old.edges_upserted \in Seq(E) /\ x \in E /\ x.id = e /\ x.value = edge
    BY <1>2 DEF WriteBatches
  <2> HIDE DEF E, x, d
  <2> QED BY <1>3, <2>1, UpsertBehind
<1> HIDE DEF x, b, o, d
<1>6. /\ v \in Graphs /\ Closed(v) /\ s.snapshot \in Graphs
      /\ Live(v, edge.source) /\ Live(v, edge.target)
  BY DEF SessionInv
<1>7. e \notin NodeIds /\ edge.source \in NodeIds /\ edge.target \in NodeIds
  BY GraphAssumption DEF EdgeRecords
<1> HIDE DEF v, w, new, old
<1>8. w \in Graphs
  BY <1>4, <1>6, <1>7 DEF Graphs, Keys
<1>9. Closed(w)
  <2> SUFFICES ASSUME NEW f \in EdgeIds, Live(w, f)
               PROVE  Live(w, w[f].source) /\ Live(w, w[f].target)
    BY DEF Closed
  <2>1. \A n \in NodeIds : Live(v, n) => Live(w, n)
    BY <1>4, <1>7 DEF Live, Keys
  <2>2. CASE f = e
    BY <1>4, <1>6, <1>7, <2>1, <2>2 DEF Keys
  <2>3. CASE f # e
    <3>1. w[f] = v[f] /\ v[f] \in EdgeRecords
      BY <1>4, <1>6, <2>3 DEF Live, Graphs, Keys
    <3>2. Live(v, v[f].source) /\ Live(v, v[f].target)
      BY <1>6, <3>1 DEF Closed, Live
    <3> QED BY <2>1, <3>1, <3>2 DEF EdgeRecords
  <2> QED BY <2>2, <2>3
<1>10. ASSUME ~Contradicts(new)
       PROVE  apply_batch_to_maps_unchecked(d.snapshot, new) = w
  <2> DEFINE a == apply_batch_to_maps_unchecked(s.snapshot, old)
             c == apply_batch_to_maps_unchecked(s.snapshot, new)
  <2>1. e \notin new.deleted_edge_ids /\ ~Contradicts(old)
    BY <1>3, <1>5, <1>10 DEF Contradicts
  <2>2. a = v
    BY <2>1 DEF SessionInv, v, old
  <2>3. \A n \in NodeIds : c[n] = a[n]
    BY <1>3, AppliedNode
  <2>4. \A n \in old.deleted_node_ids : n \in NodeIds /\ ~Live(v, n)
    <3>1. \A n \in old.deleted_node_ids : n \in NodeIds
      BY <1>2 DEF WriteBatches
    <3>2. \A n \in old.deleted_node_ids : a[n] = Absent
      BY <3>1, AppliedNode
    <3> QED BY <2>2, <3>1, <3>2 DEF Live
  <2>5. ~Incident(edge, new.deleted_node_ids)
    BY <1>3, <1>6, <2>4 DEF Incident
  <2>6. ASSUME NEW f \in EdgeIds PROVE c[f] = w[f]
    <3> DEFINE up == IF f \in Upserted(old.edges_upserted)
                     THEN LastUpsert(old.edges_upserted, f) ELSE s.snapshot[f]
               un == IF f \in Upserted(new.edges_upserted)
                     THEN LastUpsert(new.edges_upserted, f) ELSE s.snapshot[f]
    <3>1. a[f] = IF f \in old.deleted_edge_ids
                    \/ (up # Absent /\ Incident(up, old.deleted_node_ids))
                 THEN Absent ELSE up
      BY AppliedEdge
    <3>2. c[f] = IF f \in new.deleted_edge_ids
                    \/ (un # Absent /\ Incident(un, new.deleted_node_ids))
                 THEN Absent ELSE un
      BY AppliedEdge
    <3>3. un = IF f = e THEN edge ELSE up
      BY <1>5
    <3>4. w[f] = IF f = e THEN edge ELSE a[f]
      BY <1>4, <2>2 DEF Keys
    <3> HIDE DEF a, c, up, un
    <3> QED BY <1>3, <2>1, <2>5, <3>1, <3>2, <3>3, <3>4
  <2>7. c \in Graphs
    BY <1>2, <1>6, ApplyType DEF new, old
  <2> HIDE DEF a, c
  <2>8. \A k \in Keys : c[k] = w[k]
    BY <1>4, <1>7, <2>2, <2>3, <2>6 DEF Keys
  <2>9. c = [k \in Keys |-> c[k]]
    BY <2>7 DEF Graphs
  <2>10. c = w
    BY <1>4, <2>8, <2>9
  <2> QED BY <1>4, <2>10 DEF c
<1>11. SessionInv(d)
  BY <1>4, <1>6, <1>8, <1>9, <1>10 DEF SessionInv, w, new
<1> QED BY <1>11 DEF d, o, b, x

\* The deletes of a node and the edges that the session sees at it, or of an
\* edge alone.
LEMMA StagedDeletes ==
    ASSUME NEW s \in Sessions, SessionInv(s), NEW D \in SUBSET Keys,
           NEW ns \in SUBSET NodeIds, NEW es \in SUBSET EdgeIds,
           D = ns \cup es \cup {f \in EdgeIds : Live(View(s), f) /\ Incident(View(s)[f], ns)},
           NEW b \in WriteBatches,
           b.nodes_upserted = << >>, b.edges_upserted = << >>,
           b.deleted_node_ids = ns, b.deleted_edge_ids = es
    PROVE  SessionInv(Staged(s, [k \in D |-> Absent], b))
<1> DEFINE o == [k \in D |-> Absent]
           d == Staged(s, o, b)
           v == View(s)
           w == View(d)
           new == d.staged
           old == s.staged
<1>1. o \in [D -> Values] /\ \A k \in D : o[k] = Absent
  BY DEF Values
<1>2. d \in Sessions /\ old \in WriteBatches /\ new \in WriteBatches
  <2>1. d \in Sessions
    BY <1>1, StagedType
  <2> HIDE DEF d
  <2> QED BY <2>1 DEF Sessions
<1>3. /\ new.nodes_upserted = old.nodes_upserted
      /\ new.edges_upserted = old.edges_upserted
      /\ new.deleted_node_ids = old.deleted_node_ids \cup ns
      /\ new.deleted_edge_ids = old.deleted_edge_ids \cup es
  <2>1. /\ b.edges_upserted = << >> /\ b.nodes_upserted = << >>
        /\ b.deleted_node_ids = ns /\ b.deleted_edge_ids = es
    OBVIOUS
  <2>2. /\ old.nodes_upserted \o << >> = old.nodes_upserted
        /\ old.edges_upserted \o << >> = old.edges_upserted
    <3> DEFINE N == [id : NodeIds, value : NodeRecords]
               E == [id : EdgeIds, value : EdgeRecords]
    <3>1. old.nodes_upserted \in Seq(N) /\ old.edges_upserted \in Seq(E)
      BY <1>2 DEF WriteBatches
    <3> HIDE DEF N, E
    <3> QED BY <3>1
  <2> QED BY <2>1, <2>2 DEF Staged
<1>4. /\ d.snapshot = s.snapshot
      /\ \A k \in Keys : w[k] = IF k \in D THEN Absent ELSE v[k]
      /\ w = [k \in Keys |-> w[k]]
  BY <1>1, StagedView
<1> HIDE DEF o, d
<1>6. /\ v \in Graphs /\ Closed(v) /\ s.snapshot \in Graphs
      /\ D = ns \cup es \cup {f \in EdgeIds : Live(v, f) /\ Incident(v[f], ns)}
  BY DEF SessionInv
<1>7. \A k \in EdgeIds : k \notin NodeIds
  BY GraphAssumption
<1> HIDE DEF v, w, new, old
<1>8. w \in Graphs
  BY <1>4, <1>6 DEF Graphs, Keys
<1>9. Closed(w)
  <2> SUFFICES ASSUME NEW f \in EdgeIds, Live(w, f)
               PROVE  Live(w, w[f].source) /\ Live(w, w[f].target)
    BY DEF Closed
  <2>1. /\ f \notin D /\ w[f] = v[f] /\ v[f] \in EdgeRecords /\ Live(v, f)
    BY <1>4, <1>6 DEF Live, Graphs, Keys
  <2>2. Live(v, v[f].source) /\ Live(v, v[f].target)
    BY <1>6, <2>1 DEF Closed
  <2>3. ~Incident(v[f], ns)
    BY <1>6, <2>1
  <2>4. v[f].source \in NodeIds /\ v[f].target \in NodeIds
    BY <2>1 DEF EdgeRecords
  <2>5. v[f].source \notin D /\ v[f].target \notin D
    BY <1>6, <1>7, <2>3, <2>4 DEF Incident
  <2> QED BY <1>4, <2>1, <2>2, <2>4, <2>5 DEF Live, Keys
<1>10. ASSUME ~Contradicts(new)
       PROVE  apply_batch_to_maps_unchecked(d.snapshot, new) = w
  <2> DEFINE a == apply_batch_to_maps_unchecked(s.snapshot, old)
             c == apply_batch_to_maps_unchecked(s.snapshot, new)
  <2>1. ~Contradicts(old)
    BY <1>3, <1>10 DEF Contradicts
  <2>2. a = v
    BY <2>1 DEF SessionInv, v, old
  <2>3. ASSUME NEW m \in NodeIds PROVE c[m] = w[m]
    <3>1. a[m] = IF m \in old.deleted_node_ids THEN Absent
                 ELSE IF m \in Upserted(old.nodes_upserted)
                      THEN LastUpsert(old.nodes_upserted, m) ELSE s.snapshot[m]
      BY AppliedNode
    <3>2. c[m] = IF m \in new.deleted_node_ids THEN Absent
                 ELSE IF m \in Upserted(new.nodes_upserted)
                      THEN LastUpsert(new.nodes_upserted, m) ELSE s.snapshot[m]
      BY AppliedNode
    <3>3. w[m] = IF m \in ns THEN Absent ELSE a[m]
      BY <1>4, <1>6, <1>7, <2>2 DEF Keys
    <3> HIDE DEF a, c
    <3> QED BY <1>3, <3>1, <3>2, <3>3
  <2>6. ASSUME NEW f \in EdgeIds PROVE c[f] = w[f]
    <3> DEFINE up == IF f \in Upserted(old.edges_upserted)
                     THEN LastUpsert(old.edges_upserted, f) ELSE s.snapshot[f]
               un == IF f \in Upserted(new.edges_upserted)
                     THEN LastUpsert(new.edges_upserted, f) ELSE s.snapshot[f]
    <3>1. a[f] = IF f \in old.deleted_edge_ids
                    \/ (up # Absent /\ Incident(up, old.deleted_node_ids))
                 THEN Absent ELSE up
      BY AppliedEdge
    <3>2. c[f] = IF f \in new.deleted_edge_ids
                    \/ (un # Absent /\ Incident(un, new.deleted_node_ids))
                 THEN Absent ELSE un
      BY AppliedEdge
    <3>u. un = up
      BY <1>3
    <3>3. w[f] = IF f \in es \/ (a[f] # Absent /\ Incident(a[f], ns))
                 THEN Absent ELSE a[f]
      BY <1>4, <1>6, <1>7, <2>2 DEF Keys, Live
    <3> HIDE DEF a, c, up, un
    <3>4. Incident(up, new.deleted_node_ids)
            <=> Incident(up, old.deleted_node_ids) \/ Incident(up, ns)
      BY <1>3 DEF Incident
    <3> QED BY <1>3, <3>1, <3>2, <3>u, <3>3, <3>4
  <2>7. c \in Graphs
    BY <1>2, <1>6, ApplyType DEF new, old
  <2> HIDE DEF a, c
  <2>8. \A k \in Keys : c[k] = w[k]
    BY <2>3, <2>6 DEF Keys
  <2>9. c = [k \in Keys |-> c[k]]
    BY <2>7 DEF Graphs
  <2>10. c = w
    BY <1>4, <2>8, <2>9
  <2> QED BY <1>4, <2>10 DEF c
<1>11. SessionInv(d)
  BY <1>4, <1>6, <1>8, <1>9, <1>10 DEF SessionInv, w, new
<1> QED BY <1>11 DEF d, o

\* The session that an operation leaves in the map.
LEMMA StagedSession ==
    ASSUME TypeOK, ViewInv, NEW t \in Open, NEW d, SessionInv(d),
           transactions' = [transactions EXCEPT ![t] = d]
    PROVE  ViewInv'
<1>1. \A u \in TransactionIds : transactions'[u] = IF u = t THEN d ELSE transactions[u]
  BY OpenSession DEF TypeOK
<1>2. \A u \in Open' : u \in TransactionIds /\ (u # t => u \in Open)
  BY <1>1 DEF Open
<1> QED BY <1>1, <1>2 DEF ViewInv

LEMMA StageKeepsViews ==
    ASSUME IsolationInv, ViewInv, NEW t \in TransactionIds, StageOperation(t)
    PROVE  ViewInv'
<1> DEFINE s == transactions[t]
<1>1. t \in Open
  BY DEF StageOperation, StageUpsertNode, StageUpsertEdge, StageRejected,
         StageDeleteNode, StageDeleteEdge, MayStage
<1>2. s \in Sessions /\ SessionInv(s) /\ TypeOK
  BY <1>1, OpenSession DEF ViewInv, IsolationInv
<1>3. \A k \in Keys : TransactionVisible(s, k) = View(s)[k]
  BY <1>1, ViewIsRead
<1>4. ASSUME NEW n \in NodeIds, NEW node \in NodeRecords, StageUpsertNode(t, n, node)
      PROVE  ViewInv'
  BY <1>1, <1>2, <1>4, StagedNode, StagedSession DEF StageUpsertNode, Stage
<1>5. ASSUME NEW e \in EdgeIds, NEW edge \in EdgeRecords, StageUpsertEdge(t, e, edge)
      PROVE  ViewInv'
  <2>1. Live(View(s), edge.source) /\ Live(View(s), edge.target)
    BY <1>3, <1>5 DEF StageUpsertEdge, EndpointsVisible, Live, EdgeRecords, Keys
  <2> QED BY <1>1, <1>2, <1>5, <2>1, StagedEdge, StagedSession DEF StageUpsertEdge, Stage
<1>6. ASSUME NEW edge \in EdgeRecords, StageRejected(t, edge) PROVE ViewInv'
  BY <1>2, <1>6, SessionLeaves DEF StageRejected, ViewInv
<1>7. ASSUME NEW n \in NodeIds, StageDeleteNode(t, n) PROVE ViewInv'
  <2> DEFINE D == {n} \cup transaction_incident_edge_ids(s, n)
             b == [EmptyBatch EXCEPT !.deleted_node_ids = {n}]
  <2>1. D = {n} \cup {} \cup {f \in EdgeIds : Live(View(s), f) /\ Incident(View(s)[f], {n})}
    BY <1>3 DEF transaction_incident_edge_ids, Live, Keys
  <2>2. /\ b \in WriteBatches
        /\ b.nodes_upserted = << >> /\ b.edges_upserted = << >>
        /\ b.deleted_node_ids = {n} /\ b.deleted_edge_ids = {}
    <3>1. b \in WriteBatches
      BY OperationBatchTypes
    <3> QED BY <3>1 DEF EmptyBatch
  <2>3. D \in SUBSET Keys
    BY DEF Keys, transaction_incident_edge_ids
  <2>4. Stage(t, [k \in D |-> Absent], b)
    BY <1>7 DEF StageDeleteNode
  <2> HIDE DEF D, b
  <2>5. SessionInv(Staged(s, [k \in D |-> Absent], b))
    BY <1>2, <2>1, <2>2, <2>3, StagedDeletes
  <2> QED BY <1>1, <1>2, <2>4, <2>5, StagedSession DEF Stage
<1>8. ASSUME NEW e \in EdgeIds, StageDeleteEdge(t, e) PROVE ViewInv'
  <2> DEFINE D == {e}
             b == [EmptyBatch EXCEPT !.deleted_edge_ids = {e}]
  <2>1. D = {} \cup {e} \cup {f \in EdgeIds : Live(View(s), f) /\ Incident(View(s)[f], {})}
    BY DEF Incident
  <2>2. /\ b \in WriteBatches
        /\ b.nodes_upserted = << >> /\ b.edges_upserted = << >>
        /\ b.deleted_node_ids = {} /\ b.deleted_edge_ids = {e}
    <3>1. b \in WriteBatches
      BY OperationBatchTypes
    <3> QED BY <3>1 DEF EmptyBatch
  <2>3. D \in SUBSET Keys
    BY DEF Keys
  <2>4. Stage(t, [k \in D |-> Absent], b)
    BY <1>8 DEF StageDeleteEdge
  <2> HIDE DEF D, b
  <2>5. SessionInv(Staged(s, [k \in D |-> Absent], b))
    BY <1>2, <2>1, <2>2, <2>3, StagedDeletes
  <2> QED BY <1>1, <1>2, <2>4, <2>5, StagedSession DEF Stage
<1> QED BY <1>4, <1>5, <1>6, <1>7, <1>8 DEF StageOperation

LEMMA BeginKeepsViews ==
    ASSUME TypeOK, ViewInv, NoDanglingEdges, NEW t \in TransactionIds,
           begin_transaction(t)
    PROVE  ViewInv'
<1> DEFINE d == [started |-> commit_revision, overridden |-> {},
                 overrides |-> EmptyGraph, staged |-> EmptyBatch, touched |-> {},
                 snapshot |-> graph]
<1>1. transactions' = [transactions EXCEPT ![t] = d]
  BY DEF begin_transaction
<1>2. graph \in Graphs /\ graph = [k \in Keys |-> graph[k]]
  BY DEF TypeOK, Graphs
<1>3. d.snapshot = graph /\ View(d) = graph /\ d.staged = EmptyBatch
  BY <1>2 DEF View
<1> HIDE DEF d
<1>4. SessionInv(d)
  BY <1>2, <1>3, EmptyBatchApplied DEF SessionInv, NoDanglingEdges
<1>5. \A u \in TransactionIds : transactions'[u] = IF u = t THEN d ELSE transactions[u]
  BY <1>1 DEF TypeOK
<1> QED BY <1>4, <1>5 DEF ViewInv, Open

\* Until the first compaction.
LEMMA ViewsAlways == Spec => [](compactions = 0 => IsolationInv /\ ViewInv)
<1> DEFINE Inv == compactions = 0 => ViewInv
           Iso == compactions = 0 => IsolationInv
<1>1. Init => Inv
  BY DEF Init, ViewInv, Open
<1>2. TypeOK /\ NoDanglingEdges /\ Iso /\ Inv /\ [Next]_vars => Inv'
  <2> SUFFICES ASSUME TypeOK, NoDanglingEdges, Iso, Inv, [Next]_vars, compactions' = 0
               PROVE  ViewInv'
    OBVIOUS
  <2>1. CASE compact
    <3>1. compactions' # 0
      BY <2>1 DEF compact, TypeOK
    <3> QED BY <3>1
  <2>2. CASE UNCHANGED << transactions, compactions >>
    BY <2>2 DEF ViewInv, Open
  <2>3. ASSUME NEW t \in TransactionIds, begin_transaction(t) PROVE ViewInv'
    BY <2>3, BeginKeepsViews DEF begin_transaction
  <2>4. ASSUME NEW t \in TransactionIds, StageOperation(t) PROVE ViewInv'
    <3>1. compactions' = compactions
      BY <2>4 DEF StageOperation, StageUpsertNode, StageUpsertEdge, Stage,
                  StageRejected, StageDeleteNode, StageDeleteEdge
    <3> QED BY <2>4, <3>1, StageKeepsViews
  <2>5. ASSUME NEW t \in TransactionIds, commit_transaction(t) \/ rollback_transaction(t)
        PROVE  ViewInv'
    <3>1. /\ transactions' = [transactions EXCEPT ![t] = Absent]
          /\ compactions' = compactions
      BY <2>5 DEF commit_transaction, rollback_transaction
    <3> QED BY <3>1, SessionLeaves DEF ViewInv
  <2> QED BY <2>1, <2>2, <2>3, <2>4, <2>5
          DEF Next, apply_write_batch, apply_write_batch_fails, ApplyFails,
              commit_transaction_fails, checkpoint, vars
<1> QED BY <1>1, <1>2, TypeCorrect, GraphStaysClosed, Isolated, PTL DEF Spec

\* The graph a session queries has no dangling edge, for any number of sessions
\* and any staged operations, whoever else commits, until a first compaction.
THEOREM ViewsStayClosed == Spec => []TransactionViewClosed
<1>1. (compactions = 0 => IsolationInv /\ ViewInv) => TransactionViewClosed
  BY ViewIsRead DEF TransactionViewClosed, ViewInv, SessionInv
<1> QED BY <1>1, ViewsAlways, PTL

\* A session commits what it has been reading: the batch it staged, applied to
\* its snapshot, is its view, for every sequence of staged operations that
\* does not both upsert and delete a key, until a first compaction.
THEOREM StagedBatchIsTheView == Spec => []StagedBatchIsTheViewInOrder
<1>1. (compactions = 0 => IsolationInv /\ ViewInv) => StagedBatchIsTheViewInOrder
  BY ViewIsRead DEF StagedBatchIsTheViewInOrder, ViewInv, SessionInv
<1> QED BY <1>1, ViewsAlways, PTL
=============================================================================
