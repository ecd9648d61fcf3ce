----------------------------- MODULE IndexProofs ----------------------------
(* The plan of an index mutation against the engine that applies the batch, *)
(* and the mutated index - labels, times, edges, unique keys, vector spaces *)
(* and their runtimes - against a rebuilt one, for every graph and batch.   *)
EXTENDS Index, GraphProofs, FiniteSetTheorems

-----------------------------------------------------------------------------
(* The plan and the engine                                                 *)

\* When the last version of an upserted edge is kept, it is the last kept one.
LEMMA LastKeptIsLastUpsert ==
    ASSUME NEW b \in WriteBatches, NEW e \in Upserted(b.edges_upserted),
           ~Incident(LastUpsert(b.edges_upserted, e), b.deleted_node_ids)
    PROVE  /\ KeptUpserts(b, e) # {}
           /\ LastKept(b, e) = LastUpsert(b.edges_upserted, e)
<1> DEFINE s == b.edges_upserted
           T == {i \in DOMAIN s : s[i].id = e}
           last == CHOOSE i \in DOMAIN s :
                      s[i].id = e /\ \A j \in DOMAIN s : s[j].id = e => j <= i
<1>1. s \in Seq([id : EdgeIds, value : EdgeRecords])
  BY DEF WriteBatches
<1>2. T \in SUBSET (1 .. Len(s)) /\ T # {} /\ Len(s) \in Nat
  BY <1>1 DEF Upserted
<1>3. PICK x \in T : \A y \in T : y <= x
  BY <1>2, GreatestNatural
<1>4. /\ last \in DOMAIN s /\ s[last].id = e
      /\ \A j \in DOMAIN s : s[j].id = e => j <= last
  BY <1>3
<1>5. LastUpsert(s, e) = s[last].value
  BY DEF LastUpsert
<1> HIDE DEF last
<1>6. last \in KeptUpserts(b, e)
  BY <1>4, <1>5 DEF KeptUpserts
<1>7. \A j \in KeptUpserts(b, e) : j <= last
  BY <1>4 DEF KeptUpserts
<1>8. \A i \in KeptUpserts(b, e) :
         (\A j \in KeptUpserts(b, e) : j <= i) => i = last
  <2> SUFFICES ASSUME NEW i \in KeptUpserts(b, e),
                      \A j \in KeptUpserts(b, e) : j <= i
               PROVE  i = last
    OBVIOUS
  <2>1. i <= last /\ last <= i
    BY <1>6, <1>7
  <2>2. i \in Nat /\ last \in Nat
    BY <1>1, <1>4 DEF KeptUpserts
  <2> QED BY <2>1, <2>2
<1>9. (CHOOSE i \in KeptUpserts(b, e) : \A j \in KeptUpserts(b, e) : j <= i) = last
  BY <1>6, <1>7, <1>8
<1> QED BY <1>5, <1>6, <1>9 DEF LastKept

\* The plan, key by key.
LEMMA PlannedNode ==
    ASSUME NEW g, NEW b, NEW n \in NodeIds
    PROVE  /\ plan_batch_mutation(g, b).added[n] =
                IF n \in Upserted(b.nodes_upserted) \ b.deleted_node_ids
                THEN LastUpsert(b.nodes_upserted, n) ELSE Absent
           /\ plan_batch_mutation(g, b).removed[n] =
                IF n \in BatchKeys(b) THEN g[n] ELSE Absent
<1>1. n \in Keys /\ n \notin EdgeIds
  BY GraphAssumption DEF Keys
<1> QED BY <1>1 DEF plan_batch_mutation

LEMMA PlannedEdge ==
    ASSUME NEW g, NEW b, NEW e \in EdgeIds
    PROVE  LET cascaded == Live(g, e) /\ Incident(g[e], b.deleted_node_ids)
           IN  /\ plan_batch_mutation(g, b).added[e] =
                    IF /\ KeptUpserts(b, e) # {}
                       /\ e \notin b.deleted_edge_ids
                       /\ ~cascaded
                    THEN LastKept(b, e) ELSE Absent
               /\ plan_batch_mutation(g, b).removed[e] =
                    IF e \in BatchKeys(b) \/ cascaded THEN g[e] ELSE Absent
<1>1. e \in Keys /\ e \notin NodeIds
  BY GraphAssumption DEF Keys
<1> QED BY <1>1 DEF plan_batch_mutation

\* The plan and the engine agree on every key that is not a rewired edge.
LEMMA PlannedKey ==
    ASSUME NEW g, NEW b \in WriteBatches, NEW k \in Keys \ Rewired(g, b)
    PROVE  MutatedGraph(g, plan_batch_mutation(g, b))[k]
               = apply_batch_to_maps_unchecked(g, b)[k]
<1> DEFINE m == plan_batch_mutation(g, b)
           h == apply_batch_to_maps_unchecked(g, b)
<1>1. ASSUME NEW n \in NodeIds PROVE MutatedGraph(g, m)[n] = h[n]
  <2>1. MutatedGraph(g, m)[n] = IF m.added[n] # Absent THEN m.added[n]
                                ELSE IF m.removed[n] # Absent THEN Absent ELSE g[n]
    BY DEF MutatedGraph, Live, Keys
  <2>2. n \in Upserted(b.nodes_upserted)
          => LastUpsert(b.nodes_upserted, n) # Absent
    BY UpsertedNode, GraphAssumption DEF NodeRecords
  <2>3. n \in BatchKeys(b) <=>
          n \in Upserted(b.nodes_upserted) \/ n \in b.deleted_node_ids
    <3>1. n \notin EdgeIds
      BY GraphAssumption
    <3>2. n \notin Upserted(b.edges_upserted)
      BY <3>1, UpsertedEdge
    <3>3. n \notin b.deleted_edge_ids
      BY <3>1 DEF WriteBatches
    <3> QED BY <3>2, <3>3 DEF BatchKeys
  <2> HIDE DEF m, h
  <2>4. /\ m.added[n] = IF n \in Upserted(b.nodes_upserted) \ b.deleted_node_ids
                        THEN LastUpsert(b.nodes_upserted, n) ELSE Absent
        /\ m.removed[n] = IF n \in BatchKeys(b) THEN g[n] ELSE Absent
    BY PlannedNode DEF m
  <2>5. h[n] = IF n \in b.deleted_node_ids THEN Absent
               ELSE IF n \in Upserted(b.nodes_upserted)
                    THEN LastUpsert(b.nodes_upserted, n) ELSE g[n]
    BY AppliedNode DEF h
  <2> QED BY <2>1, <2>2, <2>3, <2>4, <2>5
<1>2. ASSUME NEW e \in EdgeIds, e \notin Rewired(g, b)
      PROVE  MutatedGraph(g, m)[e] = h[e]
  <2> DEFINE last == LastUpsert(b.edges_upserted, e)
             cascaded == Live(g, e) /\ Incident(g[e], b.deleted_node_ids)
  <2>1. MutatedGraph(g, m)[e] = IF m.added[e] # Absent THEN m.added[e]
                                ELSE IF m.removed[e] # Absent THEN Absent ELSE g[e]
    BY DEF MutatedGraph, Live, Keys
  <2> HIDE DEF m, h
  <2>2. /\ m.added[e] = IF /\ KeptUpserts(b, e) # {}
                           /\ e \notin b.deleted_edge_ids
                           /\ ~cascaded
                        THEN LastKept(b, e) ELSE Absent
        /\ m.removed[e] = IF e \in BatchKeys(b) \/ cascaded THEN g[e] ELSE Absent
    BY PlannedEdge DEF m
  <2>3. h[e] = LET up == IF e \in Upserted(b.edges_upserted) THEN last ELSE g[e]
               IN  IF e \in b.deleted_edge_ids
                      \/ (up # Absent /\ Incident(up, b.deleted_node_ids))
                   THEN Absent ELSE up
    BY AppliedEdge DEF h
  <2>4. CASE e \in Upserted(b.edges_upserted) /\ Incident(last, b.deleted_node_ids)
    <3>1. KeptUpserts(b, e) = {}
      BY <1>2, <2>4 DEF Rewired
    <3>2. e \in BatchKeys(b)
      BY <2>4 DEF BatchKeys
    <3>3. last # Absent
      BY <2>4, UpsertedEdge, GraphAssumption DEF EdgeRecords
    <3>4. h[e] = Absent
      BY <2>3, <2>4, <3>3
    <3>5. m.added[e] = Absent /\ m.removed[e] = g[e]
      BY <2>2, <3>1, <3>2
    <3> QED BY <2>1, <3>4, <3>5
  <2>5. CASE e \in Upserted(b.edges_upserted) /\ ~Incident(last, b.deleted_node_ids)
    <3>1. KeptUpserts(b, e) # {} /\ LastKept(b, e) = last
      BY <2>5, LastKeptIsLastUpsert
    <3>2. ~cascaded
      BY <1>2, <2>5 DEF Rewired
    <3>3. e \in BatchKeys(b)
      BY <2>5 DEF BatchKeys
    <3>4. last # Absent
      BY <2>5, UpsertedEdge, GraphAssumption DEF EdgeRecords
    <3>5. h[e] = IF e \in b.deleted_edge_ids THEN Absent ELSE last
      BY <2>3, <2>5
    <3>6. /\ m.added[e] = IF e \in b.deleted_edge_ids THEN Absent ELSE last
          /\ m.removed[e] = g[e]
      BY <2>2, <3>1, <3>2, <3>3
    <3> QED BY <2>1, <3>4, <3>5, <3>6
  <2>6. CASE e \notin Upserted(b.edges_upserted)
    <3>1. KeptUpserts(b, e) = {}
      BY <2>6 DEF KeptUpserts, Upserted
    <3>2. e \in BatchKeys(b) <=> e \in b.deleted_edge_ids
      <4>1. e \notin NodeIds
        BY GraphAssumption
      <4>2. e \notin Upserted(b.nodes_upserted)
        BY <4>1, UpsertedNode
      <4>3. e \notin b.deleted_node_ids
        BY <4>1 DEF WriteBatches
      <4> QED BY <2>6, <4>2, <4>3 DEF BatchKeys
    <3>3. h[e] = IF e \in b.deleted_edge_ids \/ cascaded THEN Absent ELSE g[e]
      BY <2>3, <2>6 DEF Live
    <3>4. /\ m.added[e] = Absent
          /\ m.removed[e] = IF e \in b.deleted_edge_ids \/ cascaded
                            THEN g[e] ELSE Absent
      BY <2>2, <3>1, <3>2
    <3> QED BY <2>1, <3>3, <3>4
  <2> QED BY <2>4, <2>5, <2>6
<1> QED BY <1>1, <1>2 DEF Keys

\* What plan_batch_mutation makes of a batch, applied to the published maps,
\* is the graph that apply_batch_to_maps_unchecked makes, for every graph and
\* every batch that rewires no edge around a node it deletes.
THEOREM PlanIsTheBatch ==
    ASSUME NEW g \in Graphs, NEW b \in WriteBatches, Rewired(g, b) = {}
    PROVE  MutatedGraph(g, plan_batch_mutation(g, b))
               = apply_batch_to_maps_unchecked(g, b)
<1> DEFINE m == plan_batch_mutation(g, b)
           h == apply_batch_to_maps_unchecked(g, b)
<1>1. \A k \in Keys : MutatedGraph(g, m)[k] = h[k]
  BY PlannedKey
<1>2. MutatedGraph(g, m) = [k \in Keys |-> MutatedGraph(g, m)[k]]
  BY DEF MutatedGraph
<1>3. h = [k \in Keys |-> h[k]]
  BY DEF apply_batch_to_maps_unchecked
<1> HIDE DEF m, h
<1>4. [k \in Keys |-> MutatedGraph(g, m)[k]] = [k \in Keys |-> h[k]]
  BY <1>1
<1> QED BY <1>2, <1>3, <1>4 DEF m, h

-----------------------------------------------------------------------------
(* The mutated index and the rebuilt one                                   *)

\* The plan removes what the graph has, and what it adds over a live record
\* it has removed.
LEMMA PlanOverwrites ==
    ASSUME NEW g \in Graphs, NEW b \in WriteBatches, NEW k \in Keys
    PROVE  LET m == plan_batch_mutation(g, b)
           IN  /\ m.removed[k] \in {g[k], Absent}
               /\ Live(m.added, k) => m.removed[k] = g[k]
<1> DEFINE m == plan_batch_mutation(g, b)
<1>1. CASE k \in NodeIds
  <2>1. k \in Upserted(b.nodes_upserted) => k \in BatchKeys(b)
    BY DEF BatchKeys
  <2> QED BY <1>1, <2>1, PlannedNode DEF Live
<1>2. CASE k \in EdgeIds
  <2>1. KeptUpserts(b, k) # {} => k \in BatchKeys(b)
    BY DEF BatchKeys, KeptUpserts, Upserted
  <2> QED BY <1>2, <2>1, PlannedEdge DEF Live
<1> QED BY <1>1, <1>2 DEF Keys

\* upsert_node, delete_node, upsert_edge and delete_edge leave the index as a
\* rebuild from the new maps would: the nodes, the label and temporal buckets
\* and both adjacency lists, for every graph and every batch.
THEOREM MutationIsRebuild ==
    ASSUME NEW g \in Graphs, NEW b \in WriteBatches
    PROVE  LET m == plan_batch_mutation(g, b)
               mutated == MutatedStructure(RebuiltStructure(g), m)
               rebuilt == RebuiltStructure(MutatedGraph(g, m))
           IN  /\ mutated.node_ids = rebuilt.node_ids
               /\ mutated.buckets = rebuilt.buckets
               /\ mutated.adjacency = rebuilt.adjacency
               /\ mutated.reverse_adjacency = rebuilt.reverse_adjacency
<1> DEFINE m == plan_batch_mutation(g, b)
           h == MutatedGraph(g, m)
<1>1. \A k \in Keys : /\ m.removed[k] \in {g[k], Absent}
                      /\ m.added[k] # Absent => m.removed[k] = g[k]
  BY PlanOverwrites DEF Live
<1>2. \A k \in Keys : h[k] = IF m.added[k] # Absent THEN m.added[k]
                             ELSE IF m.removed[k] # Absent THEN Absent ELSE g[k]
  BY DEF MutatedGraph, Live
<1>3. NodeIds \subseteq Keys /\ EdgeIds \subseteq Keys
  BY DEF Keys
<1> HIDE DEF m, h
<1>4. (LiveNodes(g) \ LiveNodes(m.removed)) \cup LiveNodes(m.added) = LiveNodes(h)
  BY <1>1, <1>2, <1>3 DEF LiveNodes, Live
<1>5. (AllBuckets(g) \ AllBuckets(m.removed)) \cup AllBuckets(m.added) = AllBuckets(h)
  <2>1. \A x : x \in AllBuckets(g) <=> \E n \in NodeIds : g[n] # Absent
                 /\ \E c \in BucketsOf[g[n].body] : x = <<c, n>>
    BY DEF AllBuckets, NodeBuckets, LiveNodes, Live
  <2>2. \A x : x \in AllBuckets(h) <=> \E n \in NodeIds : h[n] # Absent
                 /\ \E c \in BucketsOf[h[n].body] : x = <<c, n>>
    BY DEF AllBuckets, NodeBuckets, LiveNodes, Live
  <2>3. \A x : x \in AllBuckets(m.added) <=> \E n \in NodeIds : m.added[n] # Absent
                 /\ \E c \in BucketsOf[m.added[n].body] : x = <<c, n>>
    BY DEF AllBuckets, NodeBuckets, LiveNodes, Live
  <2>4. \A x : x \in AllBuckets(m.removed) <=> \E n \in NodeIds : m.removed[n] # Absent
                 /\ \E c \in BucketsOf[m.removed[n].body] : x = <<c, n>>
    BY DEF AllBuckets, NodeBuckets, LiveNodes, Live
  <2>5. ASSUME NEW x PROVE x \in AllBuckets(h) <=>
           x \in (AllBuckets(g) \ AllBuckets(m.removed)) \cup AllBuckets(m.added)
    <3>1. ASSUME x \in AllBuckets(h)
          PROVE  x \in (AllBuckets(g) \ AllBuckets(m.removed)) \cup AllBuckets(m.added)
      <4>1. PICK n \in NodeIds :
               /\ h[n] # Absent
               /\ \E c \in BucketsOf[h[n].body] : x = <<c, n>>
        BY <2>2, <3>1
      <4>2. CASE m.added[n] # Absent
        BY <4>1, <4>2, <2>3, <1>2, <1>3
      <4>3. CASE m.added[n] = Absent
        <5>1. h[n] = g[n] /\ m.removed[n] = Absent
          BY <4>1, <4>3, <1>2, <1>3
        <5>2. x \in AllBuckets(g)
          BY <4>1, <5>1, <2>1
        <5>3. x \notin AllBuckets(m.removed)
          BY <4>1, <5>1, <2>4
        <5> QED BY <5>2, <5>3
      <4> QED BY <4>2, <4>3
    <3>2. ASSUME x \in AllBuckets(m.added) PROVE x \in AllBuckets(h)
      <4>1. PICK n \in NodeIds :
               /\ m.added[n] # Absent
               /\ \E c \in BucketsOf[m.added[n].body] : x = <<c, n>>
        BY <2>3, <3>2
      <4>2. h[n] = m.added[n]
        BY <4>1, <1>2, <1>3
      <4> QED BY <4>1, <4>2, <2>2
    <3>3. ASSUME x \in AllBuckets(g), x \notin AllBuckets(m.removed),
                 x \notin AllBuckets(m.added)
          PROVE  x \in AllBuckets(h)
      <4>1. PICK n \in NodeIds :
               /\ g[n] # Absent
               /\ \E c \in BucketsOf[g[n].body] : x = <<c, n>>
        BY <2>1, <3>3
      <4>2. m.removed[n] # g[n]
        BY <4>1, <3>3, <2>4
      <4>3. h[n] = g[n]
        BY <4>2, <1>1, <1>2, <1>3
      <4> QED BY <4>1, <4>3, <2>2
    <3> QED BY <3>1, <3>2, <3>3
  <2> QED BY <2>5
<1>6. ASSUME NEW e \in EdgeIds
      PROVE  /\ m.added[e] # Absent => h[e] = m.added[e]
             /\ m.added[e] = Absent /\ h[e] # Absent
                  => h[e] = g[e] /\ m.removed[e] = Absent
             /\ m.removed[e] # g[e] => h[e] = g[e] /\ m.added[e] = Absent
  BY <1>1, <1>2, <1>3
<1>7. (Outgoing(g) \ Outgoing(m.removed)) \cup Outgoing(m.added) = Outgoing(h)
  <2>1. \A x : x \in Outgoing(g) <=>
           \E e \in EdgeIds : g[e] # Absent /\ x = <<g[e].source, e>>
    BY DEF Outgoing, LiveEdges, Live
  <2>2. \A x : x \in Outgoing(h) <=>
           \E e \in EdgeIds : h[e] # Absent /\ x = <<h[e].source, e>>
    BY DEF Outgoing, LiveEdges, Live
  <2>3. \A x : x \in Outgoing(m.added) <=>
           \E e \in EdgeIds : m.added[e] # Absent /\ x = <<m.added[e].source, e>>
    BY DEF Outgoing, LiveEdges, Live
  <2>4. \A x : x \in Outgoing(m.removed) <=>
           \E e \in EdgeIds : m.removed[e] # Absent /\ x = <<m.removed[e].source, e>>
    BY DEF Outgoing, LiveEdges, Live
  <2>5. ASSUME NEW x, x \in Outgoing(h)
        PROVE  x \in (Outgoing(g) \ Outgoing(m.removed)) \cup Outgoing(m.added)
    <3>1. PICK e \in EdgeIds : h[e] # Absent /\ x = <<h[e].source, e>>
      BY <2>2, <2>5
    <3>2. CASE m.added[e] # Absent
      BY <3>1, <3>2, <2>3, <1>6
    <3>3. CASE m.added[e] = Absent
      <4>1. h[e] = g[e] /\ m.removed[e] = Absent
        BY <3>1, <3>3, <1>6
      <4>2. x \in Outgoing(g)
        BY <3>1, <4>1, <2>1
      <4>3. x \notin Outgoing(m.removed)
        BY <3>1, <4>1, <2>4
      <4> QED BY <4>2, <4>3
    <3> QED BY <3>2, <3>3
  <2>6. ASSUME NEW x, x \in Outgoing(m.added) PROVE x \in Outgoing(h)
    <3>1. PICK e \in EdgeIds : m.added[e] # Absent /\ x = <<m.added[e].source, e>>
      BY <2>3, <2>6
    <3> QED BY <3>1, <2>2, <1>6
  <2>7. ASSUME NEW x, x \in Outgoing(g), x \notin Outgoing(m.removed)
        PROVE  x \in Outgoing(h)
    <3>1. PICK e \in EdgeIds : g[e] # Absent /\ x = <<g[e].source, e>>
      BY <2>1, <2>7
    <3>2. m.removed[e] # g[e]
      BY <3>1, <2>7, <2>4
    <3> QED BY <3>1, <3>2, <2>2, <1>6
  <2> QED BY <2>5, <2>6, <2>7
<1>8. (Incoming(g) \ Incoming(m.removed)) \cup Incoming(m.added) = Incoming(h)
  <2>1. \A x : x \in Incoming(g) <=>
           \E e \in EdgeIds : g[e] # Absent /\ x = <<g[e].target, e>>
    BY DEF Incoming, LiveEdges, Live
  <2>2. \A x : x \in Incoming(h) <=>
           \E e \in EdgeIds : h[e] # Absent /\ x = <<h[e].target, e>>
    BY DEF Incoming, LiveEdges, Live
  <2>3. \A x : x \in Incoming(m.added) <=>
           \E e \in EdgeIds : m.added[e] # Absent /\ x = <<m.added[e].target, e>>
    BY DEF Incoming, LiveEdges, Live
  <2>4. \A x : x \in Incoming(m.removed) <=>
           \E e \in EdgeIds : m.removed[e] # Absent /\ x = <<m.removed[e].target, e>>
    BY DEF Incoming, LiveEdges, Live
  <2>5. ASSUME NEW x, x \in Incoming(h)
        PROVE  x \in (Incoming(g) \ Incoming(m.removed)) \cup Incoming(m.added)
    <3>1. PICK e \in EdgeIds : h[e] # Absent /\ x = <<h[e].target, e>>
      BY <2>2, <2>5
    <3>2. CASE m.added[e] # Absent
      BY <3>1, <3>2, <2>3, <1>6
    <3>3. CASE m.added[e] = Absent
      <4>1. h[e] = g[e] /\ m.removed[e] = Absent
        BY <3>1, <3>3, <1>6
      <4>2. x \in Incoming(g)
        BY <3>1, <4>1, <2>1
      <4>3. x \notin Incoming(m.removed)
        BY <3>1, <4>1, <2>4
      <4> QED BY <4>2, <4>3
    <3> QED BY <3>2, <3>3
  <2>6. ASSUME NEW x, x \in Incoming(m.added) PROVE x \in Incoming(h)
    <3>1. PICK e \in EdgeIds : m.added[e] # Absent /\ x = <<m.added[e].target, e>>
      BY <2>3, <2>6
    <3> QED BY <3>1, <2>2, <1>6
  <2>7. ASSUME NEW x, x \in Incoming(g), x \notin Incoming(m.removed)
        PROVE  x \in Incoming(h)
    <3>1. PICK e \in EdgeIds : g[e] # Absent /\ x = <<g[e].target, e>>
      BY <2>1, <2>7
    <3>2. m.removed[e] # g[e]
      BY <3>1, <2>7, <2>4
    <3> QED BY <3>1, <3>2, <2>2, <1>6
  <2> QED BY <2>5, <2>6, <2>7
<1>9. LET mutated == MutatedStructure(RebuiltStructure(g), m)
          rebuilt == RebuiltStructure(h)
      IN  /\ mutated.node_ids = (LiveNodes(g) \ LiveNodes(m.removed)) \cup LiveNodes(m.added)
          /\ mutated.buckets = (AllBuckets(g) \ AllBuckets(m.removed)) \cup AllBuckets(m.added)
          /\ mutated.adjacency = (Outgoing(g) \ Outgoing(m.removed)) \cup Outgoing(m.added)
          /\ mutated.reverse_adjacency = (Incoming(g) \ Incoming(m.removed)) \cup Incoming(m.added)
          /\ rebuilt.node_ids = LiveNodes(h)
          /\ rebuilt.buckets = AllBuckets(h)
          /\ rebuilt.adjacency = Outgoing(h)
          /\ rebuilt.reverse_adjacency = Incoming(h)
  BY DEF MutatedStructure, RebuiltStructure, MutatedBuckets
<1> QED BY <1>4, <1>5, <1>7, <1>8, <1>9 DEF m, h

-----------------------------------------------------------------------------
(* Records under a batch                                                   *)

\* A key outside batch_effects keeps its record.
LEMMA AppliedOutside ==
    ASSUME NEW g, NEW b \in WriteBatches, NEW k \in Keys \ batch_effects(g, b)
    PROVE  apply_batch_to_maps_unchecked(g, b)[k] = g[k]
<1>1. k \notin BatchKeys(b)
  BY DEF batch_effects
<1>2. CASE k \in NodeIds
  BY <1>1, <1>2, AppliedNode DEF BatchKeys
<1>3. CASE k \in EdgeIds
  <2>1. ~(g[k] # Absent /\ Incident(g[k], b.deleted_node_ids))
    BY <1>3 DEF batch_effects, Live
  <2>2. k \notin Upserted(b.edges_upserted) /\ k \notin b.deleted_edge_ids
    BY <1>1 DEF BatchKeys
  <2> QED BY <1>3, <2>1, <2>2, AppliedEdge
<1> QED BY <1>2, <1>3 DEF Keys

\* A key on which two graphs agree is mutated alike in both.
LEMMA MutatedAlike ==
    ASSUME NEW p, NEW g, NEW m, NEW k \in Keys, p[k] = g[k]
    PROVE  MutatedGraph(p, m)[k] = MutatedGraph(g, m)[k]
BY DEF MutatedGraph

LEMMA BucketOf ==
    ASSUME NEW g, NEW c, NEW n \in NodeIds
    PROVE  <<c, n>> \in AllBuckets(g) <=> Live(g, n) /\ c \in BucketsOf[g[n].body]
BY DEF AllBuckets, NodeBuckets, LiveNodes

LEMMA EdgeAt ==
    ASSUME NEW g, NEW n, NEW e \in EdgeIds
    PROVE  /\ <<n, e>> \in Outgoing(g) <=> Live(g, e) /\ g[e].source = n
           /\ <<n, e>> \in Incoming(g) <=> Live(g, e) /\ g[e].target = n
BY DEF Outgoing, Incoming, LiveEdges

\* What a plan makes of one record that it does not rewire.
LEMMA PlannedRecord ==
    ASSUME NEW g \in Graphs, NEW b \in WriteBatches, NEW k \in Keys \ Rewired(g, b)
    PROVE  LET m == plan_batch_mutation(g, b)
               h == apply_batch_to_maps_unchecked(g, b)
           IN  /\ h[k] = IF Live(m.added, k) THEN m.added[k]
                         ELSE IF Live(m.removed, k) THEN Absent ELSE g[k]
               /\ m.removed[k] \in {g[k], Absent}
               /\ Live(m.added, k) => m.removed[k] = g[k]
<1> DEFINE m == plan_batch_mutation(g, b)
<1>1. MutatedGraph(g, m)[k] = apply_batch_to_maps_unchecked(g, b)[k]
  BY PlannedKey
<1>2. MutatedGraph(g, m)[k] = IF Live(m.added, k) THEN m.added[k]
                              ELSE IF Live(m.removed, k) THEN Absent ELSE g[k]
  BY DEF MutatedGraph
<1>3. /\ m.removed[k] \in {g[k], Absent}
      /\ Live(m.added, k) => m.removed[k] = g[k]
  BY PlanOverwrites
<1> QED BY <1>1, <1>2, <1>3

LEMMA NodesAreNotRewired ==
    ASSUME NEW g, NEW b \in WriteBatches
    PROVE  Rewired(g, b) \subseteq EdgeIds /\ NodeIds \cap Rewired(g, b) = {}
<1>1. Rewired(g, b) \subseteq EdgeIds
  BY UpsertedEdge DEF Rewired
<1> QED BY <1>1, GraphAssumption

\* The entries of a node follow its record.
LEMMA NodeMutated ==
    ASSUME NEW g \in Graphs, NEW b \in WriteBatches, NEW s, NEW n \in NodeIds
    PROVE  LET t == MutatedStructure(s, plan_batch_mutation(g, b))
               h == apply_batch_to_maps_unchecked(g, b)
           IN  /\ (n \in s.node_ids <=> n \in LiveNodes(g))
                     => (n \in t.node_ids <=> n \in LiveNodes(h))
               /\ \A c : (<<c, n>> \in s.buckets <=> <<c, n>> \in AllBuckets(g))
                     => (<<c, n>> \in t.buckets <=> <<c, n>> \in AllBuckets(h))
<1> DEFINE m == plan_batch_mutation(g, b)
           h == apply_batch_to_maps_unchecked(g, b)
           t == MutatedStructure(s, m)
<1>1. n \in Keys \ Rewired(g, b)
  BY NodesAreNotRewired DEF Keys
<1>2. /\ h[n] = IF Live(m.added, n) THEN m.added[n]
                ELSE IF Live(m.removed, n) THEN Absent ELSE g[n]
      /\ m.removed[n] \in {g[n], Absent}
      /\ Live(m.added, n) => m.removed[n] = g[n]
  BY <1>1, PlannedRecord
<1>3. /\ t.node_ids = (s.node_ids \ LiveNodes(m.removed)) \cup LiveNodes(m.added)
      /\ t.buckets = (s.buckets \ AllBuckets(m.removed)) \cup AllBuckets(m.added)
  BY DEF MutatedStructure, MutatedBuckets
<1> HIDE DEF m, h, t
<1>4. (n \in s.node_ids <=> n \in LiveNodes(g)) => (n \in t.node_ids <=> n \in LiveNodes(h))
  BY <1>2, <1>3 DEF LiveNodes, Live
<1>5. ASSUME NEW c, <<c, n>> \in s.buckets <=> <<c, n>> \in AllBuckets(g)
      PROVE  <<c, n>> \in t.buckets <=> <<c, n>> \in AllBuckets(h)
  <2>1. /\ <<c, n>> \in AllBuckets(g) <=> Live(g, n) /\ c \in BucketsOf[g[n].body]
        /\ <<c, n>> \in AllBuckets(h) <=> Live(h, n) /\ c \in BucketsOf[h[n].body]
        /\ <<c, n>> \in AllBuckets(m.added)
             <=> Live(m.added, n) /\ c \in BucketsOf[m.added[n].body]
        /\ <<c, n>> \in AllBuckets(m.removed)
             <=> Live(m.removed, n) /\ c \in BucketsOf[m.removed[n].body]
    BY BucketOf
  <2> QED BY <1>2, <1>3, <1>5, <2>1 DEF Live
<1> QED BY <1>4, <1>5 DEF m, h, t

\* The entries of an edge follow its record, unless the plan rewires it.
LEMMA EdgeMutated ==
    ASSUME NEW g \in Graphs, NEW b \in WriteBatches, NEW s, NEW n,
           NEW e \in EdgeIds \ Rewired(g, b)
    PROVE  LET t == MutatedStructure(s, plan_batch_mutation(g, b))
               h == apply_batch_to_maps_unchecked(g, b)
           IN  /\ (<<n, e>> \in s.adjacency <=> <<n, e>> \in Outgoing(g))
                     => (<<n, e>> \in t.adjacency <=> <<n, e>> \in Outgoing(h))
               /\ (<<n, e>> \in s.reverse_adjacency <=> <<n, e>> \in Incoming(g))
                     => (<<n, e>> \in t.reverse_adjacency <=> <<n, e>> \in Incoming(h))
<1> DEFINE m == plan_batch_mutation(g, b)
           h == apply_batch_to_maps_unchecked(g, b)
           t == MutatedStructure(s, m)
<1>1. e \in Keys \ Rewired(g, b)
  BY DEF Keys
<1>2. /\ h[e] = IF Live(m.added, e) THEN m.added[e]
                ELSE IF Live(m.removed, e) THEN Absent ELSE g[e]
      /\ m.removed[e] \in {g[e], Absent}
      /\ Live(m.added, e) => m.removed[e] = g[e]
  BY <1>1, PlannedRecord
<1>3. /\ t.adjacency = (s.adjacency \ Outgoing(m.removed)) \cup Outgoing(m.added)
      /\ t.reverse_adjacency =
           (s.reverse_adjacency \ Incoming(m.removed)) \cup Incoming(m.added)
  BY DEF MutatedStructure
<1> HIDE DEF m, h, t
<1>4. /\ <<n, e>> \in Outgoing(g) <=> Live(g, e) /\ g[e].source = n
      /\ <<n, e>> \in Outgoing(h) <=> Live(h, e) /\ h[e].source = n
      /\ <<n, e>> \in Outgoing(m.added) <=> Live(m.added, e) /\ m.added[e].source = n
      /\ <<n, e>> \in Outgoing(m.removed) <=> Live(m.removed, e) /\ m.removed[e].source = n
  BY EdgeAt
<1>5. /\ <<n, e>> \in Incoming(g) <=> Live(g, e) /\ g[e].target = n
      /\ <<n, e>> \in Incoming(h) <=> Live(h, e) /\ h[e].target = n
      /\ <<n, e>> \in Incoming(m.added) <=> Live(m.added, e) /\ m.added[e].target = n
      /\ <<n, e>> \in Incoming(m.removed) <=> Live(m.removed, e) /\ m.removed[e].target = n
  BY EdgeAt
<1>6. (<<n, e>> \in s.adjacency <=> <<n, e>> \in Outgoing(g))
         => (<<n, e>> \in t.adjacency <=> <<n, e>> \in Outgoing(h))
  BY <1>2, <1>3, <1>4 DEF Live
<1>7. (<<n, e>> \in s.reverse_adjacency <=> <<n, e>> \in Incoming(g))
         => (<<n, e>> \in t.reverse_adjacency <=> <<n, e>> \in Incoming(h))
  BY <1>2, <1>3, <1>5 DEF Live
<1> QED BY <1>6, <1>7 DEF m, h, t


-----------------------------------------------------------------------------
(* Finite sets of nodes, and the owner of a key                            *)

\* A non-empty finite set of nodes has a last one in the order of identifiers.
LEMMA LastNode ==
    ASSUME NEW S \in SUBSET NodeIds, IsFiniteSet(S), S # {}
    PROVE  \E n \in S : \A m \in S : IdOrder[m] <= IdOrder[n]
<1> DEFINE Sizes == {k \in Nat : \E T \in SUBSET S :
                        /\ T # {} /\ Cardinality(T) = k
                        /\ ~\E n \in T : \A m \in T : IdOrder[m] <= IdOrder[n]}
<1> SUFFICES ASSUME ~\E n \in S : \A m \in S : IdOrder[m] <= IdOrder[n] PROVE FALSE
  OBVIOUS
<1>1. Sizes # {}
  <2>1. Cardinality(S) \in Nat
    BY FS_CardinalityType
  <2> QED BY <2>1
<1>2. PICK k \in Sizes : \A j \in Sizes : k <= j
  BY <1>1, LeastNatural
<1>3. PICK T \in SUBSET S : /\ T # {} /\ Cardinality(T) = k
                            /\ ~\E n \in T : \A m \in T : IdOrder[m] <= IdOrder[n]
  BY <1>2
<1>4. PICK x \in T : TRUE
  BY <1>3
<1>5. IsFiniteSet(T)
  BY FS_Subset
<1>6. IsFiniteSet(T \ {x}) /\ Cardinality(T \ {x}) = k - 1 /\ k \in Nat /\ k - 1 \in Nat
  <2>1. IsFiniteSet(T \ {x}) /\ Cardinality(T \ {x}) = k - 1
    BY <1>3, <1>4, <1>5, FS_RemoveElement
  <2> QED BY <2>1, FS_CardinalityType
<1>7. T \ {x} # {}
  <2>1. IdOrder[x] <= IdOrder[x]
    BY <1>4, IndexAssumption
  <2> QED BY <1>3, <1>4, <2>1
<1>8. \E n \in T \ {x} : \A m \in T \ {x} : IdOrder[m] <= IdOrder[n]
  <2>1. k - 1 \notin Sizes
    BY <1>2, <1>6
  <2> HIDE DEF Sizes
  <2>2. ASSUME ~\E n \in T \ {x} : \A m \in T \ {x} : IdOrder[m] <= IdOrder[n]
        PROVE  k - 1 \in Sizes
    <3>1. T \ {x} \in SUBSET S
      OBVIOUS
    <3> QED BY <2>2, <3>1, <1>6, <1>7 DEF Sizes
  <2> QED BY <2>1, <2>2
<1>9. PICK n \in T \ {x} : \A m \in T \ {x} : IdOrder[m] <= IdOrder[n]
  BY <1>8
<1>10. \A m \in T : IdOrder[m] \in Nat
  BY IndexAssumption
<1>11. CASE IdOrder[x] <= IdOrder[n]
  BY <1>3, <1>9, <1>11
<1>12. CASE ~(IdOrder[x] <= IdOrder[n])
  <2>1. \A m \in T : IdOrder[m] <= IdOrder[x]
    BY <1>4, <1>9, <1>10, <1>12
  <2> QED BY <1>3, <1>4, <2>1
<1> QED BY <1>11, <1>12

\* A batch names finitely many nodes to insert.
LEMMA UpsertedFinite ==
    ASSUME NEW S, NEW s \in Seq(S)
    PROVE  IsFiniteSet(Upserted(s))
<1> DEFINE f == [i \in 1 .. Len(s) |-> s[i].id]
<1>1. Len(s) \in Nat /\ DOMAIN s = 1 .. Len(s)
  OBVIOUS
<1>2. IsFiniteSet(1 .. Len(s))
  BY <1>1, FS_Interval
<1>3. f \in Surjection(1 .. Len(s), Upserted(s))
  BY <1>1 DEF Surjection, Upserted
<1> QED BY <1>2, <1>3, FS_Surjection

FiniteLive(g) == IsFiniteSet(LiveNodes(g))

LEMMA EmptyGraphFinite == EmptyGraph \in Graphs /\ FiniteLive(EmptyGraph)
<1>1. EmptyGraph \in Graphs
  BY DEF EmptyGraph, Graphs, Keys
<1>2. LiveNodes(EmptyGraph) = {}
  BY DEF EmptyGraph, LiveNodes, Live, Keys
<1> QED BY <1>1, <1>2, FS_EmptySet DEF FiniteLive

LEMMA AppliedFinite ==
    ASSUME NEW g \in Graphs, NEW b \in WriteBatches, FiniteLive(g)
    PROVE  FiniteLive(apply_batch_to_maps_unchecked(g, b))
<1> DEFINE h == apply_batch_to_maps_unchecked(g, b)
<1>1. b.nodes_upserted \in Seq([id : NodeIds, value : NodeRecords])
  BY DEF WriteBatches
<1>2. IsFiniteSet(Upserted(b.nodes_upserted))
  BY <1>1, UpsertedFinite
<1>3. IsFiniteSet(LiveNodes(g) \cup Upserted(b.nodes_upserted))
  BY <1>2, FS_Union DEF FiniteLive
<1>4. \A n \in NodeIds : h[n] # Absent => n \in LiveNodes(g) \cup Upserted(b.nodes_upserted)
  BY AppliedNode DEF LiveNodes, Live
<1> HIDE DEF h
<1>5. LiveNodes(h) \subseteq LiveNodes(g) \cup Upserted(b.nodes_upserted)
  BY <1>4 DEF LiveNodes, Live
<1>6. IsFiniteSet(LiveNodes(h))
  BY <1>3, <1>5, FS_Subset
<1> QED BY <1>6 DEF FiniteLive, h

LEMMA PlanFinite ==
    ASSUME NEW g, NEW b \in WriteBatches
    PROVE  FiniteLive(plan_batch_mutation(g, b).added)
<1> DEFINE m == plan_batch_mutation(g, b)
<1>1. b.nodes_upserted \in Seq([id : NodeIds, value : NodeRecords])
  BY DEF WriteBatches
<1>2. IsFiniteSet(Upserted(b.nodes_upserted))
  BY <1>1, UpsertedFinite
<1>3. \A n \in NodeIds : m.added[n] # Absent => n \in Upserted(b.nodes_upserted)
  BY PlannedNode
<1> HIDE DEF m
<1>4. LiveNodes(m.added) \subseteq Upserted(b.nodes_upserted)
  BY <1>3 DEF LiveNodes, Live
<1>5. IsFiniteSet(LiveNodes(m.added))
  BY <1>2, <1>4, FS_Subset
<1> QED BY <1>5 DEF FiniteLive, m

\* The node a unique key finds after a rebuild has that key.
LEMMA LastOwnerOwns ==
    ASSUME NEW g, FiniteLive(g), NEW key, Owners(g, key) # {}
    PROVE  LastOwner(g, key) \in Owners(g, key)
<1>1. Owners(g, key) \in SUBSET LiveNodes(g) /\ Owners(g, key) \in SUBSET NodeIds
  BY DEF Owners, LiveNodes
<1>2. IsFiniteSet(Owners(g, key))
  BY <1>1, FS_Subset DEF FiniteLive
<1>3. \E n \in Owners(g, key) : \A m \in Owners(g, key) : IdOrder[m] <= IdOrder[n]
  BY <1>1, <1>2, LastNode
<1> QED BY <1>3 DEF LastOwner

\* Two nodes with one key are counted as sharing it.
LEMMA SharedKey ==
    ASSUME NEW g, FiniteLive(g), NEW key, ~(Cardinality(Owners(g, key)) > 1),
           NEW m \in Owners(g, key), NEW n \in Owners(g, key)
    PROVE  m = n
<1>1. Owners(g, key) \in SUBSET LiveNodes(g)
  BY DEF Owners
<1>2. IsFiniteSet(Owners(g, key))
  BY <1>1, FS_Subset DEF FiniteLive
<1>3. Cardinality(Owners(g, key)) \in Nat
  BY <1>2, FS_CardinalityType
<1>4. Cardinality(Owners(g, key)) # 0
  BY <1>2, FS_EmptySet
<1>5. Cardinality(Owners(g, key)) = 1
  BY <1>3, <1>4
<1> QED BY <1>2, <1>5, FS_Singleton


-----------------------------------------------------------------------------
(* Labels, times and edges, record by record                               *)

AllBucketNames == UNION {BucketsOf[body] : body \in Bodies}

\* The nodes, buckets and adjacency of s are those of a rebuild from g,
\* outside a set of uncertain keys.
Structured(s, g, uncertain) ==
    /\ \A n \in NodeIds \ uncertain :
         /\ n \in s.node_ids <=> n \in LiveNodes(g)
         /\ \A bucket \in AllBucketNames :
               <<bucket, n>> \in s.buckets <=> <<bucket, n>> \in AllBuckets(g)
    /\ \A n \in NodeIds, e \in EdgeIds \ uncertain :
         /\ <<n, e>> \in s.adjacency <=> <<n, e>> \in Outgoing(g)
         /\ <<n, e>> \in s.reverse_adjacency <=> <<n, e>> \in Incoming(g)

LEMMA RebuiltStructured ==
    ASSUME NEW g, NEW uncertain
    PROVE  Structured(RebuiltStructure(g), g, uncertain)
BY DEF Structured, RebuiltStructure

LEMMA MutatedStructured ==
    ASSUME NEW g \in Graphs, NEW b \in WriteBatches, NEW s, NEW uncertain,
           Structured(s, g, uncertain)
    PROVE  Structured(MutatedStructure(s, plan_batch_mutation(g, b)),
                      apply_batch_to_maps_unchecked(g, b),
                      uncertain \cup Rewired(g, b))
<1> DEFINE t == MutatedStructure(s, plan_batch_mutation(g, b))
           h == apply_batch_to_maps_unchecked(g, b)
<1>1. ASSUME NEW n \in NodeIds \ (uncertain \cup Rewired(g, b))
      PROVE  /\ n \in t.node_ids <=> n \in LiveNodes(h)
             /\ \A bucket \in AllBucketNames :
                   <<bucket, n>> \in t.buckets <=> <<bucket, n>> \in AllBuckets(h)
  BY NodeMutated DEF Structured
<1>2. ASSUME NEW n \in NodeIds, NEW e \in EdgeIds \ (uncertain \cup Rewired(g, b))
      PROVE  /\ <<n, e>> \in t.adjacency <=> <<n, e>> \in Outgoing(h)
             /\ <<n, e>> \in t.reverse_adjacency <=> <<n, e>> \in Incoming(h)
  BY EdgeMutated DEF Structured
<1> HIDE DEF t, h
<1>3. Structured(t, h, uncertain \cup Rewired(g, b))
  BY <1>1, <1>2 DEF Structured
<1> QED BY <1>3 DEF t, h

\* A batch the index did not see leaves the keys outside its effects alone.
LEMMA UnrecordedStructured ==
    ASSUME NEW g, NEW b \in WriteBatches, NEW s, NEW uncertain,
           Structured(s, g, uncertain)
    PROVE  Structured(s, apply_batch_to_maps_unchecked(g, b),
                      uncertain \cup batch_effects(g, b))
<1> DEFINE h == apply_batch_to_maps_unchecked(g, b)
           U == uncertain \cup batch_effects(g, b)
<1>1. \A k \in Keys \ U : h[k] = g[k]
  BY AppliedOutside
<1>2. NodeIds \subseteq Keys /\ EdgeIds \subseteq Keys
  BY DEF Keys
<1> HIDE DEF h
<1>3. ASSUME NEW n \in NodeIds \ U
      PROVE  /\ n \in s.node_ids <=> n \in LiveNodes(h)
             /\ \A bucket \in AllBucketNames :
                   <<bucket, n>> \in s.buckets <=> <<bucket, n>> \in AllBuckets(h)
  <2>1. h[n] = g[n] /\ (n \in LiveNodes(h) <=> n \in LiveNodes(g))
    BY <1>1, <1>2 DEF LiveNodes, Live
  <2>2. \A c : <<c, n>> \in AllBuckets(h) <=> <<c, n>> \in AllBuckets(g)
    BY <2>1, BucketOf DEF Live
  <2> QED BY <2>1, <2>2 DEF Structured
<1>4. ASSUME NEW n \in NodeIds, NEW e \in EdgeIds \ U
      PROVE  /\ <<n, e>> \in s.adjacency <=> <<n, e>> \in Outgoing(h)
             /\ <<n, e>> \in s.reverse_adjacency <=> <<n, e>> \in Incoming(h)
  <2>1. h[e] = g[e]
    BY <1>1, <1>2
  <2>2. /\ <<n, e>> \in Outgoing(h) <=> <<n, e>> \in Outgoing(g)
        /\ <<n, e>> \in Incoming(h) <=> <<n, e>> \in Incoming(g)
    BY <2>1, EdgeAt DEF Live
  <2> QED BY <2>2 DEF Structured
<1>5. Structured(s, h, U)
  BY <1>3, <1>4 DEF Structured
<1> QED BY <1>5 DEF h


-----------------------------------------------------------------------------
(* Unique keys                                                             *)

\* What KeyLookup says of one index s and one graph g.
Finds(s, g, uncertain, shared) ==
    \A key \in UniqueKeys :
        LET n == lookup_unique_key(s, key)
        IN  /\ n \in NodeIds \ uncertain => n \in Owners(g, key)
            /\ key \notin shared =>
                  \A o \in Owners(g, key) \ uncertain : n = o

Shared(g) == {key \in UniqueKeys : Cardinality(Owners(g, key)) > 1}

LEMMA RebuildFinds ==
    ASSUME NEW g, FiniteLive(g), NEW uncertain
    PROVE  Finds(RebuiltStructure(g), g, uncertain, Shared(g))
<1> SUFFICES ASSUME NEW key \in UniqueKeys
             PROVE  LET n == lookup_unique_key(RebuiltStructure(g), key)
                    IN  /\ n \in NodeIds \ uncertain => n \in Owners(g, key)
                        /\ key \notin Shared(g) =>
                              \A o \in Owners(g, key) \ uncertain : n = o
  BY DEF Finds
<1> DEFINE n == lookup_unique_key(RebuiltStructure(g), key)
<1>1. n = IF Owners(g, key) = {} THEN Absent ELSE LastOwner(g, key)
  BY DEF lookup_unique_key, RebuiltStructure
<1>2. CASE Owners(g, key) = {}
  <2>1. n \notin NodeIds
    BY <1>1, <1>2, IndexAssumption
  <2> QED BY <1>2, <2>1
<1>3. CASE Owners(g, key) # {}
  <2>1. n \in Owners(g, key)
    BY <1>1, <1>3, LastOwnerOwns
  <2>2. ASSUME key \notin Shared(g), NEW o \in Owners(g, key) PROVE n = o
    <3>1. ~(Cardinality(Owners(g, key)) > 1)
      BY <2>2 DEF Shared
    <3> QED BY <2>1, <2>2, <3>1, SharedKey
  <2> QED BY <2>1, <2>2
<1> QED BY <1>2, <1>3

\* delete_node gives up the key only of its own node, upsert_node takes it.
LEMMA MutationFinds ==
    ASSUME NEW g \in Graphs, FiniteLive(g), NEW b \in WriteBatches, NEW s,
           NEW uncertain, NEW shared, Finds(s, g, uncertain, shared)
    PROVE  LET h == apply_batch_to_maps_unchecked(g, b)
           IN  Finds(MutatedStructure(s, plan_batch_mutation(g, b)), h,
                     uncertain \cup Rewired(g, b), shared \cup Shared(h))
<1> DEFINE m == plan_batch_mutation(g, b)
           h == apply_batch_to_maps_unchecked(g, b)
           t == MutatedStructure(s, m)
           U == uncertain \cup Rewired(g, b)
<1>1. FiniteLive(h) /\ FiniteLive(m.added)
  BY AppliedFinite, PlanFinite
<1>2. ASSUME NEW n \in NodeIds
      PROVE  /\ h[n] = IF Live(m.added, n) THEN m.added[n]
                       ELSE IF Live(m.removed, n) THEN Absent ELSE g[n]
             /\ m.removed[n] \in {g[n], Absent}
             /\ Live(m.added, n) => m.removed[n] = g[n]
  <2>1. n \in Keys \ Rewired(g, b)
    BY NodesAreNotRewired DEF Keys
  <2> QED BY <2>1, PlannedRecord
<1>3. ASSUME NEW key \in UniqueKeys
      PROVE  lookup_unique_key(t, key) =
               IF Owners(m.added, key) # {} THEN LastOwner(m.added, key)
               ELSE IF lookup_unique_key(s, key) \in Owners(m.removed, key) THEN Absent
               ELSE lookup_unique_key(s, key)
  BY DEF lookup_unique_key, MutatedStructure, MutatedKeys
<1>4. \A key, x : /\ x \in Owners(g, key) <=> /\ x \in NodeIds /\ g[x] # Absent
                                              /\ KeyOf[g[x].body] = key
                  /\ x \in Owners(h, key) <=> /\ x \in NodeIds /\ h[x] # Absent
                                              /\ KeyOf[h[x].body] = key
                  /\ x \in Owners(m.added, key)
                        <=> /\ x \in NodeIds /\ m.added[x] # Absent
                            /\ KeyOf[m.added[x].body] = key
                  /\ x \in Owners(m.removed, key)
                        <=> /\ x \in NodeIds /\ m.removed[x] # Absent
                            /\ KeyOf[m.removed[x].body] = key
  <2> HIDE DEF m, h
  <2> QED BY DEF Owners, LiveNodes, Live
<1> HIDE DEF m, h, t
<1>5. ASSUME NEW key \in UniqueKeys
      PROVE  /\ lookup_unique_key(t, key) \in NodeIds \ U
                  => lookup_unique_key(t, key) \in Owners(h, key)
             /\ key \notin shared \cup Shared(h) =>
                  \A o \in Owners(h, key) \ U : lookup_unique_key(t, key) = o
  <2> DEFINE n == lookup_unique_key(s, key)
             p == lookup_unique_key(t, key)
  <2>1. /\ n \in NodeIds \ uncertain => n \in Owners(g, key)
        /\ key \notin shared => \A o \in Owners(g, key) \ uncertain : n = o
    BY DEF Finds
  <2>2. CASE Owners(m.added, key) # {}
    <3>1. p = LastOwner(m.added, key)
      BY <1>3, <2>2
    <3>2. p \in Owners(m.added, key)
      BY <1>1, <2>2, <3>1, LastOwnerOwns
    <3>3. p \in Owners(h, key)
      BY <3>2, <1>2, <1>4 DEF Live
    <3>4. ASSUME key \notin Shared(h), NEW o \in Owners(h, key) PROVE p = o
      <4>1. ~(Cardinality(Owners(h, key)) > 1)
        BY <3>4 DEF Shared
      <4> QED BY <1>1, <3>3, <3>4, <4>1, SharedKey
    <3> QED BY <3>3, <3>4
  <2>3. CASE Owners(m.added, key) = {}
    <3>1. ASSUME NEW o \in Owners(h, key)
          PROVE  o \in Owners(g, key) /\ m.removed[o] = Absent
      <4>1. o \in NodeIds /\ h[o] # Absent /\ KeyOf[h[o].body] = key
        BY <1>4
      <4>2. ~Live(m.added, o)
        BY <1>2, <1>4, <2>3, <4>1 DEF Live
      <4> QED BY <1>2, <1>4, <4>1, <4>2 DEF Live
    <3>2. CASE n \in Owners(m.removed, key)
      <4>1. p = Absent /\ p \notin NodeIds
        BY <1>3, <2>3, <3>2, IndexAssumption
      <4>2. ASSUME key \notin shared, NEW o \in Owners(h, key) \ uncertain PROVE FALSE
        BY <2>1, <3>1, <3>2, <4>2, <1>4
      <4> QED BY <4>1, <4>2
    <3>3. CASE n \notin Owners(m.removed, key)
      <4>1. p = n
        BY <1>3, <2>3, <3>3
      <4>2. ASSUME n \in Owners(g, key) PROVE n \in Owners(h, key)
        <5>1. n \in NodeIds /\ g[n] # Absent /\ KeyOf[g[n].body] = key
          BY <1>4, <4>2
        <5>2. m.removed[n] = Absent
          BY <1>2, <1>4, <3>3, <5>1
        <5>3. ~Live(m.added, n)
          BY <1>2, <5>1, <5>2
        <5>4. h[n] = g[n]
          BY <1>2, <5>1, <5>2, <5>3 DEF Live
        <5> QED BY <1>4, <5>1, <5>4
      <4> QED BY <2>1, <3>1, <4>1, <4>2
    <3> QED BY <3>2, <3>3
  <2> QED BY <2>2, <2>3
<1> QED BY <1>5 DEF Finds, m, h, t

\* A batch that never reached the index only makes its own nodes uncertain.
LEMMA UnrecordedFinds ==
    ASSUME NEW g, NEW b \in WriteBatches, NEW s,
           NEW uncertain, NEW shared, Finds(s, g, uncertain, shared)
    PROVE  LET h == apply_batch_to_maps_unchecked(g, b)
           IN  Finds(s, h, uncertain \cup batch_effects(g, b), shared \cup Shared(h))
<1> DEFINE h == apply_batch_to_maps_unchecked(g, b)
<1>1. \A n \in NodeIds \ batch_effects(g, b) : h[n] = g[n]
  BY AppliedOutside DEF Keys
<1>2. \A n \in NodeIds \ batch_effects(g, b) : \A key :
          n \in Owners(h, key) <=> n \in Owners(g, key)
  <2> HIDE DEF h
  <2> QED BY <1>1 DEF Owners, LiveNodes, Live
<1>3. \A key : Owners(h, key) \subseteq NodeIds
  BY DEF Owners, LiveNodes
<1> HIDE DEF h
<1>4. Finds(s, h, uncertain \cup batch_effects(g, b), shared \cup Shared(h))
  BY <1>2, <1>3 DEF Finds
<1> QED BY <1>4 DEF h

\* A unique key finds a node or nothing.
KeysTyped(s) ==
    \A key \in UniqueKeys : lookup_unique_key(s, key) \in NodeIds \cup {Absent}

LEMMA RebuiltKeysTyped ==
    ASSUME NEW g, FiniteLive(g) PROVE KeysTyped(RebuiltStructure(g))
<1> SUFFICES ASSUME NEW key \in UniqueKeys
             PROVE  lookup_unique_key(RebuiltStructure(g), key) \in NodeIds \cup {Absent}
  BY DEF KeysTyped
<1>1. lookup_unique_key(RebuiltStructure(g), key) =
        IF Owners(g, key) = {} THEN Absent ELSE LastOwner(g, key)
  BY DEF lookup_unique_key, RebuiltStructure
<1>2. Owners(g, key) \subseteq NodeIds
  BY DEF Owners, LiveNodes
<1> QED BY <1>1, <1>2, LastOwnerOwns

LEMMA MutatedKeysTyped ==
    ASSUME NEW s, KeysTyped(s), NEW m, FiniteLive(m.added)
    PROVE  KeysTyped(MutatedStructure(s, m))
<1> SUFFICES ASSUME NEW key \in UniqueKeys
             PROVE  lookup_unique_key(MutatedStructure(s, m), key) \in NodeIds \cup {Absent}
  BY DEF KeysTyped
<1>1. lookup_unique_key(MutatedStructure(s, m), key) =
        IF Owners(m.added, key) # {} THEN LastOwner(m.added, key)
        ELSE IF lookup_unique_key(s, key) \in Owners(m.removed, key) THEN Absent
        ELSE lookup_unique_key(s, key)
  BY DEF lookup_unique_key, MutatedStructure, MutatedKeys
<1>2. Owners(m.added, key) \subseteq NodeIds
  BY DEF Owners, LiveNodes
<1>3. Owners(m.added, key) # {} => LastOwner(m.added, key) \in NodeIds
  BY <1>2, LastOwnerOwns
<1> QED BY <1>1, <1>3 DEF KeysTyped


-----------------------------------------------------------------------------
(* Vector spaces under a batch                                             *)

\* The states a space goes through while the nodes of out leave it ...
Leaving(f, s, out) ==
    f = [i \in 0 .. Len(out) |-> IF i = 0 THEN s ELSE WithoutNode(f[i - 1], out[i])]

\* ... and while the nodes of in enter it with the vectors of g.
Entering(f, s, in, g, name, full) ==
    f = [i \in 0 .. Len(in) |->
           IF i = 0 THEN s
           ELSE WithNode(f[i - 1], in[i], Vec(g[in[i]], name), full)]

LEMMA LeavingExists ==
    ASSUME NEW s, NEW out, Len(out) \in Nat
    PROVE  \E f : Leaving(f, s, out)
<1> DEFINE Part(f, k) ==
             f = [i \in 0 .. k |-> IF i = 0 THEN s ELSE WithoutNode(f[i - 1], out[i])]
           T == {k \in Nat : \E f : Part(f, k)}
<1>1. 0 \in T
  <2> DEFINE f == [i \in 0 .. 0 |-> s]
  <2>1. Part(f, 0)
    OBVIOUS
  <2> HIDE DEF Part
  <2> QED BY <2>1
<1>2. ASSUME NEW k \in Nat, k \in T PROVE k + 1 \in T
  <2>1. PICK f : Part(f, k)
    BY <1>2
  <2> DEFINE h == [i \in 0 .. k + 1 |->
                     IF i = k + 1 THEN WithoutNode(f[k], out[k + 1]) ELSE f[i]]
  <2>2. /\ \A i \in 0 .. k : f[i] = IF i = 0 THEN s ELSE WithoutNode(f[i - 1], out[i])
    BY <2>1
  <2>3. ASSUME NEW i \in 0 .. k + 1
        PROVE  h[i] = IF i = 0 THEN s ELSE WithoutNode(h[i - 1], out[i])
    <3>1. CASE i = k + 1
      <4>1. h[i] = WithoutNode(f[k], out[k + 1]) /\ i # 0 /\ i - 1 = k /\ h[k] = f[k]
        BY <3>1
      <4> QED BY <3>1, <4>1
    <3>2. CASE i # k + 1
      <4>1. i \in 0 .. k /\ h[i] = f[i]
        BY <3>2
      <4>2. i # 0 => i - 1 \in 0 .. k /\ h[i - 1] = f[i - 1]
        BY <4>1
      <4> QED BY <2>2, <4>1, <4>2
    <3> QED BY <3>1, <3>2
  <2>4. Part(h, k + 1)
    <3>1. h = [i \in 0 .. k + 1 |-> h[i]]
      OBVIOUS
    <3> HIDE DEF h
    <3>2. [i \in 0 .. k + 1 |-> h[i]]
            = [i \in 0 .. k + 1 |-> IF i = 0 THEN s ELSE WithoutNode(h[i - 1], out[i])]
      BY <2>3
    <3> QED BY <3>1, <3>2
  <2> HIDE DEF Part
  <2> QED BY <2>4
<1> HIDE DEF T
<1>3. Nat \subseteq T
  BY <1>1, <1>2, NaturalsBySuccessor
<1>4. PICK f : Part(f, Len(out))
  BY <1>3 DEF T
<1>5. Leaving(f, s, out)
  BY <1>4 DEF Leaving
<1> QED BY <1>5

LEMMA EnteringExists ==
    ASSUME NEW s, NEW in, NEW g, NEW name, NEW full, Len(in) \in Nat
    PROVE  \E f : Entering(f, s, in, g, name, full)
<1> DEFINE Next1(x, i) == WithNode(x, in[i], Vec(g[in[i]], name), full)
           Part(f, k) == f = [i \in 0 .. k |-> IF i = 0 THEN s ELSE Next1(f[i - 1], i)]
           T == {k \in Nat : \E f : Part(f, k)}
<1>1. 0 \in T
  <2> DEFINE f == [i \in 0 .. 0 |-> s]
  <2>1. Part(f, 0)
    OBVIOUS
  <2> HIDE DEF Part
  <2> QED BY <2>1
<1>2. ASSUME NEW k \in Nat, k \in T PROVE k + 1 \in T
  <2>1. PICK f : Part(f, k)
    BY <1>2
  <2> DEFINE h == [i \in 0 .. k + 1 |->
                     IF i = k + 1 THEN Next1(f[k], k + 1) ELSE f[i]]
  <2> HIDE DEF Next1
  <2>2. /\ \A i \in 0 .. k : f[i] = IF i = 0 THEN s ELSE Next1(f[i - 1], i)
    BY <2>1
  <2>3. ASSUME NEW i \in 0 .. k + 1
        PROVE  h[i] = IF i = 0 THEN s ELSE Next1(h[i - 1], i)
    <3>1. CASE i = k + 1
      <4>1. h[i] = Next1(f[k], k + 1) /\ i # 0 /\ i - 1 = k /\ h[k] = f[k]
        BY <3>1
      <4> QED BY <3>1, <4>1
    <3>2. CASE i # k + 1
      <4>1. i \in 0 .. k /\ h[i] = f[i]
        BY <3>2
      <4>2. i # 0 => i - 1 \in 0 .. k /\ h[i - 1] = f[i - 1]
        BY <4>1
      <4> QED BY <2>2, <4>1, <4>2
    <3> QED BY <3>1, <3>2
  <2>4. Part(h, k + 1)
    <3>1. h = [i \in 0 .. k + 1 |-> h[i]]
      OBVIOUS
    <3> HIDE DEF h
    <3>2. [i \in 0 .. k + 1 |-> h[i]]
            = [i \in 0 .. k + 1 |-> IF i = 0 THEN s ELSE Next1(h[i - 1], i)]
      BY <2>3
    <3> QED BY <3>1, <3>2
  <2> HIDE DEF Part
  <2> QED BY <2>4
<1> HIDE DEF T, Next1
<1>3. Nat \subseteq T
  BY <1>1, <1>2, NaturalsBySuccessor
<1>4. PICK f : Part(f, Len(in))
  BY <1>3 DEF T
<1>5. Entering(f, s, in, g, name, full)
  BY <1>4 DEF Entering, Next1
<1> QED BY <1>5

\* MutatedSpace takes the nodes out one by one, then in one by one.
LEMMA MutatedSpaceSteps ==
    ASSUME NEW space, NEW content, NEW name, NEW m, NEW full,
           Len(InOrder(LiveNodes(m.removed))) \in Nat,
           Len(InOrder(LiveNodes(m.added))) \in Nat
    PROVE  LET out == InOrder(LiveNodes(m.removed))
               in == InOrder(LiveNodes(m.added))
           IN  \E d, u :
                 /\ Leaving(d, [space |-> space, content |-> content], out)
                 /\ Entering(u, d[Len(out)], in, m.added, name, full)
                 /\ MutatedSpace(space, content, name, m, full) = u[Len(in)]
<1> DEFINE out == InOrder(LiveNodes(m.removed))
           in == InOrder(LiveNodes(m.added))
           s == [space |-> space, content |-> content]
           d == CHOOSE f : Leaving(f, s, out)
           u == CHOOSE f : Entering(f, d[Len(out)], in, m.added, name, full)
<1>1. Leaving(d, s, out)
  BY LeavingExists
<1>2. Entering(u, d[Len(out)], in, m.added, name, full)
  BY EnteringExists
<1>3. MutatedSpace(space, content, name, m, full) = u[Len(in)]
  BY Zenon DEF MutatedSpace, Leaving, Entering
<1> QED BY <1>1, <1>2, <1>3

\* A space and the content of its runtime, as MutatedSpace carries them along.
IsState(x) ==
    x = [space |-> [candidates |-> x.space.candidates,
                    dimension |-> x.space.dimension,
                    runtime |-> x.space.runtime],
         content |-> [k \in NodeIds |-> x.content[k]]]

\* delete_node: the node is no candidate any more, the others stay; a runtime
\* that is kept has no vector of it.
LEMMA WithoutNodeIs ==
    ASSUME NEW x, IsState(x), NEW n \in NodeIds
    PROVE  LET y == WithoutNode(x, n)
           IN  /\ IsState(y)
               /\ y.space.candidates = x.space.candidates \ {n}
               /\ y.space.candidates # {} => y.space.dimension = x.space.dimension
               /\ y.space.runtime \in {0, x.space.runtime}
               /\ \A k \in NodeIds \ {n} : y.content[k] = x.content[k]
               /\ y.space.runtime # 0 => y.content[n] = Absent
               /\ x.space.runtime = 0 => y.content = x.content
<1> DEFINE y == WithoutNode(x, n)
           left == x.space.candidates \ {n}
           cleared == [x.content EXCEPT ![n] = Absent]
<1>1. /\ y.space = IF left = {} THEN NoSpace ELSE [x.space EXCEPT !.candidates = left]
      /\ y.content = IF x.space.runtime = 0 THEN x.content ELSE cleared
      /\ y = [space |-> y.space, content |-> y.content]
  BY DEF WithoutNode
<1>2. /\ x.space = [candidates |-> x.space.candidates, dimension |-> x.space.dimension,
                    runtime |-> x.space.runtime]
      /\ x.content = [k \in NodeIds |-> x.content[k]]
  BY DEF IsState
<1>3. [x.space EXCEPT !.candidates = left] =
        [candidates |-> left, dimension |-> x.space.dimension, runtime |-> x.space.runtime]
  BY <1>2
<1>4. /\ cleared = [k \in NodeIds |-> cleared[k]]
      /\ cleared[n] = Absent
      /\ \A k \in NodeIds \ {n} : cleared[k] = x.content[k]
  BY <1>2
<1> HIDE DEF y, left, cleared
<1>5. y.content = [k \in NodeIds |-> y.content[k]]
  BY <1>1, <1>2, <1>4
<1>6. y.space = [candidates |-> y.space.candidates, dimension |-> y.space.dimension,
                 runtime |-> y.space.runtime]
  BY <1>1, <1>3 DEF NoSpace
<1>7. IsState(y)
  BY <1>1, <1>5, <1>6 DEF IsState
<1>8. /\ y.space.candidates = left
      /\ left # {} => y.space.dimension = x.space.dimension
      /\ y.space.runtime \in {0, x.space.runtime}
  BY <1>1, <1>3 DEF NoSpace
<1> QED BY <1>1, <1>4, <1>7, <1>8 DEF y, left

\* upsert_node: a runtime that is kept has the node's vector; with one
\* dimension the candidates are the nodes that have a vector.
LEMMA WithNodeIs ==
    ASSUME NEW x, IsState(x), NEW n \in NodeIds, NEW v, NEW full
    PROVE  LET y == WithNode(x, n, v, full)
           IN  /\ IsState(y)
               /\ y.space.runtime \in {0, x.space.runtime}
               /\ \A k \in NodeIds \ {n} : y.content[k] = x.content[k]
               /\ y.space.runtime # 0 => y.content[n] = v
               /\ x.space.runtime = 0 => y.content = x.content
               /\ v = Absent =>
                    /\ y.space.candidates = x.space.candidates \ {n}
                    /\ y.space.candidates # {}
                          => y.space.dimension = x.space.dimension
               /\ (v # Absent /\ (x.space.candidates # {}
                                    => x.space.dimension = DimensionOf[v])) =>
                    /\ y.space.candidates = x.space.candidates \cup {n}
                    /\ y.space.dimension = DimensionOf[v]
<1> DEFINE y == WithNode(x, n, v, full)
<1>1. /\ x.space = [candidates |-> x.space.candidates, dimension |-> x.space.dimension,
                    runtime |-> x.space.runtime]
      /\ x.content = [k \in NodeIds |-> x.content[k]]
      /\ x = [space |-> x.space, content |-> x.content]
  BY DEF IsState
<1>2. CASE v = Absent
  <2>1. y = WithoutNode(x, n)
    BY <1>2 DEF WithNode
  <2> QED BY <1>2, <2>1, WithoutNodeIs
<1>3. CASE v # Absent /\ x.space.candidates = {}
  <2>1. y = [space |-> [candidates |-> {n}, dimension |-> DimensionOf[v], runtime |-> 0],
             content |-> x.content]
    BY <1>1, <1>3 DEF WithNode
  <2> HIDE DEF y
  <2>2. IsState(y)
    BY <1>1, <2>1 DEF IsState
  <2> QED BY <1>3, <2>1, <2>2 DEF y
<1>4. CASE /\ v # Absent /\ x.space.candidates # {}
           /\ x.space.dimension # DimensionOf[v]
  <2> DEFINE z == WithoutNode(x, n)
  <2>1. y = [z EXCEPT !.space.runtime = 0]
    BY <1>4 DEF WithNode, Mismatch
  <2>2. /\ IsState(z)
        /\ \A k \in NodeIds \ {n} : z.content[k] = x.content[k]
        /\ x.space.runtime = 0 => z.content = x.content
    BY WithoutNodeIs
  <2> HIDE DEF z, y
  <2>3. /\ z.space = [candidates |-> z.space.candidates, dimension |-> z.space.dimension,
                      runtime |-> z.space.runtime]
        /\ z.content = [k \in NodeIds |-> z.content[k]]
        /\ z = [space |-> z.space, content |-> z.content]
    BY <2>2 DEF IsState
  <2>4. y = [space |-> [candidates |-> z.space.candidates, dimension |-> z.space.dimension,
                        runtime |-> 0],
             content |-> z.content]
    BY <2>1, <2>3
  <2>5. IsState(y)
    BY <2>3, <2>4 DEF IsState
  <2> QED BY <1>4, <2>2, <2>4, <2>5 DEF y
<1>5. CASE /\ v # Absent /\ x.space.candidates # {}
           /\ x.space.dimension = DimensionOf[v]
  <2> DEFINE in == [x EXCEPT !.space.candidates = @ \cup {n}]
             more == [candidates |-> x.space.candidates \cup {n},
                      dimension |-> x.space.dimension, runtime |-> x.space.runtime]
  <2>1. in = [space |-> more, content |-> x.content]
    <3> DEFINE C == x.space.candidates \cup {n}
    <3>1. in = [x EXCEPT !.space.candidates = C]
      OBVIOUS
    <3> HIDE DEF C, in
    <3>2. in = [space |-> [candidates |-> C, dimension |-> x.space.dimension,
                           runtime |-> x.space.runtime], content |-> x.content]
      BY <1>1, <3>1
    <3> QED BY <3>2 DEF C
  <2>2. y = IF x.space.runtime = 0 THEN in
            ELSE IF full THEN [in EXCEPT !.space.runtime = 0]
            ELSE [in EXCEPT !.content[n] = v]
    BY <1>5 DEF WithNode
  <2> HIDE DEF in, y
  <2>3. CASE x.space.runtime = 0
    <3>1. IsState(y)
      BY <1>1, <2>1, <2>2, <2>3 DEF IsState
    <3> QED BY <1>5, <2>1, <2>2, <2>3, <3>1 DEF y
  <2>4. CASE x.space.runtime # 0 /\ full
    <3>1. y = [space |-> [candidates |-> x.space.candidates \cup {n},
                          dimension |-> x.space.dimension, runtime |-> 0],
               content |-> x.content]
      BY <2>1, <2>2, <2>4
    <3>2. IsState(y)
      BY <1>1, <3>1 DEF IsState
    <3>3. /\ y.space.candidates = x.space.candidates \cup {n}
          /\ y.space.dimension = x.space.dimension
          /\ y.space.runtime = 0 /\ y.content = x.content
      BY <3>1
    <3> QED BY <1>5, <2>4, <3>2, <3>3 DEF y
  <2>5. CASE x.space.runtime # 0 /\ ~full
    <3>1. y = [space |-> more, content |-> [x.content EXCEPT ![n] = v]]
      BY <2>1, <2>2, <2>5
    <3>2. [x.content EXCEPT ![n] = v] =
            [k \in NodeIds |-> IF k = n THEN v ELSE x.content[k]]
      BY <1>1
    <3>3. IsState(y)
      BY <1>1, <3>1, <3>2 DEF IsState
    <3> QED BY <1>5, <2>5, <3>1, <3>2, <3>3 DEF y
  <2> QED BY <2>3, <2>4, <2>5
<1> QED BY <1>2, <1>3, <1>4, <1>5

\* Sorting a finite set of nodes by identifier lists exactly its members.
LEMMA InOrderLists ==
    ASSUME NEW S \in SUBSET NodeIds, IsFiniteSet(S)
    PROVE  LET o == InOrder(S)
           IN  /\ Len(o) = Cardinality(S) /\ Len(o) \in Nat
               /\ \A i \in 1 .. Len(o) : o[i] \in S
               /\ \A n \in S : \E i \in 1 .. Len(o) : o[i] = n
<1> DEFINE N == Cardinality(S)
           Before(n) == {m \in S : IdOrder[m] < IdOrder[n]}
           rank == [n \in S |-> Cardinality(Before(n))]
<1>1. N \in Nat
  BY FS_CardinalityType
<1>2. ASSUME NEW n \in S PROVE IsFiniteSet(Before(n)) /\ rank[n] \in 0 .. N - 1
  <2>1. Before(n) \in SUBSET S /\ n \notin Before(n)
    BY IndexAssumption
  <2> HIDE DEF Before
  <2>2. IsFiniteSet(Before(n)) /\ Cardinality(Before(n)) <= N
        /\ Cardinality(Before(n)) \in Nat
        /\ (N = Cardinality(Before(n)) => S = Before(n))
    BY <2>1, FS_Subset, FS_CardinalityType
  <2> QED BY <1>1, <2>1, <2>2
<1>3. ASSUME NEW m \in S, NEW n \in S, IdOrder[m] < IdOrder[n] PROVE rank[m] < rank[n]
  <2>1. \A k \in S : IdOrder[k] \in Nat
    BY IndexAssumption
  <2>2. Before(m) \in SUBSET Before(n) /\ m \in Before(n) /\ m \notin Before(m)
    BY <1>3, <2>1
  <2>3. IsFiniteSet(Before(n)) /\ IsFiniteSet(Before(m))
    BY <1>2
  <2> HIDE DEF Before
  <2>4. /\ Cardinality(Before(m)) <= Cardinality(Before(n))
        /\ Cardinality(Before(n)) = Cardinality(Before(m)) => Before(n) = Before(m)
        /\ Cardinality(Before(m)) \in Nat /\ Cardinality(Before(n)) \in Nat
    BY <2>2, <2>3, FS_Subset, FS_CardinalityType
  <2> QED BY <2>2, <2>4
<1>4. ASSUME NEW m \in S, NEW n \in S, rank[m] = rank[n] PROVE m = n
  <2>1. IdOrder[m] \in Nat /\ IdOrder[n] \in Nat /\ (IdOrder[m] = IdOrder[n] => m = n)
    BY IndexAssumption
  <2>2. rank[m] \in Nat /\ rank[n] \in Nat
    <3>1. rank[m] \in 0 .. N - 1 /\ rank[n] \in 0 .. N - 1
      BY <1>2
    <3> HIDE DEF rank
    <3> QED BY <1>1, <3>1
  <2>3. ~(IdOrder[m] < IdOrder[n]) /\ ~(IdOrder[n] < IdOrder[m])
    BY <1>3, <1>4, <2>2
  <2> QED BY <2>1, <2>3
<1>5. rank \in Injection(S, 0 .. N - 1)
  <2>1. rank \in [S -> 0 .. N - 1]
    BY <1>2
  <2>2. \A m, n \in S : rank[m] = rank[n] => m = n
    BY <1>4
  <2> HIDE DEF rank, N
  <2> QED BY <2>1, <2>2 DEF Injection, IsInjective
<1>6. IsFiniteSet(0 .. N - 1) /\ Cardinality(0 .. N - 1) = N
  <2>1. 0 \in Int /\ N - 1 \in Int
    BY <1>1
  <2>2. IsFiniteSet(0 .. N - 1)
        /\ Cardinality(0 .. N - 1) = IF 0 > N - 1 THEN 0 ELSE N - 1 - 0 + 1
    BY <2>1, FS_Interval
  <2> QED BY <1>1, <2>2
<1>7. rank \in Surjection(S, 0 .. N - 1)
  <2> HIDE DEF rank
  <2> QED BY <1>5, <1>6, FS_Injection
<1>8. \A j \in 0 .. N - 1 : \E n \in S : rank[n] = j
  <2> HIDE DEF rank
  <2> QED BY <1>7 DEF Surjection
<1> DEFINE o == InOrder(S)
<1>9. /\ o = [i \in 1 .. N |-> o[i]]
      /\ \A i \in 1 .. N : o[i] = CHOOSE n \in S : rank[n] = i - 1
  <2>1. o = [i \in 1 .. N |-> CHOOSE n \in S : Cardinality(Before(n)) = i - 1]
    BY DEF InOrder
  <2>2. ASSUME NEW i
        PROVE  (CHOOSE n \in S : Cardinality(Before(n)) = i - 1)
                  = (CHOOSE n \in S : rank[n] = i - 1)
    <3>1. \A n \in S : rank[n] = Cardinality(Before(n))
      OBVIOUS
    <3> HIDE DEF Before, rank
    <3>2. \A n : (n \in S /\ Cardinality(Before(n)) = i - 1) <=> (n \in S /\ rank[n] = i - 1)
      BY <3>1
    <3> QED BY <3>2
  <2> HIDE DEF Before, rank, o
  <2>3. /\ o = [i \in 1 .. N |-> o[i]]
        /\ \A i \in 1 .. N : o[i] = CHOOSE n \in S : Cardinality(Before(n)) = i - 1
    BY <2>1
  <2> QED BY <2>2, <2>3
<1> HIDE DEF rank, Before, o
<1>10. ASSUME NEW i \in 1 .. N PROVE o[i] \in S /\ rank[o[i]] = i - 1
  <2>1. i - 1 \in 0 .. N - 1
    BY <1>1
  <2>2. \E n \in S : rank[n] = i - 1
    BY <1>8, <2>1
  <2> QED BY <1>9, <2>2
<1>11. Len(o) = N
  <2>1. o \in Seq(S)
    BY <1>1, <1>9, <1>10
  <2> QED BY <1>1, <1>9, <2>1
<1>12. ASSUME NEW n \in S PROVE \E i \in 1 .. N : o[i] = n
  <2>1. rank[n] \in 0 .. N - 1 /\ rank[n] + 1 \in 1 .. N /\ rank[n] + 1 - 1 = rank[n]
    BY <1>1, <1>2
  <2>2. o[rank[n] + 1] \in S /\ rank[o[rank[n] + 1]] = rank[n]
    BY <1>10, <2>1
  <2>3. o[rank[n] + 1] = n
    BY <1>4, <2>2
  <2> QED BY <2>1, <2>3
<1> QED BY <1>1, <1>10, <1>11, <1>12 DEF o

\* A space once the nodes of gone have left it.
LeftBy(y, s, gone) ==
    /\ IsState(y)
    /\ y.space.candidates = s.space.candidates \ gone
    /\ y.space.candidates # {} => y.space.dimension = s.space.dimension
    /\ y.space.runtime \in {0, s.space.runtime}
    /\ \A k \in NodeIds \ gone : y.content[k] = s.content[k]
    /\ y.space.runtime # 0 => \A k \in gone : y.content[k] = Absent
    /\ s.space.runtime = 0 => y.content = s.content

\* A space once the nodes of come have entered it with the vectors of g.
EnteredBy(y, s, come, g, name) ==
    /\ IsState(y)
    /\ y.space.runtime \in {0, s.space.runtime}
    /\ \A k \in NodeIds \ come : y.content[k] = s.content[k]
    /\ y.space.runtime # 0 => \A k \in come : y.content[k] = Vec(g[k], name)
    /\ s.space.runtime = 0 => y.content = s.content

\* The candidates, when all vectors have dimension d.
CandidatesBy(y, s, come, g, name, d) ==
    /\ y.space.candidates = (s.space.candidates \ come)
                               \cup {k \in come : Vec(g[k], name) # Absent}
    /\ y.space.candidates # {} => y.space.dimension = d

LEMMA LeavingIs ==
    ASSUME NEW f, NEW s, NEW out, Leaving(f, s, out), IsState(s), Len(out) \in Nat,
           \A i \in 1 .. Len(out) : out[i] \in NodeIds
    PROVE  LeftBy(f[Len(out)], s, {out[i] : i \in 1 .. Len(out)})
<1> DEFINE Gone(i) == {out[j] : j \in 1 .. i}
           T == {i \in Nat : i <= Len(out) => LeftBy(f[i], s, Gone(i))}
<1>1. \A i \in 0 .. Len(out) :
         f[i] = IF i = 0 THEN s ELSE WithoutNode(f[i - 1], out[i])
  BY DEF Leaving
<1>2. 0 \in T
  <2>1. f[0] = s /\ Gone(0) = {}
    BY <1>1
  <2> HIDE DEF Gone
  <2>2. LeftBy(f[0], s, Gone(0))
    BY <2>1 DEF LeftBy
  <2> QED BY <2>2
<1>3. ASSUME NEW i \in Nat, i \in T PROVE i + 1 \in T
  <2> SUFFICES ASSUME i + 1 <= Len(out) PROVE LeftBy(f[i + 1], s, Gone(i + 1))
    OBVIOUS
  <2>1. f[i + 1] = WithoutNode(f[i], out[i + 1]) /\ out[i + 1] \in NodeIds
    <3>1. i + 1 \in 0 .. Len(out) /\ i + 1 \in 1 .. Len(out) /\ i + 1 # 0 /\ i + 1 - 1 = i
      OBVIOUS
    <3> QED BY <1>1, <3>1
  <2>2. LeftBy(f[i], s, Gone(i))
    BY <1>3
  <2>3. Gone(i + 1) = Gone(i) \cup {out[i + 1]}
    <3>1. 1 .. i + 1 = (1 .. i) \cup {i + 1}
      OBVIOUS
    <3> QED BY <3>1
  <2> HIDE DEF Gone
  <2> DEFINE x == f[i]
             y == f[i + 1]
             n == out[i + 1]
  <2>4. /\ IsState(y)
        /\ y.space.candidates = x.space.candidates \ {n}
        /\ y.space.candidates # {} => y.space.dimension = x.space.dimension
        /\ y.space.runtime \in {0, x.space.runtime}
        /\ \A k \in NodeIds \ {n} : y.content[k] = x.content[k]
        /\ y.space.runtime # 0 => y.content[n] = Absent
        /\ x.space.runtime = 0 => y.content = x.content
    <3>1. IsState(x) /\ n \in NodeIds /\ y = WithoutNode(x, n)
      BY <2>1, <2>2 DEF LeftBy
    <3> HIDE DEF x, y, n
    <3> QED BY <3>1, WithoutNodeIs
  <2>5. Gone(i) \subseteq NodeIds
    <3>1. \A j \in 1 .. i : out[j] \in NodeIds
      OBVIOUS
    <3> QED BY <3>1 DEF Gone
  <2> HIDE DEF x, y, n
  <2>6. LeftBy(x, s, Gone(i)) /\ Gone(i + 1) = Gone(i) \cup {n} /\ n \in NodeIds
    BY <2>1, <2>2, <2>3 DEF x, n
  <2>7. LeftBy(y, s, Gone(i + 1))
    BY <2>4, <2>5, <2>6 DEF LeftBy
  <2> QED BY <2>7 DEF y
<1> HIDE DEF T
<1>4. Nat \subseteq T
  BY <1>2, <1>3, NaturalsBySuccessor
<1>5. LeftBy(f[Len(out)], s, Gone(Len(out)))
  <2>1. Len(out) \in T /\ Len(out) <= Len(out)
    BY <1>4
  <2> HIDE DEF Gone
  <2> QED BY <2>1 DEF T
<1> QED BY <1>5

LEMMA EnteringIs ==
    ASSUME NEW f, NEW s, NEW in, NEW g, NEW name, NEW full,
           Entering(f, s, in, g, name, full), IsState(s), Len(in) \in Nat,
           \A i \in 1 .. Len(in) : in[i] \in NodeIds, NEW d
    PROVE  LET come == {in[i] : i \in 1 .. Len(in)}
           IN  /\ EnteredBy(f[Len(in)], s, come, g, name)
               /\ (/\ s.space.candidates # {} => s.space.dimension = d
                   /\ \A k \in come : Vec(g[k], name) # Absent
                                        => DimensionOf[Vec(g[k], name)] = d)
                     => CandidatesBy(f[Len(in)], s, come, g, name, d)
<1> DEFINE Come(i) == {in[j] : j \in 1 .. i}
           Uniform == /\ s.space.candidates # {} => s.space.dimension = d
                      /\ \A k \in Come(Len(in)) : Vec(g[k], name) # Absent
                                        => DimensionOf[Vec(g[k], name)] = d
           Good(i) == /\ EnteredBy(f[i], s, Come(i), g, name)
                      /\ Uniform => CandidatesBy(f[i], s, Come(i), g, name, d)
           T == {i \in Nat : i <= Len(in) => Good(i)}
<1>1. \A i \in 0 .. Len(in) :
         f[i] = IF i = 0 THEN s
                ELSE WithNode(f[i - 1], in[i], Vec(g[in[i]], name), full)
  BY DEF Entering
<1>2. 0 \in T
  <2>1. f[0] = s /\ Come(0) = {}
    BY <1>1
  <2> HIDE DEF Come
  <2>2. EnteredBy(f[0], s, Come(0), g, name)
    BY <2>1 DEF EnteredBy
  <2>3. Uniform => CandidatesBy(f[0], s, Come(0), g, name, d)
    BY <2>1 DEF CandidatesBy
  <2> QED BY <2>2, <2>3
<1>3. ASSUME NEW i \in Nat, i \in T PROVE i + 1 \in T
  <2> SUFFICES ASSUME i + 1 <= Len(in) PROVE Good(i + 1)
    OBVIOUS
  <2> DEFINE x == f[i]
             y == f[i + 1]
             n == in[i + 1]
             v == Vec(g[n], name)
  <2>1. y = WithNode(x, n, v, full) /\ n \in NodeIds
    <3>1. i + 1 \in 0 .. Len(in) /\ i + 1 \in 1 .. Len(in) /\ i + 1 # 0 /\ i + 1 - 1 = i
      OBVIOUS
    <3> QED BY <1>1, <3>1
  <2>2. Good(i)
    BY <1>3
  <2>3. Come(i + 1) = Come(i) \cup {n}
    <3>1. 1 .. i + 1 = (1 .. i) \cup {i + 1}
      OBVIOUS
    <3> QED BY <3>1
  <2>4. n \in Come(Len(in)) /\ Come(i) \subseteq NodeIds
    <3>1. i + 1 \in 1 .. Len(in) /\ \A j \in 1 .. i : in[j] \in NodeIds
      OBVIOUS
    <3> QED BY <3>1
  <2>5. IsState(x)
    BY <2>2 DEF EnteredBy
  <2> HIDE DEF Come, x, y, v
  <2>6. /\ IsState(y)
        /\ y.space.runtime \in {0, x.space.runtime}
        /\ \A k \in NodeIds \ {n} : y.content[k] = x.content[k]
        /\ y.space.runtime # 0 => y.content[n] = v
        /\ x.space.runtime = 0 => y.content = x.content
        /\ v = Absent =>
             /\ y.space.candidates = x.space.candidates \ {n}
             /\ y.space.candidates # {} => y.space.dimension = x.space.dimension
        /\ (v # Absent /\ (x.space.candidates # {} => x.space.dimension = DimensionOf[v]))
             => /\ y.space.candidates = x.space.candidates \cup {n}
                /\ y.space.dimension = DimensionOf[v]
    BY <2>1, <2>5, WithNodeIs
  <2>7. EnteredBy(y, s, Come(i + 1), g, name)
    <3>1. EnteredBy(x, s, Come(i), g, name)
      BY <2>2 DEF x
    <3> HIDE DEF n
    <3> QED BY <2>1, <2>3, <2>4, <2>6, <3>1 DEF EnteredBy, v
  <2>8. ASSUME Uniform PROVE CandidatesBy(y, s, Come(i + 1), g, name, d)
    <3>1. CandidatesBy(x, s, Come(i), g, name, d)
      BY <2>2, <2>8 DEF x
    <3>2. v # Absent => DimensionOf[v] = d
      BY <2>4, <2>8 DEF v
    <3> HIDE DEF n
    <3>3. CASE v = Absent
      BY <2>3, <2>6, <3>1, <3>3 DEF CandidatesBy, v
    <3>4. CASE v # Absent
      BY <2>3, <2>6, <3>1, <3>2, <3>4 DEF CandidatesBy, v
    <3> QED BY <3>3, <3>4
  <2> QED BY <2>7, <2>8 DEF y
<1> HIDE DEF T
<1>4. Nat \subseteq T
  BY <1>2, <1>3, NaturalsBySuccessor
<1>5. Good(Len(in))
  <2>1. Len(in) \in T /\ Len(in) <= Len(in)
    BY <1>4
  <2> HIDE DEF Good
  <2> QED BY <2>1 DEF T
<1> QED BY <1>5

\* A space under the plan of a batch.
LEMMA SpaceMutated ==
    ASSUME NEW g \in Graphs, FiniteLive(g), NEW b \in WriteBatches,
           NEW space, NEW content, NEW name, NEW full,
           IsState([space |-> space, content |-> content])
    PROVE  LET m == plan_batch_mutation(g, b)
               y == MutatedSpace(space, content, name, m, full)
               out == LiveNodes(m.removed)
               in == LiveNodes(m.added)
           IN  /\ IsState(y)
               /\ y.space.runtime \in {0, space.runtime}
               /\ \A k \in NodeIds \ (in \cup out) : y.content[k] = content[k]
               /\ y.space.runtime # 0 =>
                    \A k \in NodeIds :
                       y.content[k] = IF k \in in THEN Vec(m.added[k], name)
                                      ELSE IF k \in out THEN Absent ELSE content[k]
               /\ space.runtime = 0 => y.content = content
               /\ \A d :
                    (/\ space.candidates \ out # {} => space.dimension = d
                     /\ \A k \in in : Vec(m.added[k], name) # Absent
                                        => DimensionOf[Vec(m.added[k], name)] = d)
                    => /\ y.space.candidates =
                            ((space.candidates \ out) \ in)
                               \cup {k \in in : Vec(m.added[k], name) # Absent}
                       /\ y.space.candidates # {} => y.space.dimension = d
<1> DEFINE m == plan_batch_mutation(g, b)
           y == MutatedSpace(space, content, name, m, full)
           Out == LiveNodes(m.removed)
           In == LiveNodes(m.added)
           out == InOrder(Out)
           in == InOrder(In)
           s == [space |-> space, content |-> content]
<1>1. Out \in SUBSET NodeIds /\ In \in SUBSET NodeIds
  BY DEF LiveNodes
<1>2. IsFiniteSet(In)
  BY PlanFinite DEF FiniteLive
<1>3. IsFiniteSet(Out)
  <2>1. \A n \in NodeIds : m.removed[n] \in {g[n], Absent}
    BY PlannedNode
  <2> HIDE DEF m
  <2>2. Out \in SUBSET LiveNodes(g)
    BY <2>1 DEF LiveNodes, Live
  <2> QED BY <2>2, FS_Subset DEF FiniteLive
<1> HIDE DEF m, Out, In
<1>4. /\ Len(out) \in Nat
      /\ \A i \in 1 .. Len(out) : out[i] \in Out
      /\ \A n \in Out : \E i \in 1 .. Len(out) : out[i] = n
  BY <1>1, <1>3, InOrderLists
<1>5. /\ Len(in) \in Nat
      /\ \A i \in 1 .. Len(in) : in[i] \in In
      /\ \A n \in In : \E i \in 1 .. Len(in) : in[i] = n
  BY <1>1, <1>2, InOrderLists
<1> DEFINE Steps(d, u) == /\ Leaving(d, s, out)
                          /\ Entering(u, d[Len(out)], in, m.added, name, full)
                          /\ y = u[Len(in)]
<1>6. \E d, u : Steps(d, u)
  <2>1. /\ Len(InOrder(LiveNodes(m.removed))) \in Nat
        /\ Len(InOrder(LiveNodes(m.added))) \in Nat
    BY <1>4, <1>5 DEF Out, In
  <2> QED BY <2>1, MutatedSpaceSteps DEF Out, In
<1> HIDE DEF out, in, y, s
<1>7. PICK d, u : Steps(d, u)
  BY <1>6
<1>8. {out[i] : i \in 1 .. Len(out)} = Out /\ {in[i] : i \in 1 .. Len(in)} = In
  BY <1>4, <1>5
<1> DEFINE x == d[Len(out)]
<1>9. LeftBy(x, s, Out)
  <2>1. IsState(s) /\ \A i \in 1 .. Len(out) : out[i] \in NodeIds
    BY <1>1, <1>4 DEF s
  <2>2. Leaving(d, s, out) /\ Len(out) \in Nat
    BY <1>4, <1>7
  <2>3. LeftBy(d[Len(out)], s, {out[i] : i \in 1 .. Len(out)})
    BY <2>1, <2>2, LeavingIs
  <2> QED BY <1>8, <2>3
<1>10. ASSUME NEW c
       PROVE  /\ EnteredBy(y, x, In, m.added, name)
              /\ (/\ x.space.candidates # {} => x.space.dimension = c
                  /\ \A k \in In : Vec(m.added[k], name) # Absent
                                     => DimensionOf[Vec(m.added[k], name)] = c)
                    => CandidatesBy(y, x, In, m.added, name, c)
  <2>1. IsState(x) /\ \A i \in 1 .. Len(in) : in[i] \in NodeIds
    BY <1>1, <1>5, <1>9 DEF LeftBy
  <2>2. Entering(u, x, in, m.added, name, full) /\ y = u[Len(in)]
    BY <1>7
  <2> HIDE DEF x
  <2> QED BY <1>5, <1>8, <2>1, <2>2, EnteringIs
<1> HIDE DEF x, Steps
<1>11. s.space = space /\ s.content = content
  BY DEF s
<1>12. EnteredBy(y, x, In, m.added, name)
  BY <1>10
<1>13. /\ IsState(y)
       /\ y.space.runtime \in {0, space.runtime}
       /\ \A k \in NodeIds \ (In \cup Out) : y.content[k] = content[k]
       /\ space.runtime = 0 => y.content = content
  BY <1>9, <1>11, <1>12 DEF LeftBy, EnteredBy
<1>14. ASSUME y.space.runtime # 0, NEW k \in NodeIds
       PROVE  y.content[k] = IF k \in In THEN Vec(m.added[k], name)
                             ELSE IF k \in Out THEN Absent ELSE content[k]
  BY <1>9, <1>11, <1>12, <1>14 DEF LeftBy, EnteredBy
<1>15. ASSUME NEW c, space.candidates \ Out # {} => space.dimension = c,
              \A k \in In : Vec(m.added[k], name) # Absent
                              => DimensionOf[Vec(m.added[k], name)] = c
       PROVE  /\ y.space.candidates =
                   ((space.candidates \ Out) \ In)
                      \cup {k \in In : Vec(m.added[k], name) # Absent}
              /\ y.space.candidates # {} => y.space.dimension = c
  <2>1. x.space.candidates = space.candidates \ Out
        /\ (x.space.candidates # {} => x.space.dimension = c)
    BY <1>9, <1>11, <1>15 DEF LeftBy
  <2>2. CandidatesBy(y, x, In, m.added, name, c)
    BY <1>10, <1>15, <2>1
  <2> QED BY <2>1, <2>2 DEF CandidatesBy
<1> QED BY <1>13, <1>14, <1>15 DEF m, y, Out, In


-----------------------------------------------------------------------------
(* Candidates                                                              *)

HolderOf(g, name, n) == n \in NodeIds /\ g[n] # Absent /\ Vec(g[n], name) # Absent

LEMMA HoldersAre ==
    ASSUME NEW g, NEW name, NEW n
    PROVE  n \in Holders(g, name) <=> HolderOf(g, name, n)
BY DEF Holders, LiveNodes, Live, HolderOf

\* A space whose candidates are the nodes with a vector, all of one dimension.
Exact(space, g, name) ==
    /\ space.candidates = Holders(g, name)
    /\ \A n \in Holders(g, name) : DimensionOf[Vec(g[n], name)] = space.dimension

\* As long as the nodes agree on a dimension the candidates stay exact.
LEMMA SpaceStaysExact ==
    ASSUME NEW g \in Graphs, FiniteLive(g), NEW b \in WriteBatches,
           NEW space, NEW content, NEW name, NEW full,
           IsState([space |-> space, content |-> content]),
           Exact(space, g, name),
           \A n, o \in Holders(apply_batch_to_maps_unchecked(g, b), name) :
              DimensionOf[Vec(apply_batch_to_maps_unchecked(g, b)[n], name)]
                = DimensionOf[Vec(apply_batch_to_maps_unchecked(g, b)[o], name)]
    PROVE  Exact(MutatedSpace(space, content, name, plan_batch_mutation(g, b), full).space,
                 apply_batch_to_maps_unchecked(g, b), name)
<1> DEFINE m == plan_batch_mutation(g, b)
           h == apply_batch_to_maps_unchecked(g, b)
           y == MutatedSpace(space, content, name, m, full)
           Out == LiveNodes(m.removed)
           In == LiveNodes(m.added)
           x == CHOOSE x \in Holders(h, name) : TRUE
           d == DimensionOf[Vec(h[x], name)]
<1>1. ASSUME NEW n \in NodeIds
      PROVE  /\ h[n] = IF n \in In THEN m.added[n]
                       ELSE IF n \in Out THEN Absent ELSE g[n]
             /\ n \in In => m.added[n] # Absent
             /\ n \in In => n \in Out \/ g[n] = Absent
             /\ n \in Out => n \in LiveNodes(g)
  <2>1. n \in Keys \ Rewired(g, b)
    BY NodesAreNotRewired DEF Keys
  <2>2. /\ h[n] = IF Live(m.added, n) THEN m.added[n]
                  ELSE IF Live(m.removed, n) THEN Absent ELSE g[n]
        /\ m.removed[n] \in {g[n], Absent}
        /\ Live(m.added, n) => m.removed[n] = g[n]
    BY <2>1, PlannedRecord
  <2> HIDE DEF m, h
  <2> QED BY <2>2 DEF LiveNodes, Live
<1>2. \A c :
        (/\ space.candidates \ Out # {} => space.dimension = c
         /\ \A k \in In : Vec(m.added[k], name) # Absent
                            => DimensionOf[Vec(m.added[k], name)] = c)
        => /\ y.space.candidates = ((space.candidates \ Out) \ In)
                                      \cup {k \in In : Vec(m.added[k], name) # Absent}
           /\ y.space.candidates # {} => y.space.dimension = c
  BY SpaceMutated
<1>3. In \subseteq NodeIds
  BY DEF LiveNodes
<1>4. \A n, o \in Holders(h, name) :
         DimensionOf[Vec(h[n], name)] = DimensionOf[Vec(h[o], name)]
  OBVIOUS
<1> HIDE DEF m, h, y, Out, In
<1>5. Holders(h, name) = ((Holders(g, name) \ Out) \ In)
                            \cup {k \in In : Vec(m.added[k], name) # Absent}
  <2>1. ASSUME NEW n
        PROVE  n \in Holders(h, name) <=>
                 n \in ((Holders(g, name) \ Out) \ In)
                          \cup {k \in In : Vec(m.added[k], name) # Absent}
    <3>1. CASE n \in NodeIds
      BY <1>1, <3>1, HoldersAre DEF HolderOf
    <3>2. CASE n \notin NodeIds
      BY <1>3, <3>2, HoldersAre DEF HolderOf
    <3> QED BY <3>1, <3>2
  <2> QED BY <2>1
<1>6. \A n \in Holders(h, name) : DimensionOf[Vec(h[n], name)] = d
  BY <1>4
<1> HIDE DEF d
<1>7. ASSUME NEW k \in In, Vec(m.added[k], name) # Absent
      PROVE  DimensionOf[Vec(m.added[k], name)] = d
  <2>1. k \in Holders(h, name)
    BY <1>5, <1>7
  <2>2. h[k] = m.added[k]
    BY <1>1, <1>3
  <2> QED BY <1>6, <2>1, <2>2
<1>8. ASSUME space.candidates \ Out # {} PROVE space.dimension = d
  <2>1. PICK k \in space.candidates : k \notin Out
    BY <1>8
  <2>2. k \in Holders(g, name) /\ DimensionOf[Vec(g[k], name)] = space.dimension
    BY <2>1 DEF Exact
  <2>3. k \in NodeIds /\ g[k] # Absent
    BY <2>2, HoldersAre DEF HolderOf
  <2>4. k \notin In /\ h[k] = g[k]
    BY <1>1, <2>1, <2>3
  <2>5. k \in Holders(h, name)
    BY <1>5, <2>1, <2>2, <2>4
  <2> QED BY <1>6, <2>2, <2>4, <2>5
<1>9. /\ y.space.candidates = Holders(h, name)
      /\ y.space.candidates # {} => y.space.dimension = d
  BY <1>2, <1>5, <1>7, <1>8 DEF Exact
<1>10. Exact(y.space, h, name)
  BY <1>6, <1>9 DEF Exact
<1> QED BY <1>10 DEF m, h, y

LEMMA RebuiltExact ==
    ASSUME NEW g, NEW name, NEW r,
           RebuiltSpace(g, name, r).candidates = Holders(g, name)
    PROVE  Exact(RebuiltSpace(g, name, r), g, name)
<1> DEFINE holders == Holders(g, name)
           first == CHOOSE n \in holders : \A m \in holders : IdOrder[n] <= IdOrder[m]
           dimension == DimensionOf[Vec(g[first], name)]
           candidates == {n \in holders : DimensionOf[Vec(g[n], name)] = dimension}
           build == /\ candidates = holders
                    /\ Cardinality(candidates) > ExactFallbackThreshold
<1>1. RebuiltSpace(g, name, r) =
        IF holders = {} THEN NoSpace
        ELSE [candidates |-> candidates, dimension |-> dimension,
              runtime |-> IF build THEN r ELSE 0]
  BY DEF RebuiltSpace
<1>2. CASE holders = {}
  BY <1>1, <1>2 DEF Exact
<1>3. CASE holders # {}
  <2>1. RebuiltSpace(g, name, r).candidates = candidates
        /\ RebuiltSpace(g, name, r).dimension = dimension
    <3> HIDE DEF holders, candidates, dimension, build
    <3> QED BY <1>1, <1>3
  <2>2. \A n \in holders : DimensionOf[Vec(g[n], name)] = dimension
    BY <2>1
  <2> HIDE DEF dimension
  <2> QED BY <2>1, <2>2 DEF Exact
<1> QED BY <1>2, <1>3

\* The candidates do not notice a batch that writes no node.
LEMMA HoldersAlike ==
    ASSUME NEW g, NEW h, \A n \in NodeIds : h[n] = g[n], NEW name
    PROVE  /\ Holders(h, name) = Holders(g, name)
           /\ \A space : Exact(space, g, name) => Exact(space, h, name)
<1>1. Holders(h, name) = Holders(g, name) /\ Holders(g, name) \subseteq NodeIds
  BY DEF Holders, LiveNodes, Live
<1> QED BY <1>1 DEF Exact


-----------------------------------------------------------------------------
(* What a mutation makes of a space, whatever its runtime holds            *)

\* What delete_node and upsert_node make of a space, whatever its runtime holds.
Shrunk(s, n) ==
    IF s.candidates \ {n} = {} THEN NoSpace
    ELSE [s EXCEPT !.candidates = s.candidates \ {n}]

Grown(s, n, v, full) ==
    IF v = Absent THEN Shrunk(s, n)
    ELSE IF s.candidates = {}
    THEN [candidates |-> {n}, dimension |-> DimensionOf[v], runtime |-> 0]
    ELSE IF s.dimension # DimensionOf[v] THEN [Shrunk(s, n) EXCEPT !.runtime = 0]
    ELSE [candidates |-> s.candidates \cup {n}, dimension |-> s.dimension,
          runtime |-> IF full THEN 0 ELSE s.runtime]

LEMMA WithoutNodeSpace ==
    ASSUME NEW x, NEW n
    PROVE  WithoutNode(x, n).space = Shrunk(x.space, n)
BY DEF WithoutNode, Shrunk

LEMMA WithNodeSpace ==
    ASSUME NEW x, IsState(x), NEW n \in NodeIds, NEW v, NEW full
    PROVE  WithNode(x, n, v, full).space = Grown(x.space, n, v, full)
<1> DEFINE y == WithNode(x, n, v, full)
<1>1. /\ x.space = [candidates |-> x.space.candidates, dimension |-> x.space.dimension,
                    runtime |-> x.space.runtime]
      /\ x = [space |-> x.space, content |-> x.content]
  BY DEF IsState
<1>2. CASE v = Absent
  BY <1>2, WithoutNodeSpace DEF WithNode, Grown
<1>3. CASE v # Absent /\ x.space.candidates = {}
  BY <1>1, <1>3 DEF WithNode, Grown
<1>4. CASE /\ v # Absent /\ x.space.candidates # {}
           /\ x.space.dimension # DimensionOf[v]
  <2> DEFINE z == WithoutNode(x, n)
  <2>1. y = [z EXCEPT !.space.runtime = 0]
    BY <1>4 DEF WithNode, Mismatch
  <2>2. IsState(z)
    BY WithoutNodeIs
  <2>3. z.space = Shrunk(x.space, n)
    BY WithoutNodeSpace
  <2> HIDE DEF z, y
  <2>4. /\ z.space = [candidates |-> z.space.candidates, dimension |-> z.space.dimension,
                      runtime |-> z.space.runtime]
        /\ z = [space |-> z.space, content |-> z.content]
    BY <2>2 DEF IsState
  <2>5. y.space = [z.space EXCEPT !.runtime = 0]
    BY <2>1, <2>4
  <2>6. Grown(x.space, n, v, full) = [Shrunk(x.space, n) EXCEPT !.runtime = 0]
    BY <1>4 DEF Grown
  <2> QED BY <2>3, <2>5, <2>6 DEF y
<1>5. CASE /\ v # Absent /\ x.space.candidates # {}
           /\ x.space.dimension = DimensionOf[v]
  <2> DEFINE C == x.space.candidates \cup {n}
             in == [x EXCEPT !.space.candidates = @ \cup {n}]
  <2>1. in = [x EXCEPT !.space.candidates = C]
    OBVIOUS
  <2>2. y = IF x.space.runtime = 0 THEN in
            ELSE IF full THEN [in EXCEPT !.space.runtime = 0]
            ELSE [in EXCEPT !.content[n] = v]
    BY <1>5 DEF WithNode
  <2>3. Grown(x.space, n, v, full) =
          [candidates |-> C, dimension |-> x.space.dimension,
           runtime |-> IF full THEN 0 ELSE x.space.runtime]
    BY <1>5 DEF Grown
  <2> HIDE DEF C, in, y
  <2>4. in = [space |-> [candidates |-> C, dimension |-> x.space.dimension,
                         runtime |-> x.space.runtime], content |-> x.content]
    BY <1>1, <2>1
  <2>5. y.space = [candidates |-> C, dimension |-> x.space.dimension,
                   runtime |-> IF full THEN 0 ELSE x.space.runtime]
    BY <2>2, <2>4
  <2> QED BY <2>3, <2>5 DEF y
<1> QED BY <1>2, <1>3, <1>4, <1>5

LEMMA LeavingAlike ==
    ASSUME NEW f, NEW h, NEW s, NEW t, NEW out, Leaving(f, s, out), Leaving(h, t, out),
           IsState(s), IsState(t), s.space = t.space, Len(out) \in Nat,
           \A i \in 1 .. Len(out) : out[i] \in NodeIds
    PROVE  /\ IsState(f[Len(out)]) /\ IsState(h[Len(out)])
           /\ f[Len(out)].space = h[Len(out)].space
<1> DEFINE Good(i) == IsState(f[i]) /\ IsState(h[i]) /\ f[i].space = h[i].space
           T == {i \in Nat : i <= Len(out) => Good(i)}
<1>1. \A i \in 0 .. Len(out) :
         /\ f[i] = IF i = 0 THEN s ELSE WithoutNode(f[i - 1], out[i])
         /\ h[i] = IF i = 0 THEN t ELSE WithoutNode(h[i - 1], out[i])
  BY DEF Leaving
<1>2. 0 \in T
  BY <1>1
<1>3. ASSUME NEW i \in Nat, i \in T PROVE i + 1 \in T
  <2> SUFFICES ASSUME i + 1 <= Len(out) PROVE Good(i + 1)
    OBVIOUS
  <2>1. i + 1 \in 0 .. Len(out) /\ i + 1 \in 1 .. Len(out) /\ i + 1 # 0 /\ i + 1 - 1 = i
    OBVIOUS
  <2>2. /\ f[i + 1] = WithoutNode(f[i], out[i + 1])
        /\ h[i + 1] = WithoutNode(h[i], out[i + 1])
        /\ out[i + 1] \in NodeIds
    BY <1>1, <2>1
  <2>3. Good(i)
    BY <1>3
  <2> QED BY <2>2, <2>3, WithoutNodeIs, WithoutNodeSpace
<1> HIDE DEF T
<1>4. Nat \subseteq T
  BY <1>2, <1>3, NaturalsBySuccessor
<1>5. Good(Len(out))
  <2>1. Len(out) \in T /\ Len(out) <= Len(out)
    BY <1>4
  <2> HIDE DEF Good
  <2> QED BY <2>1 DEF T
<1> QED BY <1>5

LEMMA EnteringAlike ==
    ASSUME NEW f, NEW h, NEW s, NEW t, NEW in, NEW g, NEW name, NEW full,
           Entering(f, s, in, g, name, full), Entering(h, t, in, g, name, full),
           IsState(s), IsState(t), s.space = t.space, Len(in) \in Nat,
           \A i \in 1 .. Len(in) : in[i] \in NodeIds
    PROVE  f[Len(in)].space = h[Len(in)].space
<1> DEFINE Good(i) == IsState(f[i]) /\ IsState(h[i]) /\ f[i].space = h[i].space
           T == {i \in Nat : i <= Len(in) => Good(i)}
<1>1. \A i \in 0 .. Len(in) :
         /\ f[i] = IF i = 0 THEN s
                   ELSE WithNode(f[i - 1], in[i], Vec(g[in[i]], name), full)
         /\ h[i] = IF i = 0 THEN t
                   ELSE WithNode(h[i - 1], in[i], Vec(g[in[i]], name), full)
  BY DEF Entering
<1>2. 0 \in T
  BY <1>1
<1>3. ASSUME NEW i \in Nat, i \in T PROVE i + 1 \in T
  <2> SUFFICES ASSUME i + 1 <= Len(in) PROVE Good(i + 1)
    OBVIOUS
  <2> DEFINE n == in[i + 1]
             v == Vec(g[n], name)
  <2>1. i + 1 \in 0 .. Len(in) /\ i + 1 \in 1 .. Len(in) /\ i + 1 # 0 /\ i + 1 - 1 = i
    OBVIOUS
  <2>2. /\ f[i + 1] = WithNode(f[i], n, v, full)
        /\ h[i + 1] = WithNode(h[i], n, v, full)
        /\ n \in NodeIds
    BY <1>1, <2>1
  <2> HIDE DEF n, v
  <2>3. Good(i)
    BY <1>3
  <2>4. /\ IsState(WithNode(f[i], n, v, full)) /\ IsState(WithNode(h[i], n, v, full))
        /\ WithNode(f[i], n, v, full).space = Grown(f[i].space, n, v, full)
        /\ WithNode(h[i], n, v, full).space = Grown(h[i].space, n, v, full)
    BY <2>2, <2>3, WithNodeIs, WithNodeSpace
  <2> QED BY <2>2, <2>3, <2>4
<1> HIDE DEF T
<1>4. Nat \subseteq T
  BY <1>2, <1>3, NaturalsBySuccessor
<1>5. Good(Len(in))
  <2>1. Len(in) \in T /\ Len(in) <= Len(in)
    BY <1>4
  <2> HIDE DEF Good
  <2> QED BY <2>1 DEF T
<1> QED BY <1>5

\* What a batch makes of a space does not depend on what its runtime holds:
\* the index and its clone in the snapshot never part.
LEMMA MutatedAlikeSpaces ==
    ASSUME NEW g \in Graphs, FiniteLive(g), NEW b \in WriteBatches,
           NEW space, NEW c1, NEW c2, NEW name, NEW full,
           IsState([space |-> space, content |-> c1]),
           IsState([space |-> space, content |-> c2])
    PROVE  LET m == plan_batch_mutation(g, b)
           IN  MutatedSpace(space, c1, name, m, full).space
                 = MutatedSpace(space, c2, name, m, full).space
<1> DEFINE m == plan_batch_mutation(g, b)
           Out == LiveNodes(m.removed)
           In == LiveNodes(m.added)
           out == InOrder(Out)
           in == InOrder(In)
           s == [space |-> space, content |-> c1]
           t == [space |-> space, content |-> c2]
<1>1. Out \in SUBSET NodeIds /\ In \in SUBSET NodeIds
  BY DEF LiveNodes
<1>2. IsFiniteSet(In)
  BY PlanFinite DEF FiniteLive
<1>3. IsFiniteSet(Out)
  <2>1. \A n \in NodeIds : m.removed[n] \in {g[n], Absent}
    BY PlannedNode
  <2> HIDE DEF m
  <2>2. Out \in SUBSET LiveNodes(g)
    BY <2>1 DEF LiveNodes, Live
  <2> QED BY <2>2, FS_Subset DEF FiniteLive
<1> HIDE DEF m, Out, In
<1>4. /\ Len(out) \in Nat /\ \A i \in 1 .. Len(out) : out[i] \in NodeIds
      /\ Len(in) \in Nat /\ \A i \in 1 .. Len(in) : in[i] \in NodeIds
  BY <1>1, <1>2, <1>3, InOrderLists
<1> DEFINE Steps(d, u, x, c) == /\ Leaving(d, x, out)
                                /\ Entering(u, d[Len(out)], in, m.added, name, full)
                                /\ MutatedSpace(space, c, name, m, full) = u[Len(in)]
<1>5. (\E d, u : Steps(d, u, s, c1)) /\ (\E d, u : Steps(d, u, t, c2))
  <2>1. /\ Len(InOrder(LiveNodes(m.removed))) \in Nat
        /\ Len(InOrder(LiveNodes(m.added))) \in Nat
    BY <1>4 DEF Out, In
  <2> QED BY <2>1, MutatedSpaceSteps DEF Out, In
<1>6. s.space = t.space /\ IsState(s) /\ IsState(t)
  OBVIOUS
<1> HIDE DEF out, in, s, t
<1>7. PICK d, u : Steps(d, u, s, c1)
  BY <1>5
<1>8. PICK d2, u2 : Steps(d2, u2, t, c2)
  BY <1>5
<1>9. /\ IsState(d[Len(out)]) /\ IsState(d2[Len(out)])
      /\ d[Len(out)].space = d2[Len(out)].space
  BY <1>4, <1>6, <1>7, <1>8, LeavingAlike
<1>10. u[Len(in)].space = u2[Len(in)].space
  BY <1>4, <1>7, <1>8, <1>9, EnteringAlike
<1> QED BY <1>7, <1>8, <1>10 DEF m


-----------------------------------------------------------------------------
(* Contents of runtimes                                                    *)

IsContent(c) == c = [k \in NodeIds |-> c[k]]

IsSpace(s) ==
    /\ s = [candidates |-> s.candidates, dimension |-> s.dimension,
            runtime |-> s.runtime]
    /\ s.runtime \in Refs \cup {0}

IsIndex(ix) ==
    /\ ix = [structure |-> ix.structure, spaces |-> ix.spaces,
             max_nodes |-> ix.max_nodes]
    /\ ix.spaces = [name \in VectorNames |-> ix.spaces[name]]
    /\ \A name \in VectorNames : IsSpace(ix.spaces[name])

\* What apply_batch_mutation makes of one space of the index, of the runtimes
\* under its name, and of the clone.
ContentOf(s, row) == IF s.runtime = 0 THEN EmptyContent ELSE row[s.runtime]

LEMMA StateOf ==
    ASSUME NEW s, IsSpace(s), NEW row, \A r \in Refs : IsContent(row[r])
    PROVE  IsState([space |-> s, content |-> ContentOf(s, row)])
<1>1. IsContent(ContentOf(s, row))
  BY DEF ContentOf, IsContent, EmptyContent, IsSpace
<1> QED BY <1>1 DEF IsState, IsContent, IsSpace

LEMMA RebuiltSpaceIs ==
    ASSUME NEW g, NEW name, NEW r \in Refs
    PROVE  IsSpace(RebuiltSpace(g, name, r))
<1> DEFINE holders == Holders(g, name)
           first == CHOOSE n \in holders : \A m \in holders : IdOrder[n] <= IdOrder[m]
           dimension == DimensionOf[Vec(g[first], name)]
           candidates == {n \in holders : DimensionOf[Vec(g[n], name)] = dimension}
           build == /\ candidates = holders
                    /\ Cardinality(candidates) > ExactFallbackThreshold
<1>1. RebuiltSpace(g, name, r) =
        IF holders = {} THEN NoSpace
        ELSE [candidates |-> candidates, dimension |-> dimension,
              runtime |-> IF build THEN r ELSE 0]
  BY DEF RebuiltSpace
<1> HIDE DEF holders, candidates, dimension, build
<1> QED BY <1>1 DEF IsSpace, NoSpace

LEMMA RebuiltRuntime ==
    ASSUME NEW g, NEW name, NEW r
    PROVE  RebuiltSpace(g, name, r).runtime \in {0, r}
<1> DEFINE holders == Holders(g, name)
           first == CHOOSE n \in holders : \A m \in holders : IdOrder[n] <= IdOrder[m]
           dimension == DimensionOf[Vec(g[first], name)]
           candidates == {n \in holders : DimensionOf[Vec(g[n], name)] = dimension}
           build == /\ candidates = holders
                    /\ Cardinality(candidates) > ExactFallbackThreshold
<1>1. RebuiltSpace(g, name, r) =
        IF holders = {} THEN NoSpace
        ELSE [candidates |-> candidates, dimension |-> dimension,
              runtime |-> IF build THEN r ELSE 0]
  BY DEF RebuiltSpace
<1> HIDE DEF holders, candidates, dimension, build
<1> QED BY <1>1 DEF NoSpace

LEMMA BuiltContentIs ==
    ASSUME NEW g, NEW name PROVE IsContent(BuiltContent(g, name))
BY DEF IsContent, BuiltContent

LEMMA ContentAlike ==
    ASSUME NEW g, NEW h, \A n \in NodeIds : g[n] = h[n], NEW name
    PROVE  BuiltContent(g, name) = BuiltContent(h, name)
<1>1. \A n \in NodeIds : n \in Holders(g, name) <=> n \in Holders(h, name)
  BY DEF Holders, LiveNodes, Live
<1>2. \A n \in NodeIds : (IF n \in Holders(g, name) THEN Vec(g[n], name) ELSE Absent)
                       = (IF n \in Holders(h, name) THEN Vec(h[n], name) ELSE Absent)
  BY <1>1
<1> QED BY <1>2, Zenon DEF BuiltContent

LEMMA SameContent ==
    ASSUME NEW c, NEW d, IsContent(c), IsContent(d), \A k \in NodeIds : c[k] = d[k]
    PROVE  c = d
<1>1. [k \in NodeIds |-> c[k]] = [k \in NodeIds |-> d[k]]
  BY Zenon
<1> QED BY <1>1 DEF IsContent

\* snapshot_with_mutation, seen from the vectors of one space.
LEMMA BuiltMutated ==
    ASSUME NEW g, NEW m, NEW name, NEW k \in NodeIds
    PROVE  BuiltContent(MutatedGraph(g, m), name)[k] =
             IF k \in LiveNodes(m.added) THEN Vec(m.added[k], name)
             ELSE IF k \in LiveNodes(m.removed) THEN Absent
             ELSE BuiltContent(g, name)[k]
<1> DEFINE h == MutatedGraph(g, m)
<1>1. h[k] = IF Live(m.added, k) THEN m.added[k]
             ELSE IF Live(m.removed, k) THEN Absent ELSE g[k]
  BY DEF MutatedGraph, Keys
<1>2. /\ BuiltContent(h, name)[k]
           = IF h[k] # Absent /\ Vec(h[k], name) # Absent THEN Vec(h[k], name) ELSE Absent
      /\ BuiltContent(g, name)[k]
           = IF g[k] # Absent /\ Vec(g[k], name) # Absent THEN Vec(g[k], name) ELSE Absent
  BY DEF BuiltContent, Holders, LiveNodes, Live
<1> HIDE DEF h
<1>3. /\ k \in LiveNodes(m.added) <=> m.added[k] # Absent
      /\ k \in LiveNodes(m.removed) <=> m.removed[k] # Absent
  BY DEF LiveNodes, Live
<1> QED BY <1>1, <1>2, <1>3 DEF Live, h

\* The plan of a batch concerns only nodes that the batch writes.
LEMMA PlanTouches ==
    ASSUME NEW g, NEW b \in WriteBatches, NEW n \in NodeIds,
           n \in LiveNodes(plan_batch_mutation(g, b).added)
                   \cup LiveNodes(plan_batch_mutation(g, b).removed)
    PROVE  n \in batch_effects(g, b) \cap NodeIds
<1> DEFINE m == plan_batch_mutation(g, b)
<1>1. /\ m.added[n] # Absent => n \in Upserted(b.nodes_upserted)
      /\ m.removed[n] # Absent => n \in BatchKeys(b)
  BY PlannedNode
<1>2. m.added[n] # Absent \/ m.removed[n] # Absent
  BY DEF LiveNodes, Live
<1>3. n \in BatchKeys(b)
  BY <1>1, <1>2 DEF BatchKeys
<1> QED BY <1>3 DEF batch_effects
=============================================================================
