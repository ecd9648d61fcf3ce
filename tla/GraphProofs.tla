---------------------------- MODULE GraphProofs -----------------------------
(* What applying a write batch to a graph preserves, for all identifiers   *)
(* and record contents.                                                    *)
EXTENDS Graph, WellFoundedInduction, TLAPS

\* A set of naturals has a smallest element.
LEMMA LeastNatural ==
    ASSUME NEW T \in SUBSET Nat, T # {}
    PROVE  \E x \in T : \A y \in T : x <= y
<1>1. \E x \in T : \A y \in T : ~(<<y, x>> \in OpToRel(<, Nat))
  <2>1. IsWellFoundedOn(OpToRel(<, Nat), Nat)
    BY NatLessThanWellFounded
  <2> QED BY <2>1, WFMin
<1>2. PICK x \in T : \A y \in T : ~(<<y, x>> \in OpToRel(<, Nat))
  BY <1>1
<1>3. ASSUME NEW y \in T PROVE x <= y
  <2>1. <<y, x>> \in Nat \X Nat
    OBVIOUS
  <2>2. ~(y < x)
    BY <2>1, <1>2 DEF OpToRel
  <2> QED BY <2>2
<1> QED BY <1>2, <1>3

\* Induction: a set with 0 and every successor holds all naturals.
LEMMA NaturalsBySuccessor ==
    ASSUME NEW T, 0 \in T, \A n \in Nat : n \in T => n + 1 \in T
    PROVE  Nat \subseteq T
<1> SUFFICES ASSUME Nat \ T # {} PROVE FALSE
  OBVIOUS
<1>1. PICK m \in Nat \ T : \A k \in Nat \ T : m <= k
  BY LeastNatural
<1>2. m # 0 /\ m - 1 \in Nat /\ ~(m <= m - 1)
  OBVIOUS
<1>3. m - 1 \in T
  BY <1>1, <1>2
<1> QED BY <1>2, <1>3

\* A bounded non-empty set of naturals has a greatest element.
LEMMA GreatestNatural ==
    ASSUME NEW n \in Nat, NEW T \in SUBSET (1 .. n), T # {}
    PROVE  \E x \in T : \A y \in T : y <= x
<1> DEFINE U == {n - y : y \in T}
<1>1. U \in SUBSET Nat /\ U # {}
  <2>1. \A y \in T : n - y \in Nat
    OBVIOUS
  <2> QED BY <2>1
<1>2. PICK u \in U : \A v \in U : u <= v
  BY <1>1, LeastNatural
<1>3. PICK x \in T : u = n - x
  BY <1>2
<1>4. ASSUME NEW y \in T PROVE y <= x
  <2>1. n - x <= n - y
    BY <1>2, <1>3
  <2> QED BY <2>1
<1> QED BY <1>4

-----------------------------------------------------------------------------
(* Batches                                                                 *)

\* The value a map keeps for an upserted key is one that the batch carries
\* for that key.
LEMMA LastUpsertCarried ==
    ASSUME NEW S, NEW s \in Seq(S), NEW k \in Upserted(s)
    PROVE  \E i \in DOMAIN s : s[i].id = k /\ LastUpsert(s, k) = s[i].value
<1> DEFINE T == {i \in DOMAIN s : s[i].id = k}
<1>1. T \in SUBSET (1 .. Len(s)) /\ T # {} /\ Len(s) \in Nat
  BY DEF Upserted
<1>2. PICK x \in T : \A y \in T : y <= x
  BY <1>1, GreatestNatural
<1>3. \E i \in DOMAIN s : s[i].id = k /\ \A j \in DOMAIN s : s[j].id = k => j <= i
  BY <1>2
<1> QED BY <1>3 DEF LastUpsert

LEMMA LastUpsertMember ==
    ASSUME NEW S, NEW s \in Seq(S), NEW k \in Upserted(s)
    PROVE  \E x \in S : x.id = k /\ LastUpsert(s, k) = x.value
<1>1. PICK i \in DOMAIN s : s[i].id = k /\ LastUpsert(s, k) = s[i].value
  BY LastUpsertCarried
<1>2. s[i] \in S
  OBVIOUS
<1> QED BY <1>1, <1>2

\* The record that counts is the one at the last place of its identifier.
LEMMA LastUpsertIs ==
    ASSUME NEW S, NEW s \in Seq(S), NEW i \in DOMAIN s,
           \A j \in DOMAIN s : s[j].id = s[i].id => j <= i
    PROVE  LastUpsert(s, s[i].id) = s[i].value
<1> DEFINE k == s[i].id
           IsLast(c) == s[c].id = k /\ \A j \in DOMAIN s : s[j].id = k => j <= c
           chosen == CHOOSE c \in DOMAIN s : IsLast(c)
<1>1. DOMAIN s \subseteq Nat
  OBVIOUS
<1>2. chosen \in DOMAIN s /\ IsLast(chosen)
  <2>1. IsLast(i)
    OBVIOUS
  <2> QED BY <2>1
<1>3. LastUpsert(s, k) = s[chosen].value
  BY DEF LastUpsert
<1> HIDE DEF chosen
<1>4. chosen = i
  BY <1>1, <1>2
<1> QED BY <1>3, <1>4

LEMMA LastUpsertPlace ==
    ASSUME NEW S, NEW s \in Seq(S), NEW k \in Upserted(s)
    PROVE  \E i \in DOMAIN s : s[i].id = k /\ \A j \in DOMAIN s : s[j].id = k => j <= i
<1> DEFINE T == {i \in DOMAIN s : s[i].id = k}
<1>1. T # {} /\ T \in SUBSET (1 .. Len(s)) /\ Len(s) \in Nat
  BY DEF Upserted
<1>2. \E x \in T : \A y \in T : y <= x
  BY <1>1, GreatestNatural
<1> QED BY <1>2

\* One upsert more, behind the others.
LEMMA UpsertBehind ==
    ASSUME NEW S, NEW s \in Seq(S), NEW x \in S
    PROVE  /\ Upserted(s \o << x >>) = Upserted(s) \cup {x.id}
           /\ LastUpsert(s \o << x >>, x.id) = x.value
           /\ \A k \in Upserted(s) \ {x.id} :
                 LastUpsert(s \o << x >>, k) = LastUpsert(s, k)
<1> DEFINE m == s \o << x >>
           n == Len(s)
<1>1. /\ m \in Seq(S) /\ n \in Nat /\ DOMAIN s = 1 .. n /\ DOMAIN m = 1 .. n + 1
      /\ m[n + 1] = x /\ \A i \in 1 .. n : m[i] = s[i]
  OBVIOUS
<1> HIDE DEF m, n
<1>2. Upserted(m) = Upserted(s) \cup {x.id}
  <2>1. 1 .. n + 1 = (1 .. n) \cup {n + 1}
    BY <1>1
  <2> QED BY <1>1, <2>1 DEF Upserted
<1>3. LastUpsert(m, x.id) = x.value
  <2>1. n + 1 \in DOMAIN m /\ \A j \in DOMAIN m : j <= n + 1
    BY <1>1
  <2> QED BY <1>1, <2>1, LastUpsertIs
<1>4. ASSUME NEW k \in Upserted(s) \ {x.id}
      PROVE  LastUpsert(m, k) = LastUpsert(s, k)
  <2>1. PICK i \in DOMAIN s : s[i].id = k /\ \A j \in DOMAIN s : s[j].id = k => j <= i
    BY LastUpsertPlace
  <2>2. LastUpsert(s, k) = s[i].value
    BY <2>1, LastUpsertIs
  <2>3. i \in DOMAIN m /\ m[i] = s[i]
    BY <1>1
  <2>4. \A j \in DOMAIN m : m[j].id = k => j <= i
    BY <1>1, <1>4, <2>1
  <2>5. LastUpsert(m, k) = m[i].value
    BY <1>1, <2>1, <2>3, <2>4, LastUpsertIs
  <2> QED BY <2>2, <2>3, <2>5
<1> QED BY <1>2, <1>3, <1>4 DEF m

LEMMA UpsertedNode ==
    ASSUME NEW b \in WriteBatches, NEW n \in Upserted(b.nodes_upserted)
    PROVE  LastUpsert(b.nodes_upserted, n) \in NodeRecords /\ n \in NodeIds
<1> DEFINE S == [id : NodeIds, value : NodeRecords]
<1>1. b.nodes_upserted \in Seq(S)
  BY DEF WriteBatches
<1> HIDE DEF S
<1>2. PICK x \in S : x.id = n /\ LastUpsert(b.nodes_upserted, n) = x.value
  BY <1>1, LastUpsertMember
<1> QED BY <1>2 DEF S

LEMMA UpsertedEdge ==
    ASSUME NEW b \in WriteBatches, NEW e \in Upserted(b.edges_upserted)
    PROVE  /\ LastUpsert(b.edges_upserted, e) \in EdgeRecords /\ e \in EdgeIds
           /\ \E i \in DOMAIN b.edges_upserted :
                 LastUpsert(b.edges_upserted, e) = b.edges_upserted[i].value
<1> DEFINE S == [id : EdgeIds, value : EdgeRecords]
<1>1. b.edges_upserted \in Seq(S)
  BY DEF WriteBatches
<1> HIDE DEF S
<1>2. PICK x \in S : x.id = e /\ LastUpsert(b.edges_upserted, e) = x.value
  BY <1>1, LastUpsertMember
<1>3. \E i \in DOMAIN b.edges_upserted :
         LastUpsert(b.edges_upserted, e) = b.edges_upserted[i].value
  BY <1>1, LastUpsertCarried
<1> QED BY <1>2, <1>3 DEF S

\* The node and the edge part of an applied batch, key by key.
LEMMA AppliedNode ==
    ASSUME NEW g, NEW b, NEW n \in NodeIds
    PROVE  apply_batch_to_maps_unchecked(g, b)[n] =
             IF n \in b.deleted_node_ids THEN Absent
             ELSE IF n \in Upserted(b.nodes_upserted)
                  THEN LastUpsert(b.nodes_upserted, n) ELSE g[n]
BY DEF apply_batch_to_maps_unchecked, Keys

LEMMA AppliedEdge ==
    ASSUME NEW g, NEW b, NEW e \in EdgeIds
    PROVE  LET up == IF e \in Upserted(b.edges_upserted)
                     THEN LastUpsert(b.edges_upserted, e) ELSE g[e]
           IN  apply_batch_to_maps_unchecked(g, b)[e] =
                 IF e \in b.deleted_edge_ids
                    \/ (up # Absent /\ Incident(up, b.deleted_node_ids))
                 THEN Absent ELSE up
<1>1. e \in Keys /\ e \notin NodeIds
  BY GraphAssumption DEF Keys
<1> QED BY <1>1 DEF apply_batch_to_maps_unchecked

\* Applying a batch to a graph gives a graph.
LEMMA ApplyType ==
    ASSUME NEW g \in Graphs, NEW b \in WriteBatches
    PROVE  apply_batch_to_maps_unchecked(g, b) \in Graphs
<1> DEFINE h == apply_batch_to_maps_unchecked(g, b)
<1>1. ASSUME NEW n \in NodeIds PROVE h[n] \in NodeRecords \cup {Absent}
  <2>1. n \in Upserted(b.nodes_upserted)
          => LastUpsert(b.nodes_upserted, n) \in NodeRecords
    BY UpsertedNode
  <2>2. g[n] \in NodeRecords \cup {Absent}
    BY DEF Graphs
  <2> QED BY <2>1, <2>2, AppliedNode
<1>2. ASSUME NEW e \in EdgeIds PROVE h[e] \in EdgeRecords \cup {Absent}
  <2>1. e \in Upserted(b.edges_upserted)
          => LastUpsert(b.edges_upserted, e) \in EdgeRecords
    BY UpsertedEdge
  <2>2. g[e] \in EdgeRecords \cup {Absent}
    BY DEF Graphs
  <2> QED BY <2>1, <2>2, AppliedEdge
<1>3. \A k \in Keys : h[k] \in NodeRecords \cup EdgeRecords \cup {Absent}
  BY <1>1, <1>2 DEF Keys
<1>4. h = [k \in Keys |-> h[k]]
  BY DEF apply_batch_to_maps_unchecked
<1>5. h \in [Keys -> NodeRecords \cup EdgeRecords \cup {Absent}]
  BY <1>3, <1>4
<1> QED BY <1>1, <1>2, <1>5 DEF Graphs

\* A live edge of the result was carried by the batch or was live before.
LEMMA AppliedEdgeOrigin ==
    ASSUME NEW g \in Graphs, NEW b \in WriteBatches, NEW e \in EdgeIds,
           Live(apply_batch_to_maps_unchecked(g, b), e)
    PROVE  LET x == apply_batch_to_maps_unchecked(g, b)[e]
           IN  /\ x \in EdgeRecords
               /\ ~Incident(x, b.deleted_node_ids)
               /\ \/ \E i \in DOMAIN b.edges_upserted :
                        b.edges_upserted[i].value = x
                  \/ Live(g, e) /\ x = g[e]
<1> DEFINE h == apply_batch_to_maps_unchecked(g, b)
           up == IF e \in Upserted(b.edges_upserted)
                 THEN LastUpsert(b.edges_upserted, e) ELSE g[e]
<1>1. h[e] = up /\ ~Incident(up, b.deleted_node_ids) /\ up # Absent
  BY AppliedEdge DEF Live
<1>2. h[e] \in EdgeRecords
  BY <1>1, ApplyType DEF Graphs
<1>3. CASE e \in Upserted(b.edges_upserted)
  <2>1. PICK i \in DOMAIN b.edges_upserted :
           LastUpsert(b.edges_upserted, e) = b.edges_upserted[i].value
    BY <1>3, UpsertedEdge
  <2> QED BY <1>1, <1>2, <1>3, <2>1
<1>4. CASE e \notin Upserted(b.edges_upserted)
  BY <1>1, <1>2, <1>4 DEF Live
<1> QED BY <1>3, <1>4

\* A valid batch leaves no edge dangling.
LEMMA ApplyClosed ==
    ASSUME NEW g \in Graphs, NEW b \in WriteBatches, Closed(g),
           validate_batch_against_maps(g, b)
    PROVE  Closed(apply_batch_to_maps_unchecked(g, b))
<1> DEFINE h == apply_batch_to_maps_unchecked(g, b)
<1> SUFFICES ASSUME NEW e \in EdgeIds, Live(h, e)
             PROVE  Live(h, h[e].source) /\ Live(h, h[e].target)
  BY DEF Closed
<1>1. /\ h[e] \in EdgeRecords
      /\ ~Incident(h[e], b.deleted_node_ids)
      /\ \/ \E i \in DOMAIN b.edges_upserted : b.edges_upserted[i].value = h[e]
         \/ Live(g, e) /\ h[e] = g[e]
  BY AppliedEdgeOrigin
<1>2. ASSUME NEW n \in {h[e].source, h[e].target} PROVE Live(h, n)
  <2>1. n \in NodeIds /\ n \notin b.deleted_node_ids
    BY <1>1 DEF EdgeRecords, Incident
  <2>2. Live(g, n) \/ n \in Upserted(b.nodes_upserted)
    BY <1>1 DEF Closed, validate_batch_against_maps
  <2>3. n \in Upserted(b.nodes_upserted)
          => LastUpsert(b.nodes_upserted, n) # Absent
    BY UpsertedNode, GraphAssumption DEF NodeRecords
  <2> QED BY <2>1, <2>2, <2>3, AppliedNode DEF Live
<1> QED BY <1>2

\* A normalized batch brings no edge between namespaces.
LEMMA ApplyNamespaceLocal ==
    ASSUME NEW g \in Graphs, NEW b \in WriteBatches, NamespaceLocal(g),
           Normalized(b)
    PROVE  NamespaceLocal(apply_batch_to_maps_unchecked(g, b))
<1> DEFINE h == apply_batch_to_maps_unchecked(g, b)
<1> SUFFICES ASSUME NEW e \in EdgeIds, Live(h, e)
             PROVE  NamespaceOf[h[e].source] = NamespaceOf[h[e].target]
  BY DEF NamespaceLocal
<1>1. \/ \E i \in DOMAIN b.edges_upserted : b.edges_upserted[i].value = h[e]
      \/ Live(g, e) /\ h[e] = g[e]
  BY AppliedEdgeOrigin
<1> QED BY <1>1 DEF NamespaceLocal, Normalized

LEMMA EmptyGraphFacts ==
    /\ EmptyGraph \in Graphs
    /\ NamespaceLocal(EmptyGraph)
    /\ Closed(EmptyGraph)
BY DEF EmptyGraph, Graphs, NamespaceLocal, Closed, Live, Keys

LEMMA EmptyBatchFacts == EmptyBatch \in WriteBatches /\ Normalized(EmptyBatch)
BY DEF EmptyBatch, WriteBatches, Normalized
=============================================================================
