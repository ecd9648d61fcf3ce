-------------------------- MODULE ReplicationProofs -------------------------
(* For every number of nodes and every sequence of operations, crashes and  *)
(* failed writes: topologies have one primary, roles agree with them, what  *)
(* a leader hands out is what its engine holds, what it counts as           *)
(* acknowledged is in the follower's file, and a follower that has caught   *)
(* up with its position has the leader's graph at that position.            *)
EXTENDS Replication, GraphProofs, FiniteSetTheorems, TLAPS

NodeInfos == [role : {"Primary", "Replica"}, healthy : BOOLEAN]
Topologies == [term : Nat, leader : Nodes, nodes : [Nodes -> NodeInfos \cup {Absent}]]

IsPrimary(c, m) == Known(c, m) /\ c.nodes[m].role = "Primary"

\* At most one primary, and the node itself is in its topology.
Sound(c, n) ==
    /\ c \in Topologies
    /\ Known(c, n)
    /\ \A m, o \in Nodes : IsPrimary(c, m) /\ IsPrimary(c, o) => m = o

\* The leader is the primary.
Led(c) == IsPrimary(c, c.leader)

\* Of node n with topology c in memory or in its file.
Holds(c, n, mis) == Sound(c, n) /\ (~mis => Led(c))

TopologyInv ==
    /\ cluster = [n \in Nodes |-> cluster[n]]
    /\ cluster_file = [n \in Nodes |-> cluster_file[n]]
    /\ misaddressed \in [Nodes -> BOOLEAN]
    /\ \A n \in Nodes : Holds(cluster[n], n, misaddressed[n])
    /\ \A n \in Nodes : cluster_file[n] # Torn =>
                            Holds(cluster_file[n], n, misaddressed[n])

-----------------------------------------------------------------------------
(* The operations of ClusterManager                                        *)

LEMMA InfoIsNotAbsent ==
    \A role \in {"Primary", "Replica"} :
        /\ [role |-> role, healthy |-> TRUE] \in NodeInfos
        /\ [role |-> role, healthy |-> TRUE] # Absent
<1>1. \A role \in {"Primary", "Replica"} :
         [role |-> role, healthy |-> TRUE] \in NodeInfos
  BY DEF NodeInfos
<1> QED BY <1>1, ReplicationAssumption DEF NodeInfos

LEMMA SingleHolds ==
    ASSUME NEW n \in Nodes PROVE Sound(SingleTopology(n), n) /\ Led(SingleTopology(n))
<1> DEFINE c == SingleTopology(n)
<1>1. c \in Topologies
  BY DEF SingleTopology, Topologies, NodeInfos
<1>2. \A m \in Nodes : c.nodes[m] = IF m = n THEN [role |-> "Primary", healthy |-> TRUE]
                                    ELSE Absent
  BY DEF SingleTopology
<1>3. [role |-> "Primary", healthy |-> TRUE] # Absent
  BY InfoIsNotAbsent
<1>4. c.leader = n
  BY DEF SingleTopology
<1> HIDE DEF c
<1>5. \A m \in Nodes : IsPrimary(c, m) <=> m = n
  BY <1>2, <1>3 DEF IsPrimary, Known
<1>6. Known(c, n)
  BY <1>2, <1>3 DEF Known
<1> QED BY <1>1, <1>4, <1>5, <1>6 DEF Sound, Led, c

\* After the loop that promotions share the named node is the only primary if
\* it is known, and there is none if it is not.
LEMMA CrownedPrimaries ==
    ASSUME NEW c \in Topologies, NEW m \in Nodes
    PROVE  /\ Crowned(c, m) \in Topologies
           /\ Crowned(c, m).leader = c.leader /\ Crowned(c, m).term = c.term
           /\ \A o \in Nodes : Known(Crowned(c, m), o) <=> Known(c, o)
           /\ \A o \in Nodes :
                 IsPrimary(Crowned(c, m), o) <=> o = m /\ Known(c, m)
<1> DEFINE d == Crowned(c, m)
           info(o) == IF ~Known(c, o) THEN Absent
                      ELSE IF o = m THEN [role |-> "Primary", healthy |-> TRUE]
                      ELSE IF c.nodes[o].role = "Primary"
                      THEN [c.nodes[o] EXCEPT !.role = "Replica"] ELSE c.nodes[o]
<1>1. /\ d.nodes = [o \in Nodes |-> info(o)]
      /\ d.leader = c.leader /\ d.term = c.term
      /\ d = [c EXCEPT !.nodes = [o \in Nodes |-> info(o)]]
  <2>1. d = [c EXCEPT !.nodes = [o \in Nodes |-> info(o)]]
    BY DEF Crowned
  <2> HIDE DEF d, info
  <2> QED BY <2>1 DEF Topologies
<1>2. ASSUME NEW o \in Nodes
      PROVE  /\ info(o) \in NodeInfos \cup {Absent}
             /\ info(o) # Absent <=> Known(c, o)
             /\ info(o) # Absent /\ info(o).role = "Primary" <=> o = m /\ Known(c, m)
  <2>1. Known(c, o) => c.nodes[o] \in NodeInfos
    BY DEF Topologies, Known
  <2>2. Known(c, o) => [c.nodes[o] EXCEPT !.role = "Replica"] \in NodeInfos
    BY <2>1 DEF NodeInfos
  <2>3. \A x \in NodeInfos : x # Absent
    BY ReplicationAssumption DEF NodeInfos
  <2>4. [role |-> "Primary", healthy |-> TRUE] \in NodeInfos
    BY DEF NodeInfos
  <2>5. CASE ~Known(c, o)
    BY <2>5
  <2>6. CASE Known(c, o) /\ o = m
    BY <2>3, <2>4, <2>6
  <2>7. CASE Known(c, o) /\ o # m /\ c.nodes[o].role = "Primary"
    <3>1. info(o) = [c.nodes[o] EXCEPT !.role = "Replica"]
      BY <2>7
    <3>2. [c.nodes[o] EXCEPT !.role = "Replica"].role = "Replica"
      BY <2>1, <2>7 DEF NodeInfos
    <3> QED BY <2>2, <2>3, <2>7, <3>1, <3>2
  <2>8. CASE Known(c, o) /\ o # m /\ c.nodes[o].role # "Primary"
    BY <2>1, <2>3, <2>8
  <2> QED BY <2>5, <2>6, <2>7, <2>8
<1> HIDE DEF d, info
<1>3. d \in Topologies
  BY <1>1, <1>2 DEF Topologies
<1>4. \A o \in Nodes : d.nodes[o] = info(o)
  BY <1>1
<1>5. \A o \in Nodes : Known(d, o) <=> Known(c, o)
  BY <1>2, <1>4 DEF Known
<1>6. \A o \in Nodes : IsPrimary(d, o) <=> o = m /\ Known(c, m)
  BY <1>2, <1>4 DEF IsPrimary, Known
<1> QED BY <1>1, <1>3, <1>5, <1>6 DEF d

\* The same loop, then a new leader and term.
Leading(c, m, t) == [Crowned(c, m) EXCEPT !.term = t, !.leader = m]

LEMMA NewLeaderHolds ==
    ASSUME NEW c \in Topologies, NEW m \in Nodes, NEW n \in Nodes, NEW t \in Nat,
           Known(c, n), Known(c, m)
    PROVE  Sound(Leading(c, m, t), n) /\ Led(Leading(c, m, t))
<1> DEFINE d == Leading(c, m, t)
<1>1. /\ Crowned(c, m) \in Topologies
      /\ \A o \in Nodes : Known(Crowned(c, m), o) <=> Known(c, o)
      /\ \A o \in Nodes : IsPrimary(Crowned(c, m), o) <=> o = m
  BY CrownedPrimaries
<1>2. d \in Topologies /\ d.leader = m /\ d.nodes = Crowned(c, m).nodes
  BY <1>1 DEF Topologies, Leading
<1> HIDE DEF d
<1>3. \A o \in Nodes : (Known(d, o) <=> Known(c, o)) /\ (IsPrimary(d, o) <=> o = m)
  BY <1>1, <1>2 DEF Known, IsPrimary
<1> QED BY <1>2, <1>3 DEF Sound, Led, d

LEMMA EnsureLeaderHolds ==
    ASSUME NEW c \in Topologies, NEW n \in Nodes, Known(c, n)
    PROVE  Sound(ensure_leader(c, n), n) /\ Led(ensure_leader(c, n))
<1> DEFINE t == IF c.leader = n THEN Crowned(c, n).term ELSE Crowned(c, n).term + 1
<1>1. t \in Nat
  BY CrownedPrimaries DEF Topologies
<1>2. ensure_leader(c, n) = Leading(c, n, t)
  BY CrownedPrimaries DEF ensure_leader, Leading, Topologies
<1> HIDE DEF t
<1> QED BY <1>1, <1>2, NewLeaderHolds

LEMMA PromotedHolds ==
    ASSUME NEW c \in Topologies, NEW n \in Nodes, NEW m \in Nodes,
           Known(c, n), Known(c, m)
    PROVE  Sound(PromotedTopology(c, m), n) /\ Led(PromotedTopology(c, m))
<1> DEFINE t == Crowned(c, m).term + 1
<1>1. t \in Nat
  BY CrownedPrimaries DEF Topologies
<1>2. PromotedTopology(c, m) = Leading(c, m, t)
  BY CrownedPrimaries DEF PromotedTopology, Leading, Topologies
<1> HIDE DEF t
<1> QED BY <1>1, <1>2, NewLeaderHolds

LEMMA WithReplicaTopology ==
    ASSUME NEW c \in Topologies, NEW m \in Nodes
    PROVE  /\ WithReplica(c, m) \in Topologies
           /\ WithReplica(c, m).leader = c.leader
           /\ \A o \in Nodes : Known(WithReplica(c, m), o) <=> Known(c, o) \/ o = m
           /\ \A o \in Nodes : IsPrimary(WithReplica(c, m), o)
                                   <=> IsPrimary(c, o) /\ o # m
<1> DEFINE x == [role |-> "Replica", healthy |-> TRUE]
           d == WithReplica(c, m)
<1>1. x \in NodeInfos /\ x # Absent /\ x.role # "Primary"
  BY InfoIsNotAbsent
<1> HIDE DEF x
<1>2. d = [c EXCEPT !.nodes[m] = x]
  BY DEF WithReplica, x
<1>3. /\ d.nodes = [c.nodes EXCEPT ![m] = x] /\ d.leader = c.leader
      /\ d.term = c.term /\ d \in Topologies
  BY <1>1, <1>2 DEF Topologies
<1>4. \A o \in Nodes : d.nodes[o] = IF o = m THEN x ELSE c.nodes[o]
  BY <1>3 DEF Topologies
<1> HIDE DEF d
<1> QED BY <1>1, <1>3, <1>4 DEF Known, IsPrimary, d

LEMMA ObservedHolds ==
    ASSUME NEW c \in Topologies, NEW n \in Nodes, NEW m \in Nodes, Known(c, n)
    PROVE  LET d == observe_leader(WithReplica(c, m), m)
           IN  Sound(d, n) /\ Led(d)
<1> DEFINE w == WithReplica(c, m)
           t == Crowned(w, m).term
<1>1. w \in Topologies /\ Known(w, n) /\ Known(w, m)
  BY WithReplicaTopology
<1> HIDE DEF w
<1>2. t \in Nat /\ Crowned(w, m) \in Topologies
  BY <1>1, CrownedPrimaries DEF Topologies
<1>3. observe_leader(w, m) = Leading(w, m, t)
  BY <1>2 DEF observe_leader, Leading, Topologies
<1> HIDE DEF t
<1> QED BY <1>1, <1>2, <1>3, NewLeaderHolds DEF w

LEMMA HealthHolds ==
    ASSUME NEW c \in Topologies, NEW n \in Nodes, NEW m \in Nodes, NEW mis,
           Holds(c, n, mis), Known(c, m)
    PROVE  Holds([c EXCEPT !.nodes[m].healthy = ~@], n, mis)
<1> DEFINE x == [c.nodes[m] EXCEPT !.healthy = ~@]
           d == [c EXCEPT !.nodes[m].healthy = ~@]
<1>1. c.nodes[m] \in NodeInfos
  BY DEF Known, Topologies
<1>2. x \in NodeInfos /\ x.role = c.nodes[m].role /\ x # Absent
  <2>1. x \in NodeInfos /\ x.role = c.nodes[m].role
    BY <1>1 DEF NodeInfos
  <2> QED BY <2>1, ReplicationAssumption DEF NodeInfos
<1>3. d = [c EXCEPT !.nodes = [c.nodes EXCEPT ![m] = x]]
  OBVIOUS
<1> HIDE DEF x
<1>4. d.nodes = [c.nodes EXCEPT ![m] = x] /\ d.leader = c.leader /\ d \in Topologies
  BY <1>2, <1>3 DEF Topologies
<1>5. \A o \in Nodes : d.nodes[o] = IF o = m THEN x ELSE c.nodes[o]
  BY <1>4 DEF Topologies
<1> HIDE DEF d
<1>6. \A o \in Nodes : (Known(d, o) <=> Known(c, o)) /\ (IsPrimary(d, o) <=> IsPrimary(c, o))
  BY <1>2, <1>5 DEF Known, IsPrimary
<1>7. c.leader \in Nodes
  BY DEF Topologies
<1> QED BY <1>4, <1>6, <1>7 DEF Holds, Sound, Led, d

-----------------------------------------------------------------------------
(* The operations of Database                                              *)

\* One topology changes in memory, and its file stays or is cut.
LEMMA MemoryChanges ==
    ASSUME TopologyInv, NEW n \in Nodes, NEW d,
           cluster' = [cluster EXCEPT ![n] = d], misaddressed' = misaddressed,
           cluster_file' \in {cluster_file, [cluster_file EXCEPT ![n] = Torn]},
           Holds(d, n, misaddressed[n])
    PROVE  TopologyInv'
<1>1. \A m \in Nodes : /\ cluster'[m] = IF m = n THEN d ELSE cluster[m]
                       /\ cluster_file'[m] \in {cluster_file[m], Torn}
  BY DEF TopologyInv
<1>2. /\ cluster' = [m \in Nodes |-> cluster'[m]]
      /\ cluster_file' = [m \in Nodes |-> cluster_file'[m]]
  BY DEF TopologyInv
<1>3. \A m \in Nodes : Holds(cluster'[m], m, misaddressed'[m])
  BY <1>1 DEF TopologyInv
<1>4. \A m \in Nodes : cluster_file'[m] # Torn =>
                           Holds(cluster_file'[m], m, misaddressed'[m])
  BY <1>1 DEF TopologyInv
<1> QED BY <1>2, <1>3, <1>4 DEF TopologyInv

LEMMA FileChanges ==
    ASSUME TopologyInv, NEW n \in Nodes, NEW d,
           cluster_file' = [cluster_file EXCEPT ![n] = d],
           UNCHANGED << cluster, misaddressed >>,
           d = Torn \/ Holds(d, n, misaddressed[n])
    PROVE  TopologyInv'
<1>1. \A m \in Nodes : cluster_file'[m] = IF m = n THEN d ELSE cluster_file[m]
  BY DEF TopologyInv
<1>2. cluster_file' = [m \in Nodes |-> cluster_file'[m]]
  BY DEF TopologyInv
<1>3. \A m \in Nodes : cluster_file'[m] # Torn =>
                           Holds(cluster_file'[m], m, misaddressed'[m])
  BY <1>1 DEF TopologyInv
<1> QED BY <1>2, <1>3 DEF TopologyInv

LEMMA NothingChanges ==
    ASSUME TopologyInv, UNCHANGED << cluster, cluster_file, misaddressed >>
    PROVE  TopologyInv'
BY DEF TopologyInv

LEMMA StoringKeeps ==
    ASSUME TopologyInv, NEW n \in Nodes, Storing(n)
    PROVE  TopologyInv'
<1>1. CASE persist_cluster_topology(n)
  <2>1. /\ cluster_file' = [cluster_file EXCEPT ![n] = cluster[n]]
        /\ UNCHANGED << cluster, misaddressed >>
    BY <1>1 DEF persist_cluster_topology
  <2> QED BY <2>1, FileChanges DEF TopologyInv
<1>2. CASE persist_replication_metadata(n)
  BY <1>2, NothingChanges DEF persist_replication_metadata
<1>3. CASE PersistFails(n)
  <2>1. /\ \/ cluster_file' = cluster_file
           \/ cluster_file' = [cluster_file EXCEPT ![n] = Torn]
        /\ UNCHANGED << cluster, misaddressed >>
    BY <1>3 DEF PersistFails, Interrupted
  <2> QED BY <2>1, FileChanges, NothingChanges
<1> QED BY <1>1, <1>2, <1>3 DEF Storing

LEMMA StoppingKeeps ==
    ASSUME TopologyInv, NEW n \in Nodes, Stopping(n)
    PROVE  TopologyInv'
<1>1. CASE Crash(n) \/ graceful_shutdown(n)
  <2>1. /\ cluster' = [cluster EXCEPT ![n] = SingleTopology(n)]
        /\ cluster_file' \in {cluster_file, [cluster_file EXCEPT ![n] = Torn]}
        /\ misaddressed' = misaddressed
    BY <1>1 DEF Crash, graceful_shutdown, Interrupted, metadata_files, topology_history
  <2>2. Holds(SingleTopology(n), n, misaddressed[n])
    BY SingleHolds DEF Holds
  <2> QED BY <2>1, <2>2, MemoryChanges
<1>2. CASE Restart(n)
  <2>1. /\ cluster' = [cluster EXCEPT ![n] = cluster_file[n]]
        /\ cluster_file' = cluster_file /\ misaddressed' = misaddressed
        /\ cluster_file[n] # Torn
    BY <1>2 DEF Restart, metadata_files, topology_history
  <2>2. Holds(cluster_file[n], n, misaddressed[n])
    BY <2>1 DEF TopologyInv
  <2> QED BY <2>1, <2>2, MemoryChanges
<1> QED BY <1>1, <1>2 DEF Stopping

LEMMA ShippingKeeps ==
    ASSUME TopologyInv, NEW n \in Nodes,
           Shipping(n) \/ \E b \in Batches : ClientWrite(n, b)
    PROVE  TopologyInv'
<1>1. UNCHANGED << cluster, cluster_file, misaddressed >>
  <2>1. CASE \E m \in Nodes : Fetch(n, m)
    BY <2>1 DEF Fetch, metadata_files, topology_history
  <2>2. CASE Deliver(n)
    BY <2>2 DEF Deliver, metadata_files, topology_history
  <2>3. CASE ApplyRecord(n) \/ ApplyRefused(n) \/ EndDelivery(n)
    BY <2>3 DEF ApplyRecord, ApplyRefused, EndDelivery, metadata_files, topology_history
  <2>4. CASE \E m \in Nodes : \E lsn \in reported[m] : acknowledge_replica(n, m, lsn)
    BY <2>4 DEF acknowledge_replica, metadata_files, topology_history
  <2>5. CASE \E b \in Batches : ClientWrite(n, b)
    BY <2>5 DEF ClientWrite, metadata_files, topology_history
  <2> QED BY <2>1, <2>2, <2>3, <2>4, <2>5 DEF Shipping
<1> QED BY <1>1, NothingChanges

LEMMA AdministeringKeeps ==
    ASSUME TopologyInv, NEW n \in Nodes, Administering(n)
    PROVE  TopologyInv'
<1> USE DEF metadata_files, topology_history
<1>0. /\ cluster[n] \in Topologies /\ Known(cluster[n], n)
      /\ Holds(cluster[n], n, misaddressed[n])
      /\ cluster = [m \in Nodes |-> cluster[m]]
  BY DEF TopologyInv, Holds, Sound
<1>1. CASE configure_as_leader(n)
  <2>1. /\ cluster' = [cluster EXCEPT ![n] = ensure_leader(cluster[n], n)]
        /\ cluster_file' = cluster_file /\ misaddressed' = misaddressed
    BY <1>1 DEF configure_as_leader
  <2>2. Holds(ensure_leader(cluster[n], n), n, misaddressed[n])
    BY <1>0, EnsureLeaderHolds DEF Holds
  <2> QED BY <2>1, <2>2, MemoryChanges
<1>2. ASSUME NEW m \in Nodes, configure_as_follower(n, m) PROVE TopologyInv'
  <2> DEFINE d == observe_leader(WithReplica(cluster[n], m), m)
  <2>1. /\ cluster' = [cluster EXCEPT ![n] = d]
        /\ cluster_file' = cluster_file /\ misaddressed' = misaddressed
    BY <1>2 DEF configure_as_follower
  <2>2. Holds(d, n, misaddressed[n])
    BY <1>0, ObservedHolds DEF Holds
  <2> QED BY <2>1, <2>2, MemoryChanges
<1>3. ASSUME NEW m \in Nodes, promote_node(n, m) PROVE TopologyInv'
  <2>1. /\ cluster' = [cluster EXCEPT ![n] = PromotedTopology(cluster[n], m)]
        /\ cluster_file' = cluster_file /\ misaddressed' = misaddressed
        /\ Known(cluster[n], m)
    BY <1>3 DEF promote_node
  <2>2. Holds(PromotedTopology(cluster[n], m), n, misaddressed[n])
    BY <1>0, <2>1, PromotedHolds DEF Holds
  <2> QED BY <2>1, <2>2, MemoryChanges
<1>4. ASSUME NEW m \in Nodes, PromoteUnknown(n, m) PROVE TopologyInv'
  <2> DEFINE d == Crowned(cluster[n], m)
  <2>1. /\ cluster' = [cluster EXCEPT ![n] = d]
        /\ cluster_file' = cluster_file
        /\ misaddressed' = [misaddressed EXCEPT ![n] = TRUE]
    BY <1>4 DEF PromoteUnknown
  <2>2. Sound(d, n)
    BY <1>0, CrownedPrimaries DEF Sound
  <2> HIDE DEF d
  <2>3. \A o \in Nodes : cluster'[o] = IF o = n THEN d ELSE cluster[o]
    BY <1>0, <2>1
  <2>4. \A o \in Nodes : misaddressed'[o] = IF o = n THEN TRUE ELSE misaddressed[o]
    BY <2>1 DEF TopologyInv
  <2>5. \A o \in Nodes : Holds(cluster'[o], o, misaddressed'[o])
    BY <2>2, <2>3, <2>4 DEF TopologyInv, Holds
  <2>6. \A o \in Nodes : cluster_file'[o] # Torn =>
                             Holds(cluster_file'[o], o, misaddressed'[o])
    BY <2>1, <2>4 DEF TopologyInv, Holds
  <2>7. /\ cluster' = [o \in Nodes |-> cluster'[o]]
        /\ misaddressed' \in [Nodes -> BOOLEAN]
    BY <1>0, <2>1 DEF TopologyInv
  <2> QED BY <2>1, <2>5, <2>6, <2>7 DEF TopologyInv
<1>5. ASSUME NEW m \in Nodes, register_replica(n, m) PROVE TopologyInv'
  <2> DEFINE d == WithReplica(cluster[n], m)
  <2>1. /\ cluster' = [cluster EXCEPT ![n] = d]
        /\ cluster_file' = cluster_file /\ misaddressed' = misaddressed
        /\ ~Known(cluster[n], m)
    BY <1>5 DEF register_replica
  <2>2. /\ d \in Topologies /\ d.leader = cluster[n].leader
        /\ \A o \in Nodes : Known(d, o) <=> Known(cluster[n], o) \/ o = m
        /\ \A o \in Nodes : IsPrimary(d, o) <=> IsPrimary(cluster[n], o) /\ o # m
    BY <1>0, WithReplicaTopology
  <2> HIDE DEF d
  <2>3. \A o \in Nodes : IsPrimary(d, o) <=> IsPrimary(cluster[n], o)
    BY <2>1, <2>2 DEF IsPrimary
  <2>4. cluster[n].leader \in Nodes
    BY <1>0 DEF Topologies
  <2>5. Holds(d, n, misaddressed[n])
    BY <1>0, <2>2, <2>3, <2>4 DEF Holds, Sound, Led
  <2> QED BY <2>1, <2>5, MemoryChanges
<1>6. ASSUME NEW m \in Nodes, mark_node_health(n, m) PROVE TopologyInv'
  <2> DEFINE d == [cluster[n] EXCEPT !.nodes[m].healthy = ~@]
  <2>1. /\ cluster' = [cluster EXCEPT ![n] = d]
        /\ cluster_file' = cluster_file /\ misaddressed' = misaddressed
        /\ Known(cluster[n], m)
    BY <1>0, <1>6 DEF mark_node_health
  <2>2. Holds(d, n, misaddressed[n])
    BY <1>0, <2>1, HealthHolds
  <2> QED BY <2>1, <2>2, MemoryChanges
<1>7. CASE compact(n)
  BY <1>7, NothingChanges DEF compact
<1> QED BY <1>1, <1>2, <1>3, <1>4, <1>5, <1>6, <1>7 DEF Administering

LEMMA InitTopology == Init => TopologyInv
<1> SUFFICES ASSUME Init PROVE TopologyInv
  OBVIOUS
<1>1. \A n \in Nodes : Sound(cluster[n], n) /\ Led(cluster[n])
  <2>1. CASE cluster = [n \in Nodes |-> SingleTopology(n)]
    BY <2>1, SingleHolds
  <2>2. ASSUME NEW l \in Nodes, Configured(l), NEW n \in Nodes
        PROVE  Sound(cluster[n], n) /\ Led(cluster[n])
    <3>1. CASE n # l
      <4>1. cluster[n] = observe_leader(WithReplica(SingleTopology(n), l), l)
        BY <2>2, <3>1 DEF Configured
      <4>2. SingleTopology(n) \in Topologies /\ Known(SingleTopology(n), n)
        BY SingleHolds DEF Sound
      <4> QED BY <4>1, <4>2, ObservedHolds
    <3>2. CASE n = l
      <4> DEFINE info(m) == [role |-> IF m = l THEN "Primary" ELSE "Replica",
                             healthy |-> TRUE]
                 c == cluster[n]
      <4>1. c = [SingleTopology(l) EXCEPT !.nodes = [m \in Nodes |-> info(m)]]
        BY <2>2, <3>2 DEF Configured
      <4>2. \A m \in Nodes : /\ info(m) \in NodeInfos /\ info(m) # Absent
                             /\ info(m).role = "Primary" <=> m = l
        BY InfoIsNotAbsent
      <4> HIDE DEF info, c
      <4>3. SingleTopology(l) \in Topologies /\ SingleTopology(l).leader = l
        BY SingleHolds DEF Sound, SingleTopology
      <4>4. c \in Topologies /\ c.leader = l /\ c.nodes = [m \in Nodes |-> info(m)]
        BY <4>1, <4>2, <4>3 DEF Topologies
      <4>5. \A m \in Nodes : Known(c, m) /\ (IsPrimary(c, m) <=> m = l)
        BY <4>2, <4>4 DEF Known, IsPrimary
      <4> QED BY <3>2, <4>4, <4>5 DEF Sound, Led, c
    <3> QED BY <3>1, <3>2
  <2> QED BY <2>1, <2>2 DEF Init
<1>2. cluster = [n \in Nodes |-> cluster[n]]
  BY DEF Init, Configured
<1> QED BY <1>1, <1>2 DEF Init, TopologyInv, Holds

LEMMA TopologyStep == TopologyInv /\ [Next]_vars => TopologyInv'
<1> SUFFICES ASSUME TopologyInv, [Next]_vars PROVE TopologyInv'
  OBVIOUS
<1>1. CASE UNCHANGED vars
  BY <1>1, NothingChanges DEF vars, metadata_files, topology_history
<1>2. CASE Next
  BY <1>2, StoringKeeps, StoppingKeeps, ShippingKeeps, AdministeringKeeps DEF Next
<1> QED BY <1>1, <1>2

\* Every topology has at most one primary, and it is the leader unless a
\* promotion named an unknown node, for any number of databases, whatever
\* operations, crashes and failed or torn writes of the files came before.
THEOREM OnePrimaryAlways == Spec => []OnePrimary
<1>1. Init => TopologyInv
  BY InitTopology
<1>2. TopologyInv /\ [Next]_vars => TopologyInv'
  BY TopologyStep
<1>3. TopologyInv => OnePrimary
  <2> SUFFICES ASSUME TopologyInv, NEW n \in Nodes
               PROVE  LET primaries == {m \in Nodes : IsPrimary(cluster[n], m)}
                      IN  /\ Cardinality(primaries) <= 1
                          /\ ~misaddressed[n] => primaries = {cluster[n].leader}
    BY DEF OnePrimary, IsPrimary
  <2> DEFINE primaries == {m \in Nodes : IsPrimary(cluster[n], m)}
  <2>1. Holds(cluster[n], n, misaddressed[n]) /\ cluster[n].leader \in Nodes
    BY DEF TopologyInv, Holds, Sound, Topologies
  <2>2. \A m, o \in primaries : m = o
    BY <2>1 DEF Holds, Sound
  <2>3. primaries = {} \/ \E m : primaries = {m}
    BY <2>2
  <2>4. Cardinality(primaries) <= 1
    BY <2>3, FS_EmptySet, FS_Singleton
  <2>5. ~misaddressed[n] => primaries = {cluster[n].leader}
    BY <2>1, <2>2 DEF Holds, Led
  <2> QED BY <2>4, <2>5
<1> QED BY <1>1, <1>2, <1>3, PTL DEF Spec

-----------------------------------------------------------------------------
(* Records: selecting, replaying and counting them                         *)

\* f gives, for each i, the places among the first i records.
Selects(f, n, records, places) ==
    f = [i \in 0 .. n |->
            IF i = 0 THEN << >>
            ELSE IF i \in places THEN Append(f[i - 1], records[i]) ELSE f[i - 1]]

LEMMA SelectedIsLast ==
    ASSUME NEW R, NEW records \in Seq(R), NEW places
    PROVE  \E g : /\ Selects(g, Len(records), records, places)
                  /\ \A n \in 0 .. Len(records) : g[n] \in Seq(R)
                  /\ Selected(records, places) = g[Len(records)]
<1> DEFINE N == Len(records)
           T == {n \in Nat : n <= N =>
                    \E f \in [0 .. n -> Seq(R)] : Selects(f, n, records, places)}
<1>0. N \in Nat /\ \A i \in 1 .. N : records[i] \in R
  OBVIOUS
<1>1. 0 \in T
  <2> DEFINE f == [i \in 0 .. 0 |-> << >>]
  <2>1. f \in [0 .. 0 -> Seq(R)] /\ Selects(f, 0, records, places)
    BY DEF Selects
  <2> QED BY <2>1
<1>2. ASSUME NEW n \in Nat, n \in T PROVE n + 1 \in T
  <2> SUFFICES ASSUME n + 1 <= N
               PROVE  \E f \in [0 .. n + 1 -> Seq(R)] : Selects(f, n + 1, records, places)
    OBVIOUS
  <2>1. PICK f \in [0 .. n -> Seq(R)] : Selects(f, n, records, places)
    BY <1>0, <1>2
  <2> DEFINE last == IF n + 1 \in places THEN Append(f[n], records[n + 1]) ELSE f[n]
             g == [i \in 0 .. n + 1 |-> IF i <= n THEN f[i] ELSE last]
  <2>2. last \in Seq(R)
    BY <1>0, <2>1
  <2>3. g \in [0 .. n + 1 -> Seq(R)]
    BY <2>2
  <2> DEFINE value(i) == IF i = 0 THEN << >>
                         ELSE IF i \in places THEN Append(g[i - 1], records[i])
                         ELSE g[i - 1]
  <2>4. ASSUME NEW i \in 0 .. n + 1 PROVE g[i] = value(i)
    <3>1. CASE i = 0
      BY <2>1, <3>1 DEF Selects
    <3>2. CASE i \in 1 .. n
      <4>1. g[i] = f[i] /\ g[i - 1] = f[i - 1]
        BY <3>2
      <4>2. f[i] = IF i \in places THEN Append(f[i - 1], records[i]) ELSE f[i - 1]
        <5>1. i \in 0 .. n /\ i # 0
          BY <3>2
        <5> HIDE DEF g, last, value
        <5> QED BY <2>1, <5>1 DEF Selects
      <4> QED BY <3>2, <4>1, <4>2
    <3>3. CASE i = n + 1
      <4>1. g[i] = last /\ g[i - 1] = f[n]
        BY <3>3
      <4> QED BY <3>3, <4>1
    <3> QED BY <3>1, <3>2, <3>3
  <2>5. Selects(g, n + 1, records, places)
    BY <2>3, <2>4 DEF Selects
  <2> QED BY <2>3, <2>5
<1> HIDE DEF T
<1>3. N \in T
  BY <1>0, <1>1, <1>2, NaturalsBySuccessor
<1>4. PICK f \in [0 .. N -> Seq(R)] : Selects(f, N, records, places)
  BY <1>0, <1>3 DEF T
<1> DEFINE g == CHOOSE h : Selects(h, N, records, places)
<1>5. Selects(g, N, records, places)
  BY <1>4
<1>6. Selected(records, places) = g[N]
  BY DEF Selected, Selects
<1> HIDE DEF g, N
<1> DEFINE U == {n \in Nat : n <= N => g[n] \in Seq(R)}
<1>7. 0 \in U
  BY <1>0, <1>5 DEF Selects
<1>8. ASSUME NEW n \in Nat, n \in U PROVE n + 1 \in U
  <2> SUFFICES ASSUME n + 1 <= N PROVE g[n + 1] \in Seq(R)
    OBVIOUS
  <2>1. g[n] \in Seq(R) /\ records[n + 1] \in R
    BY <1>0, <1>8
  <2>2. n + 1 \in 0 .. N /\ n + 1 # 0 /\ (n + 1) - 1 = n
    BY <1>0
  <2>3. g[n + 1] = IF n + 1 \in places THEN Append(g[n], records[n + 1]) ELSE g[n]
    BY <1>5, <2>2 DEF Selects
  <2> QED BY <2>1, <2>3
<1> HIDE DEF U
<1>9. \A n \in Nat : n \in U
  BY <1>7, <1>8, NaturalsBySuccessor
<1>10. \A n \in 0 .. N : n \in Nat /\ n <= N
  BY <1>0
<1>11. \A n \in 0 .. N : g[n] \in Seq(R)
  BY <1>9, <1>10 DEF U
<1> QED BY <1>5, <1>6, <1>11 DEF N

LEMMA SelectedType ==
    ASSUME NEW R, NEW records \in Seq(R), NEW places
    PROVE  Selected(records, places) \in Seq(R)
<1>1. PICK g : /\ \A n \in 0 .. Len(records) : g[n] \in Seq(R)
               /\ Selected(records, places) = g[Len(records)]
  BY SelectedIsLast
<1> QED BY <1>1

\* f gives the graph after each of the first n records.
Replays(f, n, records) ==
    f = [i \in 0 .. n |->
            IF i = 0 THEN EmptyGraph
            ELSE apply_batch_to_maps_unchecked(f[i - 1], records[i].batch)]

LEMMA ReplaysExist ==
    ASSUME NEW n \in Nat, NEW records
    PROVE  \E f : Replays(f, n, records)
<1> DEFINE T == {k \in Nat : \E f : Replays(f, k, records)}
<1>1. 0 \in T
  <2> DEFINE f == [i \in 0 .. 0 |-> EmptyGraph]
  <2>1. Replays(f, 0, records)
    BY DEF Replays
  <2> QED BY <2>1
<1>2. ASSUME NEW k \in Nat, k \in T PROVE k + 1 \in T
  <2>1. PICK f : Replays(f, k, records)
    BY <1>2
  <2> DEFINE last == apply_batch_to_maps_unchecked(f[k], records[k + 1].batch)
             g == [i \in 0 .. k + 1 |-> IF i <= k THEN f[i] ELSE last]
             value(i) == IF i = 0 THEN EmptyGraph
                         ELSE apply_batch_to_maps_unchecked(g[i - 1], records[i].batch)
  <2>2. ASSUME NEW i \in 0 .. k + 1 PROVE g[i] = value(i)
    <3>1. CASE i = 0
      <4>1. f[0] = EmptyGraph
        <5> HIDE DEF g, last, value
        <5> QED BY <2>1 DEF Replays
      <4> QED BY <3>1, <4>1
    <3>2. CASE i \in 1 .. k
      <4>1. g[i] = f[i] /\ g[i - 1] = f[i - 1]
        BY <3>2
      <4>2. f[i] = apply_batch_to_maps_unchecked(f[i - 1], records[i].batch)
        <5>1. i \in 0 .. k /\ i # 0
          BY <3>2
        <5> HIDE DEF g, last, value
        <5> QED BY <2>1, <5>1 DEF Replays
      <4> QED BY <3>2, <4>1, <4>2
    <3>3. CASE i = k + 1
      <4>1. g[i] = last /\ g[i - 1] = f[k]
        BY <3>3
      <4> QED BY <3>3, <4>1
    <3> QED BY <3>1, <3>2, <3>3
  <2>3. g = [i \in 0 .. k + 1 |-> value(i)]
    <3>1. g = [i \in 0 .. k + 1 |-> g[i]]
      OBVIOUS
    <3> HIDE DEF g, value
    <3> QED BY <2>2, <3>1
  <2>4. Replays(g, k + 1, records)
    <3> HIDE DEF g
    <3> QED BY <2>3 DEF Replays
  <2> QED BY <2>4
<1> HIDE DEF T
<1>3. n \in T
  BY <1>1, <1>2, NaturalsBySuccessor
<1> QED BY <1>3 DEF T

LEMMA ReplayIsLast ==
    ASSUME NEW records, Len(records) \in Nat
    PROVE  \E f : /\ Replays(f, Len(records), records)
                  /\ Replay(records) = f[Len(records)]
<1> DEFINE f == CHOOSE h : Replays(h, Len(records), records)
<1>1. Replays(f, Len(records), records)
  BY ReplaysExist
<1>2. Replay(records) = f[Len(records)]
  BY DEF Replay, Replays
<1> QED BY <1>1, <1>2

LEMMA ReplayEmpty ==
    ASSUME NEW records, Len(records) = 0
    PROVE  Replay(records) = EmptyGraph
<1>1. PICK f : Replays(f, 0, records) /\ Replay(records) = f[0]
  BY ReplayIsLast
<1> QED BY <1>1 DEF Replays

\* Replaying one record more applies it to the graph of the others.
LEMMA ReplayAppend ==
    ASSUME NEW R, NEW records \in Seq(R), NEW record \in R
    PROVE  Replay(Append(records, record))
             = apply_batch_to_maps_unchecked(Replay(records), record.batch)
<1> DEFINE n == Len(records)
           more == Append(records, record)
<1>1. /\ n \in Nat /\ Len(more) = n + 1 /\ more[n + 1] = record
      /\ \A i \in 1 .. n : more[i] = records[i]
  OBVIOUS
<1> HIDE DEF n, more
<1>2. PICK f : Replays(f, n, records) /\ Replay(records) = f[n]
  BY <1>1, ReplayIsLast DEF n
<1>3. PICK g : Replays(g, n + 1, more) /\ Replay(more) = g[n + 1]
  BY <1>1, ReplayIsLast
<1> DEFINE T == {i \in Nat : i <= n => f[i] = g[i]}
<1>4. 0 \in T
  <2>1. f[0] = EmptyGraph /\ g[0] = EmptyGraph
    BY <1>1, <1>2, <1>3 DEF Replays
  <2> QED BY <2>1
<1>5. ASSUME NEW i \in Nat, i \in T PROVE i + 1 \in T
  <2> SUFFICES ASSUME i + 1 <= n PROVE f[i + 1] = g[i + 1]
    OBVIOUS
  <2>1. /\ i + 1 \in 0 .. n /\ i + 1 \in 0 .. n + 1 /\ i + 1 # 0
        /\ (i + 1) - 1 = i /\ i + 1 \in 1 .. n
    BY <1>1
  <2>2. f[i] = g[i]
    BY <1>1, <1>5
  <2> HIDE DEF T
  <2>3. f[i + 1] = apply_batch_to_maps_unchecked(f[i], records[i + 1].batch)
    BY <1>2, <2>1 DEF Replays
  <2>4. g[i + 1] = apply_batch_to_maps_unchecked(g[i], more[i + 1].batch)
    BY <1>3, <2>1 DEF Replays
  <2> QED BY <1>1, <2>1, <2>2, <2>3, <2>4
<1> HIDE DEF T
<1>6. n \in T
  BY <1>1, <1>4, <1>5, NaturalsBySuccessor
<1>7. f[n] = g[n]
  BY <1>1, <1>6 DEF T
<1>8. g[n + 1] = apply_batch_to_maps_unchecked(g[n], more[n + 1].batch)
  <2>1. n + 1 \in 0 .. n + 1 /\ n + 1 # 0 /\ (n + 1) - 1 = n
    BY <1>1
  <2> QED BY <1>3, <2>1 DEF Replays
<1> QED BY <1>1, <1>2, <1>3, <1>7, <1>8 DEF more

\* at gives the term and position before each record of a delivery.
Walks(at, n, r, records) ==
    at = [i \in 1 .. n |->
            IF i = 1 THEN [term |-> r.term, lsn |-> r.position]
            ELSE IF records[i - 1].lsn <= at[i - 1].lsn THEN at[i - 1]
            ELSE [term |-> records[i - 1].term, lsn |-> records[i - 1].lsn]]

Places == [term : Nat, lsn : Nat]
Records == [term : Nat, lsn : Nat, batch : Batches]

Statuses ==
    [mode : {"Disabled", "Leader", "Follower"}, leader : Nodes \cup {Absent},
     term : Nat, committed : Nat, position : Nat,
     replicas : [Nodes -> Nat \cup {Absent}], history : Seq(Records)]

LEMMA WalksExist ==
    ASSUME NEW r \in Statuses, NEW records \in Seq(Records),
           NEW n \in Nat, n <= Len(records)
    PROVE  \E at \in [1 .. n + 1 -> Places] : Walks(at, n + 1, r, records)
<1> DEFINE N == Len(records)
           T == {k \in Nat : k <= N =>
                    \E at \in [1 .. k + 1 -> Places] : Walks(at, k + 1, r, records)}
           start == [term |-> r.term, lsn |-> r.position]
<1>0. /\ N \in Nat /\ start \in Places
      /\ \A i \in 1 .. N : [term |-> records[i].term, lsn |-> records[i].lsn] \in Places
  <2>1. \A i \in 1 .. N : records[i] \in Records
    OBVIOUS
  <2>2. \A x \in Records : [term |-> x.term, lsn |-> x.lsn] \in Places
    BY DEF Records, Places
  <2>3. start \in Places
    BY DEF Statuses, Places
  <2> HIDE DEF start
  <2> QED BY <2>1, <2>2, <2>3
<1>1. 0 \in T
  <2> DEFINE at == [i \in 1 .. 0 + 1 |-> start]
  <2>1. at \in [1 .. 0 + 1 -> Places]
    BY <1>0
  <2>2. Walks(at, 0 + 1, r, records)
    BY DEF Walks
  <2> QED BY <2>1, <2>2
<1>2. ASSUME NEW k \in Nat, k \in T PROVE k + 1 \in T
  <2> SUFFICES ASSUME k + 1 <= N
               PROVE  \E at \in [1 .. (k + 1) + 1 -> Places] :
                          Walks(at, (k + 1) + 1, r, records)
    OBVIOUS
  <2>1. PICK f \in [1 .. k + 1 -> Places] : Walks(f, k + 1, r, records)
    BY <1>0, <1>2
  <2> HIDE DEF T, start, N
  <2> DEFINE new == [term |-> records[k + 1].term, lsn |-> records[k + 1].lsn]
             last == IF records[k + 1].lsn <= f[k + 1].lsn THEN f[k + 1] ELSE new
             g == [i \in 1 .. (k + 1) + 1 |-> IF i <= k + 1 THEN f[i] ELSE last]
             value(i) == IF i = 1 THEN [term |-> r.term, lsn |-> r.position]
                         ELSE IF records[i - 1].lsn <= g[i - 1].lsn THEN g[i - 1]
                         ELSE [term |-> records[i - 1].term, lsn |-> records[i - 1].lsn]
  <2>2. last \in Places
    BY <1>0, <2>1
  <2>3. g \in [1 .. (k + 1) + 1 -> Places]
    BY <2>1, <2>2
  <2>4. ASSUME NEW i \in 1 .. (k + 1) + 1 PROVE g[i] = value(i)
    <3>1. CASE i = 1
      <4>1. f[1] = [term |-> r.term, lsn |-> r.position]
        <5> HIDE DEF g, last, value
        <5> QED BY <2>1 DEF Walks
      <4> QED BY <3>1, <4>1
    <3>2. CASE i \in 2 .. k + 1
      <4>1. g[i] = f[i] /\ g[i - 1] = f[i - 1]
        BY <3>2
      <4>2. f[i] = IF records[i - 1].lsn <= f[i - 1].lsn THEN f[i - 1]
                   ELSE [term |-> records[i - 1].term, lsn |-> records[i - 1].lsn]
        <5>1. i \in 1 .. k + 1 /\ i # 1
          BY <3>2
        <5> HIDE DEF g, last, value
        <5> QED BY <2>1, <5>1 DEF Walks
      <4>3. i # 1
        BY <3>2
      <4> HIDE DEF g
      <4> QED BY <4>1, <4>2, <4>3
    <3>3. CASE i = (k + 1) + 1
      <4>1. g[i] = last /\ g[i - 1] = f[k + 1] /\ i - 1 = k + 1 /\ i # 1
        BY <3>3
      <4> HIDE DEF g
      <4> QED BY <4>1
    <3> QED BY <3>1, <3>2, <3>3
  <2>5. g = [i \in 1 .. (k + 1) + 1 |-> value(i)]
    <3>1. g = [i \in 1 .. (k + 1) + 1 |-> g[i]]
      OBVIOUS
    <3> HIDE DEF g, value
    <3> QED BY <2>4, <3>1
  <2>6. Walks(g, (k + 1) + 1, r, records)
    <3> HIDE DEF g
    <3> QED BY <2>5 DEF Walks
  <2> HIDE DEF g
  <2> QED BY <2>3, <2>6
<1> HIDE DEF T
<1>3. n \in T
  BY <1>1, <1>2, NaturalsBySuccessor
<1> QED BY <1>3 DEF T

\* A delivery never moves the position of a follower back.
LEMMA PositionsMonotone ==
    ASSUME NEW r \in Statuses, NEW records \in Seq(Records)
    PROVE  LET last == Positions(r, records)[Len(records) + 1]
           IN  last \in Places /\ last.lsn >= r.position
<1> DEFINE N == Len(records)
           at == CHOOSE f : Walks(f, N + 1, r, records)
           T == {k \in Nat : k <= N => at[k + 1] \in Places /\ at[k + 1].lsn >= r.position}
<1>0. /\ N \in Nat /\ r.position \in Nat /\ r.term \in Nat
      /\ \A i \in 1 .. N : records[i].term \in Nat /\ records[i].lsn \in Nat
  <2>1. \A i \in 1 .. N : records[i] \in Records
    OBVIOUS
  <2>2. \A x \in Records : x.term \in Nat /\ x.lsn \in Nat
    BY DEF Records
  <2> QED BY <2>1, <2>2 DEF Statuses
<1>1. Walks(at, N + 1, r, records)
  <2>1. \E f : Walks(f, N + 1, r, records)
    BY <1>0, WalksExist
  <2> QED BY <2>1
<1>2. Positions(r, records) = at
  BY DEF Positions, Walks
<1> HIDE DEF at, N
<1>3. 0 \in T
  <2>1. at[1] = [term |-> r.term, lsn |-> r.position]
    BY <1>0, <1>1 DEF Walks
  <2> QED BY <1>0, <2>1 DEF Places
<1>4. ASSUME NEW k \in Nat, k \in T PROVE k + 1 \in T
  <2> SUFFICES ASSUME k + 1 <= N
               PROVE  at[(k + 1) + 1] \in Places /\ at[(k + 1) + 1].lsn >= r.position
    OBVIOUS
  <2>1. at[k + 1] \in Places /\ at[k + 1].lsn >= r.position /\ at[k + 1].lsn \in Nat
    BY <1>0, <1>4 DEF Places
  <2>2. records[k + 1].term \in Nat /\ records[k + 1].lsn \in Nat
    BY <1>0
  <2>3. at[(k + 1) + 1] = IF records[k + 1].lsn <= at[k + 1].lsn THEN at[k + 1]
                          ELSE [term |-> records[k + 1].term, lsn |-> records[k + 1].lsn]
    <3>1. /\ (k + 1) + 1 \in 1 .. N + 1 /\ (k + 1) + 1 # 1
          /\ ((k + 1) + 1) - 1 = k + 1
      BY <1>0
    <3> HIDE DEF T
    <3> QED BY <1>1, <3>1 DEF Walks
  <2>4. CASE records[k + 1].lsn <= at[k + 1].lsn
    BY <2>1, <2>3, <2>4
  <2>5. CASE ~(records[k + 1].lsn <= at[k + 1].lsn)
    BY <1>0, <2>1, <2>2, <2>3, <2>5 DEF Places
  <2> QED BY <2>4, <2>5
<1> HIDE DEF T
<1>5. N \in T
  BY <1>0, <1>3, <1>4, NaturalsBySuccessor
<1> QED BY <1>0, <1>2, <1>5 DEF T, N

-----------------------------------------------------------------------------
(* The operations of ReplicationManager                                    *)

\* What the roles, the histories and the acknowledgements are read from.
Same(r, old) ==
    /\ r.mode = old.mode /\ r.leader = old.leader /\ r.history = old.history
    /\ r.replicas = old.replicas

LEMMA SingleStatus ==
    /\ Single \in Statuses /\ Single.mode = "Disabled" /\ Single.position = 0
    /\ Single.history = << >> /\ Single.replicas = [m \in Nodes |-> Absent]
BY DEF Single, Statuses

LEMMA PromotedStatus ==
    ASSUME NEW r \in Statuses, NEW n \in Nodes, NEW t \in Nat
    PROVE  LET d == promote_to_leader(r, n, t)
           IN  /\ d \in Statuses /\ d.mode = "Leader" /\ d.leader = n
               /\ d.history = r.history /\ d.replicas = r.replicas
               /\ d.position = r.position
BY DEF promote_to_leader, Statuses

LEMMA FailedOverStatus ==
    ASSUME NEW r \in Statuses, NEW n \in Nodes, NEW t \in Nat
    PROVE  LET d == failover_to_follower(r, n, t)
           IN  /\ d \in Statuses /\ d.mode = "Follower" /\ d.leader = n
               /\ d.history = r.history /\ d.replicas = r.replicas
               /\ d.position = r.position
BY DEF failover_to_follower, Statuses

LEMMA CommittedStatus ==
    ASSUME NEW r \in Statuses, NEW lsn \in Nat, NEW b \in Batches
    PROVE  LET d == record_leader_commit(r, lsn, b)
               record == [term |-> r.term, lsn |-> lsn, batch |-> b]
           IN  /\ d \in Statuses /\ record \in Records
               /\ d.mode = r.mode /\ d.leader = r.leader /\ d.replicas = r.replicas
               /\ d.history = Append(r.history, record)
<1> DEFINE record == [term |-> r.term, lsn |-> lsn, batch |-> b]
<1>1. record \in Records
  BY DEF Records, Statuses
<1>2. r.history \in Seq(Records)
  BY DEF Statuses
<1> HIDE DEF record
<1>3. Append(r.history, record) \in Seq(Records)
  BY <1>1, <1>2
<1> QED BY <1>1, <1>3 DEF record_leader_commit, Statuses, record

LEMMA AppliedStatus ==
    ASSUME NEW r \in Statuses, NEW records \in Seq(Records)
    PROVE  LET d == apply_follower_records(r, records)
           IN  d \in Statuses /\ Same(d, r) /\ d.position >= r.position
<1> DEFINE last == Positions(r, records)[Len(records) + 1]
<1>1. last \in Places /\ last.lsn >= r.position
  BY PositionsMonotone
<1>2. apply_follower_records(r, records)
        = [r EXCEPT !.term = last.term, !.position = last.lsn]
  BY DEF apply_follower_records
<1> HIDE DEF last
<1> QED BY <1>1, <1>2 DEF Statuses, Places, Same

LEMMA ReplicaStatus ==
    ASSUME NEW r \in Statuses, NEW f \in Nodes, NEW lsn \in Nat
    PROVE  LET d == [r EXCEPT !.replicas[f] = lsn]
           IN  /\ d \in Statuses /\ d.replicas = [r.replicas EXCEPT ![f] = lsn]
               /\ d.mode = r.mode /\ d.leader = r.leader
               /\ d.history = r.history /\ d.position = r.position
BY DEF Statuses

-----------------------------------------------------------------------------
(* Types                                                                   *)

Stages ==
    {"idle", "down", "applying", "persist_replication", "persist_commit",
     "persist_applied"} \cup ClusterStages

ReplicaType ==
    /\ replication \in [Nodes -> Statuses]
    /\ replication_file \in [Nodes -> Statuses \cup {Torn}]
    /\ pc \in [Nodes -> Stages]
    /\ next_lsn \in [Nodes -> Nat]
    /\ queue \in [Nodes -> Seq(Records)]
    /\ pulled # Absent => pulled.records \in Seq(Records)
    /\ reported \in [Nodes -> SUBSET Nat]
    /\ cluster \in [Nodes -> Topologies]

LEMMA TopologyTerms ==
    ASSUME TopologyInv
    PROVE  cluster \in [Nodes -> Topologies]
BY DEF TopologyInv, Holds, Sound

LEMMA InterruptedFiles ==
    ASSUME NEW n \in Nodes, Interrupted(n)
    PROVE  /\ \/ replication_file' = replication_file
              \/ /\ pc[n] \notin ClusterStages
                 /\ replication_file' = [replication_file EXCEPT ![n] = Torn]
           /\ \/ cluster_file' = cluster_file
              \/ /\ pc[n] \in ClusterStages
                 /\ cluster_file' = [cluster_file EXCEPT ![n] = Torn]
BY DEF Interrupted, FileBeingWritten

LEMMA StoringType ==
    ASSUME ReplicaType, TopologyInv', NEW n \in Nodes, Storing(n) \/ Stopping(n)
    PROVE  ReplicaType'
<1> USE DEF engine, operator, metadata_files
<1>0. cluster' \in [Nodes -> Topologies]
  BY TopologyTerms DEF TopologyInv, Holds, Sound
<1>1. CASE persist_cluster_topology(n)
  BY <1>0, <1>1 DEF persist_cluster_topology, ReplicaType, Stages, ClusterStages
<1>2. CASE persist_replication_metadata(n)
  <2>1. replication[n].position \in Nat
    BY DEF ReplicaType, Statuses
  <2> QED BY <1>0, <1>2, <2>1 DEF persist_replication_metadata, ReplicaType, Stages
<1>3. CASE PersistFails(n)
  BY <1>0, <1>3, InterruptedFiles DEF PersistFails, ReplicaType, Stages
<1>4. CASE Crash(n)
  <2>1. \/ replication_file' = replication_file
        \/ replication_file' = [replication_file EXCEPT ![n] = Torn]
    BY <1>4, InterruptedFiles DEF Crash
  <2>2. << >> \in Seq(Records)
    OBVIOUS
  <2>3. /\ pc' = [pc EXCEPT ![n] = "down"]
        /\ queue' = [queue EXCEPT ![n] = << >>]
        /\ replication' = [replication EXCEPT ![n] = Single]
        /\ UNCHANGED << next_lsn, pulled, reported >>
    BY <1>4 DEF Crash
  <2> QED BY <1>0, <2>1, <2>2, <2>3, SingleStatus DEF ReplicaType, Stages
<1>5. CASE graceful_shutdown(n)
  <2>1. /\ pc' = [pc EXCEPT ![n] = "down"]
        /\ replication' = [replication EXCEPT ![n] = Single]
        /\ next_lsn' = [next_lsn EXCEPT ![n] = @ + 1]
        /\ UNCHANGED << replication_file, queue, pulled, reported >>
    BY <1>5 DEF graceful_shutdown, Publish
  <2> QED BY <1>0, <2>1, SingleStatus DEF ReplicaType, Stages
<1>6. CASE Restart(n)
  BY <1>0, <1>6 DEF Restart, ReplicaType, Stages
<1> QED BY <1>1, <1>2, <1>3, <1>4, <1>5, <1>6 DEF Storing, Stopping

LEMMA ShippingType ==
    ASSUME ReplicaType, NEW n \in Nodes,
           Shipping(n) \/ \E b \in Batches : ClientWrite(n, b)
    PROVE  ReplicaType'
<1> USE DEF engine, operator, metadata_files
<1>0. /\ replication[n] \in Statuses /\ queue[n] \in Seq(Records)
      /\ next_lsn[n] \in Nat /\ << >> \in Seq(Records)
  BY DEF ReplicaType
<1>1. ASSUME NEW m \in Nodes, Fetch(n, m) PROVE ReplicaType'
  <2>1. replication[n].history \in Seq(Records)
    BY <1>0 DEF Statuses
  <2>2. history_since(replication[n], replication[m].position) \in Seq(Records)
    BY <2>1, SelectedType DEF history_since
  <2>3. pulled'.records \in Seq(Records)
    BY <1>1, <2>2 DEF Fetch
  <2> QED BY <1>1, <2>3 DEF Fetch, ReplicaType
<1>2. CASE Deliver(n)
  <2>1. pulled.records \in Seq(Records)
    BY <1>2 DEF Deliver, ReplicaType
  <2>2. AcceptedRecords(replication[n], pulled.records) \in Seq(Records)
    BY <2>1, SelectedType DEF AcceptedRecords
  <2>3. /\ pc' = [pc EXCEPT ![n] = "applying"]
        /\ queue' = [queue EXCEPT ![n] = AcceptedRecords(replication[n], pulled.records)]
        /\ UNCHANGED << next_lsn, replication, replication_file, pulled, reported,
                        cluster >>
    BY <1>2 DEF Deliver
  <2> QED BY <2>2, <2>3 DEF ReplicaType, Stages
<1>3. CASE ApplyRecord(n)
  BY <1>0, <1>3 DEF ApplyRecord, EngineApply, ReplicaType
<1>4. CASE ApplyRefused(n)
  BY <1>0, <1>4 DEF ApplyRefused, ReplicaType, Stages
<1>5. CASE EndDelivery(n)
  <2>1. apply_follower_records(replication[n], queue[n]) \in Statuses
    BY <1>0, AppliedStatus
  <2>2. /\ pc' = [pc EXCEPT ![n] = "persist_applied"]
        /\ queue' = [queue EXCEPT ![n] = << >>]
        /\ replication' = [replication EXCEPT ![n] =
                             apply_follower_records(replication[n], queue[n])]
        /\ UNCHANGED << next_lsn, replication_file, pulled, reported, cluster >>
    BY <1>5 DEF EndDelivery
  <2> QED BY <1>0, <2>1, <2>2 DEF ReplicaType, Stages
<1>6. ASSUME NEW m \in Nodes, NEW lsn \in reported[m], acknowledge_replica(n, m, lsn)
      PROVE  ReplicaType'
  <2>1. lsn \in Nat
    BY DEF ReplicaType
  <2>2. [replication[n] EXCEPT !.replicas[m] = lsn] \in Statuses
    BY <1>0, <2>1, ReplicaStatus
  <2>3. /\ pc' = [pc EXCEPT ![n] = "persist_commit"]
        /\ replication' = [replication EXCEPT ![n] =
                             [replication[n] EXCEPT !.replicas[m] = lsn]]
        /\ UNCHANGED << next_lsn, replication_file, queue, pulled, reported, cluster >>
    BY <1>6 DEF acknowledge_replica
  <2> QED BY <2>2, <2>3 DEF ReplicaType, Stages
<1>7. ASSUME NEW b \in Batches, ClientWrite(n, b) PROVE ReplicaType'
  <2> DEFINE d == IF replication[n].mode = "Leader"
                  THEN record_leader_commit(replication[n], next_lsn[n], b)
                  ELSE replication[n]
  <2>1. d \in Statuses
    BY <1>0, CommittedStatus
  <2>2. /\ pc' = [pc EXCEPT ![n] = "persist_commit"]
        /\ replication' = [replication EXCEPT ![n] = d]
        /\ next_lsn' = [next_lsn EXCEPT ![n] = @ + 1]
        /\ UNCHANGED << replication_file, queue, pulled, reported, cluster >>
    BY <1>7 DEF ClientWrite, EngineApply
  <2> HIDE DEF d
  <2> QED BY <1>0, <2>1, <2>2 DEF ReplicaType, Stages
<1> QED BY <1>1, <1>2, <1>3, <1>4, <1>5, <1>6, <1>7 DEF Shipping

\* One status changes in memory, to another one.
LEMMA StatusChanges ==
    ASSUME ReplicaType, cluster' \in [Nodes -> Topologies], NEW n \in Nodes,
           NEW d \in Statuses, NEW stage \in Stages,
           replication' = [replication EXCEPT ![n] = d],
           pc' = [pc EXCEPT ![n] = stage],
           UNCHANGED << next_lsn, replication_file, queue, pulled, reported >>
    PROVE  ReplicaType'
BY DEF ReplicaType

LEMMA AdministeringType ==
    ASSUME ReplicaType, TopologyInv', NEW n \in Nodes, Administering(n)
    PROVE  ReplicaType'
<1> USE DEF engine, operator, metadata_files, Stages, ClusterStages
<1>0. /\ replication[n] \in Statuses /\ cluster' \in [Nodes -> Topologies]
      /\ cluster[n].term \in Nat /\ cluster'[n].term \in Nat
      /\ replication \in [Nodes -> Statuses]
  <2>1. cluster' \in [Nodes -> Topologies]
    BY DEF TopologyInv, Holds, Sound
  <2> QED BY <2>1 DEF ReplicaType, Topologies
<1>1. CASE configure_as_leader(n)
  <2> DEFINE d == promote_to_leader(replication[n], n, cluster'[n].term)
  <2>1. d \in Statuses
    BY <1>0, PromotedStatus
  <2>2. /\ replication' = [replication EXCEPT ![n] = d]
        /\ pc' = [pc EXCEPT ![n] = "persist_both"]
        /\ UNCHANGED << next_lsn, replication_file, queue, pulled, reported >>
    BY <1>1 DEF configure_as_leader
  <2> HIDE DEF d
  <2> QED BY <1>0, <2>1, <2>2, StatusChanges
<1>2. ASSUME NEW m \in Nodes, configure_as_follower(n, m) PROVE ReplicaType'
  <2> DEFINE d == failover_to_follower(replication[n], m, cluster[n].term)
  <2>1. d \in Statuses
    BY <1>0, FailedOverStatus
  <2>2. /\ replication' = [replication EXCEPT ![n] = d]
        /\ pc' = [pc EXCEPT ![n] = "persist_both"]
        /\ UNCHANGED << next_lsn, replication_file, queue, pulled, reported >>
    BY <1>2 DEF configure_as_follower
  <2> HIDE DEF d
  <2> QED BY <1>0, <2>1, <2>2, StatusChanges
<1>3. ASSUME NEW m \in Nodes, promote_node(n, m) PROVE ReplicaType'
  <2> DEFINE d == IF m = n THEN promote_to_leader(replication[n], n, cluster'[n].term)
                  ELSE failover_to_follower(replication[n], m, cluster'[n].term)
  <2>1. d \in Statuses
    BY <1>0, PromotedStatus, FailedOverStatus
  <2>2. /\ replication' = [replication EXCEPT ![n] = d]
        /\ pc' = [pc EXCEPT ![n] = "persist_both"]
        /\ UNCHANGED << next_lsn, replication_file, queue, pulled, reported >>
    BY <1>3 DEF promote_node
  <2> HIDE DEF d
  <2> QED BY <1>0, <2>1, <2>2, StatusChanges
<1>4. ASSUME NEW m \in Nodes, PromoteUnknown(n, m) PROVE ReplicaType'
  BY <1>0, <1>4 DEF PromoteUnknown, ReplicaType
<1>5. ASSUME NEW m \in Nodes, register_replica(n, m) PROVE ReplicaType'
  <2> DEFINE lsn == IF replication[n].replicas[m] = Absent THEN 0
                    ELSE replication[n].replicas[m]
             d == [replication[n] EXCEPT !.replicas[m] = lsn]
  <2>1. lsn \in Nat
    BY <1>0 DEF Statuses
  <2>2. d \in Statuses
    BY <1>0, <2>1, ReplicaStatus
  <2>3. /\ \/ /\ replication' = [replication EXCEPT ![n] = d]
              /\ pc' = [pc EXCEPT ![n] = "persist_members"]
           \/ UNCHANGED << replication, pc >>
        /\ UNCHANGED << next_lsn, replication_file, queue, pulled, reported >>
    BY <1>0, <1>5 DEF register_replica
  <2> HIDE DEF d
  <2> QED BY <1>0, <2>2, <2>3, StatusChanges DEF ReplicaType
<1>6. ASSUME NEW m \in Nodes, mark_node_health(n, m) PROVE ReplicaType'
  BY <1>0, <1>6 DEF mark_node_health, ReplicaType
<1>7. CASE compact(n)
  BY <1>7 DEF compact, Publish, ReplicaType
<1> QED BY <1>1, <1>2, <1>3, <1>4, <1>5, <1>6, <1>7 DEF Administering

LEMMA InitType == Init => ReplicaType /\ TopologyInv
<1> SUFFICES ASSUME Init PROVE ReplicaType /\ TopologyInv
  OBVIOUS
<1>1. TopologyInv
  BY InitTopology
<1>2. replication \in [Nodes -> Statuses]
  <2>1. CASE replication = [n \in Nodes |-> Single]
    BY <2>1, SingleStatus
  <2>2. ASSUME NEW l \in Nodes, Configured(l) PROVE replication \in [Nodes -> Statuses]
    <3> DEFINE p == promote_to_leader(Single, l, 1)
               d == [p EXCEPT !.replicas = [m \in Nodes |-> IF m = l THEN Absent ELSE 0]]
               f == failover_to_follower(Single, l, 1)
    <3>1. p \in Statuses /\ f \in Statuses
      BY SingleStatus, PromotedStatus, FailedOverStatus
    <3>2. replication = [n \in Nodes |-> IF n = l THEN d ELSE f]
      BY <2>2 DEF Configured
    <3> HIDE DEF p, f
    <3>3. d \in Statuses
      BY <3>1 DEF Statuses
    <3> HIDE DEF d
    <3> QED BY <3>1, <3>2, <3>3
  <2> QED BY <2>1, <2>2 DEF Init
<1>3. cluster \in [Nodes -> Topologies]
  BY <1>1, TopologyTerms
<1>4. << >> \in Seq(Records) /\ "idle" \in Stages
  BY DEF Stages
<1> QED BY <1>1, <1>2, <1>3, <1>4 DEF Init, ReplicaType

LEMMA TypeStep ==
    ReplicaType /\ TopologyInv /\ [Next]_vars => ReplicaType' /\ TopologyInv'
<1> SUFFICES ASSUME ReplicaType, TopologyInv, [Next]_vars
             PROVE  ReplicaType' /\ TopologyInv'
  OBVIOUS
<1>1. TopologyInv'
  BY TopologyStep
<1>2. CASE UNCHANGED vars
  BY <1>1, <1>2 DEF vars, engine, metadata_files, operator, ReplicaType
<1>3. CASE Next
  BY <1>1, <1>3, StoringType, ShippingType, AdministeringType DEF Next
<1> QED BY <1>1, <1>2, <1>3

-----------------------------------------------------------------------------
(* A step concerns one node                                                *)

OnNodes(f) == f = [n \in Nodes |-> f[n]]

PerNode ==
    /\ OnNodes(replication) /\ OnNodes(replication_file)
    /\ OnNodes(cluster) /\ OnNodes(cluster_file)
    /\ OnNodes(pc) /\ OnNodes(graph) /\ OnNodes(complete)
    /\ OnNodes(source) /\ OnNodes(out_of_step) /\ OnNodes(reported)
    /\ OnNodes(next_lsn) /\ OnNodes(reused) /\ OnNodes(reached)
    /\ OnNodes(queue) /\ OnNodes(done) /\ OnNodes(fresh)
    /\ OnNodes(recoverable) /\ OnNodes(exposure)

\* Of node m nothing changes that the properties speak of.
Stays(m) ==
    /\ replication'[m] = replication[m] /\ replication_file'[m] = replication_file[m]
    /\ cluster'[m] = cluster[m] /\ cluster_file'[m] = cluster_file[m]
    /\ pc'[m] = pc[m] /\ graph'[m] = graph[m] /\ complete'[m] = complete[m]
    /\ source'[m] = source[m] /\ out_of_step'[m] = out_of_step[m]
    /\ reported'[m] = reported[m] /\ next_lsn'[m] = next_lsn[m]
    /\ reused'[m] = reused[m] /\ reached'[m] = reached[m]
    /\ queue'[m] = queue[m] /\ done'[m] = done[m] /\ fresh'[m] = fresh[m]
    /\ recoverable'[m] = recoverable[m] /\ exposure'[m] = exposure[m]

LEMMA InitPerNode == Init => PerNode
BY DEF Init, Configured, PerNode, OnNodes

LEMMA StoringIsLocal ==
    ASSUME PerNode, NEW n \in Nodes, Storing(n) \/ Stopping(n)
    PROVE  PerNode' /\ \A m \in Nodes \ {n} : Stays(m)
<1> USE DEF engine, operator, metadata_files, lineage, topology_history, PerNode, OnNodes, Stays
<1>1. CASE persist_cluster_topology(n)
  BY <1>1 DEF persist_cluster_topology
<1>2. CASE persist_replication_metadata(n)
  BY <1>2 DEF persist_replication_metadata
<1>3. CASE PersistFails(n)
  BY <1>3, InterruptedFiles DEF PersistFails
<1>4. CASE Crash(n)
  <2>1. /\ \/ replication_file' = replication_file
           \/ replication_file' = [replication_file EXCEPT ![n] = Torn]
        /\ \/ cluster_file' = cluster_file
           \/ cluster_file' = [cluster_file EXCEPT ![n] = Torn]
    BY <1>4, InterruptedFiles DEF Crash
  <2> QED BY <1>4, <2>1 DEF Crash
<1>5. CASE graceful_shutdown(n)
  BY <1>5 DEF graceful_shutdown, Publish
<1>6. CASE Restart(n)
  BY <1>6 DEF Restart
<1> QED BY <1>1, <1>2, <1>3, <1>4, <1>5, <1>6 DEF Storing, Stopping

LEMMA ShippingIsLocal ==
    ASSUME PerNode, NEW n \in Nodes, Shipping(n) \/ \E b \in Batches : ClientWrite(n, b)
    PROVE  PerNode' /\ \A m \in Nodes \ {n} : Stays(m)
<1> USE DEF engine, operator, metadata_files, lineage, topology_history, PerNode, OnNodes, Stays
<1>1. CASE \E m \in Nodes : Fetch(n, m)
  BY <1>1 DEF Fetch
<1>2. CASE Deliver(n)
  BY <1>2 DEF Deliver
<1>3. CASE ApplyRecord(n)
  BY <1>3 DEF ApplyRecord, EngineApply
<1>4. CASE ApplyRefused(n)
  BY <1>4 DEF ApplyRefused
<1>5. CASE EndDelivery(n)
  BY <1>5 DEF EndDelivery
<1>6. CASE \E m \in Nodes : \E lsn \in reported[m] : acknowledge_replica(n, m, lsn)
  BY <1>6 DEF acknowledge_replica
<1>7. CASE \E b \in Batches : ClientWrite(n, b)
  BY <1>7 DEF ClientWrite, EngineApply
<1> QED BY <1>1, <1>2, <1>3, <1>4, <1>5, <1>6, <1>7 DEF Shipping

LEMMA AdministeringIsLocal ==
    ASSUME PerNode, NEW n \in Nodes, Administering(n)
    PROVE  PerNode' /\ \A m \in Nodes \ {n} : Stays(m)
<1> USE DEF engine, operator, metadata_files, lineage, topology_history, PerNode, OnNodes, Stays
<1>1. CASE configure_as_leader(n)
  BY <1>1 DEF configure_as_leader
<1>2. CASE \E m \in Nodes : configure_as_follower(n, m)
  BY <1>2 DEF configure_as_follower
<1>3. CASE \E m \in Nodes : promote_node(n, m)
  BY <1>3 DEF promote_node
<1>4. CASE \E m \in Nodes : PromoteUnknown(n, m)
  BY <1>4 DEF PromoteUnknown
<1>5. CASE \E m \in Nodes : register_replica(n, m)
  BY <1>5 DEF register_replica
<1>6. CASE \E m \in Nodes : mark_node_health(n, m)
  BY <1>6 DEF mark_node_health
<1>7. CASE compact(n)
  BY <1>7 DEF compact, Publish
<1> QED BY <1>1, <1>2, <1>3, <1>4, <1>5, <1>6, <1>7 DEF Administering

-----------------------------------------------------------------------------
(* Mode and topology                                                       *)

Agree(r, c, n) ==
    /\ r.mode = "Leader" => c.leader = n
    /\ r.mode = "Follower" => r.leader = c.leader

\* Node n with r and c in memory, rf and cf in its files, at stage s, and o if
\* the files have the roles of different operations.  The files must agree as
\* well, because a restart loads them; and as long as no operation on roles is
\* under way they have the roles of the memory.
RolesAt(n, r, c, rf, cf, s, o) ==
    /\ s # "down" /\ ~o => Agree(r, c, n)
    /\ s \in {"persist_both", "persist_replication"} => Agree(r, c, n)
    /\ s = "persist_replication" => o /\ (cf # Torn => cf.leader = c.leader)
    /\ ~o /\ rf # Torn /\ cf # Torn => Agree(rf, cf, n)
    /\ ~o /\ s \notin {"down", "persist_both"} =>
         /\ cf # Torn => cf.leader = c.leader
         /\ rf # Torn => rf.leader = r.leader /\ rf.mode = r.mode

RolesInv ==
    \A n \in Nodes : RolesAt(n, replication[n], cluster[n], replication_file[n],
                             cluster_file[n], pc[n], out_of_step[n])

LEMMA RolesChange ==
    ASSUME RolesInv, NEW n \in Nodes, \A m \in Nodes \ {n} : Stays(m),
           RolesAt(n, replication'[n], cluster'[n], replication_file'[n],
                   cluster_file'[n], pc'[n], out_of_step'[n])
    PROVE  RolesInv'
<1> SUFFICES ASSUME NEW m \in Nodes
             PROVE  RolesAt(m, replication'[m], cluster'[m], replication_file'[m],
                            cluster_file'[m], pc'[m], out_of_step'[m])
  BY DEF RolesInv
<1>1. CASE m = n
  BY <1>1
<1>2. CASE m # n
  <2>1. Stays(m)
    BY <1>2
  <2> QED BY <2>1 DEF Stays, RolesInv
<1> QED BY <1>1, <1>2

LEMMA Leaders ==
    ASSUME NEW c \in Topologies, NEW n \in Nodes, NEW m \in Nodes
    PROVE  /\ ensure_leader(c, n).leader = n
           /\ PromotedTopology(c, m).leader = m
           /\ observe_leader(WithReplica(c, m), m).leader = m
           /\ Crowned(c, m).leader = c.leader
           /\ WithReplica(c, m).leader = c.leader
           /\ [c EXCEPT !.nodes[m].healthy = ~@].leader = c.leader
<1>1. /\ WithReplica(c, m) \in Topologies /\ WithReplica(c, m).leader = c.leader
      /\ Crowned(c, m).leader = c.leader
  BY WithReplicaTopology, CrownedPrimaries
<1>2. /\ Crowned(c, n) \in Topologies /\ Crowned(c, m) \in Topologies
      /\ Crowned(WithReplica(c, m), m) \in Topologies
  BY <1>1, CrownedPrimaries
<1>3. ensure_leader(c, n).leader = n
  BY <1>2 DEF ensure_leader, Topologies
<1>4. PromotedTopology(c, m).leader = m
  BY <1>2 DEF PromotedTopology, Topologies
<1>5. observe_leader(WithReplica(c, m), m).leader = m
  BY <1>2 DEF observe_leader, Topologies
<1>6. [c EXCEPT !.nodes[m].healthy = ~@].leader = c.leader
  BY DEF Topologies
<1> QED BY <1>1, <1>3, <1>4, <1>5, <1>6

LEMMA StoringRoles ==
    ASSUME PerNode, RolesInv, ReplicaType, NEW n \in Nodes, Storing(n) \/ Stopping(n)
    PROVE  RolesInv'
<1> USE DEF engine, operator, metadata_files, lineage, topology_history, PerNode, OnNodes
<1>0. /\ \A m \in Nodes \ {n} : Stays(m)
      /\ RolesAt(n, replication[n], cluster[n], replication_file[n],
                 cluster_file[n], pc[n], out_of_step[n])
  BY StoringIsLocal DEF RolesInv
<1> SUFFICES RolesAt(n, replication'[n], cluster'[n], replication_file'[n],
                     cluster_file'[n], pc'[n], out_of_step'[n])
  BY <1>0, RolesChange
<1>1. CASE persist_cluster_topology(n)
  <2>1. /\ cluster_file'[n] = cluster[n] /\ replication_file'[n] = replication_file[n]
        /\ replication'[n] = replication[n] /\ cluster'[n] = cluster[n]
    BY <1>1 DEF persist_cluster_topology
  <2>2. CASE pc[n] = "persist_both"
    <3>1. out_of_step'[n] = TRUE /\ pc'[n] = "persist_replication"
      BY <1>1, <2>2 DEF persist_cluster_topology
    <3> QED BY <1>0, <2>1, <2>2, <3>1 DEF RolesAt
  <2>3. CASE pc[n] # "persist_both"
    <3>1. /\ out_of_step'[n] = out_of_step[n]
          /\ pc'[n] \in {"idle", "persist_commit"}
          /\ pc[n] \in {"persist_members", "persist_cluster"}
      BY <1>1, <2>3 DEF persist_cluster_topology, ClusterStages
    <3> QED BY <1>0, <2>1, <3>1 DEF RolesAt, Agree
  <2> QED BY <2>2, <2>3
<1>2. CASE persist_replication_metadata(n)
  BY <1>0, <1>2 DEF persist_replication_metadata, RolesAt, Agree
<1>3. CASE PersistFails(n)
  <2>1. /\ replication_file'[n] \in {replication_file[n], Torn}
        /\ cluster_file'[n] \in {cluster_file[n], Torn}
        /\ replication'[n] = replication[n] /\ cluster'[n] = cluster[n]
        /\ pc'[n] = "idle" /\ pc[n] # "down"
        /\ out_of_step'[n] = (pc[n] \in {"persist_both", "persist_replication"}
                                \/ out_of_step[n])
    BY <1>3, InterruptedFiles DEF PersistFails, Persisting, ClusterStages
  <2> QED BY <1>0, <2>1 DEF RolesAt, Agree
<1>4. CASE Crash(n) \/ graceful_shutdown(n)
  <2>1. /\ replication_file'[n] \in {replication_file[n], Torn}
        /\ cluster_file'[n] \in {cluster_file[n], Torn}
        /\ pc'[n] = "down" /\ out_of_step'[n] = out_of_step[n]
    BY <1>4, InterruptedFiles DEF Crash, graceful_shutdown
  <2> QED BY <1>0, <2>1 DEF RolesAt
<1>5. CASE Restart(n)
  BY <1>0, <1>5 DEF Restart, RolesAt, Agree
<1> QED BY <1>1, <1>2, <1>3, <1>4, <1>5 DEF Storing, Stopping

LEMMA ShippingRoles ==
    ASSUME PerNode, RolesInv, ReplicaType, NEW n \in Nodes,
           Shipping(n) \/ \E b \in Batches : ClientWrite(n, b)
    PROVE  RolesInv'
<1> USE DEF engine, operator, metadata_files, lineage, topology_history, PerNode, OnNodes
<1>0. /\ \A m \in Nodes \ {n} : Stays(m)
      /\ RolesAt(n, replication[n], cluster[n], replication_file[n],
                 cluster_file[n], pc[n], out_of_step[n])
      /\ replication[n] \in Statuses /\ next_lsn[n] \in Nat /\ queue[n] \in Seq(Records)
  BY ShippingIsLocal DEF RolesInv, ReplicaType
<1> SUFFICES RolesAt(n, replication'[n], cluster'[n], replication_file'[n],
                     cluster_file'[n], pc'[n], out_of_step'[n])
  BY <1>0, RolesChange
<1>1. /\ UNCHANGED << cluster, replication_file, cluster_file, out_of_step >>
      /\ pc'[n] = pc[n] \/ (pc'[n] \notin {"down", "persist_both", "persist_replication"}
                              /\ pc[n] \in {"idle", "applying"})
      /\ replication'[n].mode = replication[n].mode
      /\ replication'[n].leader = replication[n].leader
  <2>1. CASE \E m \in Nodes : Fetch(n, m)
    BY <2>1 DEF Fetch
  <2>2. CASE Deliver(n)
    BY <2>2 DEF Deliver, Idle
  <2>3. CASE ApplyRecord(n)
    BY <2>3 DEF ApplyRecord
  <2>4. CASE ApplyRefused(n)
    BY <2>4 DEF ApplyRefused
  <2>5. CASE EndDelivery(n)
    <3>1. replication'[n] = apply_follower_records(replication[n], queue[n])
      BY <2>5 DEF EndDelivery
    <3>2. Same(replication'[n], replication[n])
      BY <1>0, <3>1, AppliedStatus
    <3> QED BY <2>5, <3>2 DEF EndDelivery, Same
  <2>6. ASSUME NEW m \in Nodes, NEW lsn \in reported[m], acknowledge_replica(n, m, lsn)
        PROVE  <1>1
    <3>1. lsn \in Nat
      BY DEF ReplicaType
    <3>2. replication'[n] = [replication[n] EXCEPT !.replicas[m] = lsn]
      BY <2>6 DEF acknowledge_replica
    <3>3. /\ replication'[n].mode = replication[n].mode
          /\ replication'[n].leader = replication[n].leader
      BY <1>0, <3>1, <3>2, ReplicaStatus
    <3> QED BY <2>6, <3>3 DEF acknowledge_replica, Idle
  <2>7. ASSUME NEW b \in Batches, ClientWrite(n, b) PROVE <1>1
    <3> DEFINE d == record_leader_commit(replication[n], next_lsn[n], b)
    <3>1. replication'[n] = IF replication[n].mode = "Leader" THEN d ELSE replication[n]
      BY <2>7 DEF ClientWrite
    <3>2. d.mode = replication[n].mode /\ d.leader = replication[n].leader
      BY <1>0, CommittedStatus
    <3> HIDE DEF d
    <3> QED BY <2>7, <3>1, <3>2 DEF ClientWrite, Idle
  <2> QED BY <2>1, <2>2, <2>3, <2>4, <2>5, <2>6, <2>7 DEF Shipping
<1> QED BY <1>0, <1>1 DEF RolesAt, Agree

LEMMA AdministeringRoles ==
    ASSUME PerNode, RolesInv, ReplicaType, TopologyInv, NEW n \in Nodes, Administering(n)
    PROVE  RolesInv'
<1> USE DEF engine, operator, metadata_files, lineage, topology_history, PerNode, OnNodes
<1>0. /\ \A m \in Nodes \ {n} : Stays(m)
      /\ RolesAt(n, replication[n], cluster[n], replication_file[n],
                 cluster_file[n], pc[n], out_of_step[n])
      /\ replication[n] \in Statuses /\ cluster[n] \in Topologies
  BY AdministeringIsLocal DEF RolesInv, ReplicaType
<1>t. cluster' \in [Nodes -> Topologies]
  BY AdministeringKeeps DEF TopologyInv, Holds, Sound
<1>u. cluster[n].term \in Nat /\ cluster'[n].term \in Nat
  BY <1>0, <1>t DEF Topologies
<1> SUFFICES RolesAt(n, replication'[n], cluster'[n], replication_file'[n],
                     cluster_file'[n], pc'[n], out_of_step'[n])
  BY <1>0, RolesChange
\* An operation on roles sets both, and its two writes are still to come.
<1> DEFINE Sets == /\ UNCHANGED << replication_file, cluster_file, out_of_step >>
                   /\ pc[n] = "idle" /\ pc'[n] = "persist_both"
                   /\ Agree(replication'[n], cluster'[n], n)
           Leaves == /\ UNCHANGED << replication_file, cluster_file, out_of_step >>
                     /\ pc[n] = "idle"
                     /\ pc'[n] \in {"idle", "persist_members", "persist_cluster"}
                     /\ replication'[n].mode = replication[n].mode
                     /\ replication'[n].leader = replication[n].leader
                     /\ cluster'[n].leader = cluster[n].leader
<1>1. CASE configure_as_leader(n)
  <2>1. /\ cluster'[n] = ensure_leader(cluster[n], n)
        /\ replication'[n] = promote_to_leader(replication[n], n, cluster'[n].term)
    BY <1>1 DEF configure_as_leader
  <2>2. cluster'[n].leader = n /\ replication'[n].mode = "Leader"
    BY <1>0, <1>u, <2>1, Leaders, PromotedStatus
  <2>3. Sets
    BY <1>1, <2>2 DEF configure_as_leader, Administer, Idle, Agree
  <2> QED BY <1>0, <2>3 DEF RolesAt
<1>2. ASSUME NEW m \in Nodes, configure_as_follower(n, m) PROVE Sets
  <2>1. /\ cluster'[n] = observe_leader(WithReplica(cluster[n], m), m)
        /\ replication'[n] = failover_to_follower(replication[n], m, cluster[n].term)
    BY <1>2 DEF configure_as_follower
  <2>2. /\ cluster'[n].leader = m /\ replication'[n].mode = "Follower"
        /\ replication'[n].leader = m
    BY <1>0, <1>u, <2>1, Leaders, FailedOverStatus
  <2> QED BY <1>2, <2>2 DEF configure_as_follower, Administer, Idle, Agree
<1>3. ASSUME NEW m \in Nodes, promote_node(n, m) PROVE Sets
  <2>1. /\ cluster'[n] = PromotedTopology(cluster[n], m)
        /\ replication'[n] = IF m = n
             THEN promote_to_leader(replication[n], n, cluster'[n].term)
             ELSE failover_to_follower(replication[n], m, cluster'[n].term)
    BY <1>3 DEF promote_node
  <2>2. /\ cluster'[n].leader = m
        /\ IF m = n THEN replication'[n].mode = "Leader"
           ELSE replication'[n].mode = "Follower" /\ replication'[n].leader = m
    BY <1>0, <1>u, <2>1, Leaders, PromotedStatus, FailedOverStatus
  <2> QED BY <1>3, <2>2 DEF promote_node, Administer, Idle, Agree
<1>4. ASSUME NEW m \in Nodes, PromoteUnknown(n, m) PROVE Leaves
  <2>1. cluster'[n] = Crowned(cluster[n], m)
    BY <1>4 DEF PromoteUnknown
  <2>2. cluster'[n].leader = cluster[n].leader
    BY <1>0, <2>1, Leaders
  <2> QED BY <1>4, <2>2 DEF PromoteUnknown, Administer, Idle
<1>5. ASSUME NEW m \in Nodes, register_replica(n, m) PROVE Leaves
  <2> DEFINE lsn == IF replication[n].replicas[m] = Absent THEN 0
                    ELSE replication[n].replicas[m]
             d == [replication[n] EXCEPT !.replicas[m] = lsn]
  <2>1. cluster'[n] = WithReplica(cluster[n], m)
    BY <1>5 DEF register_replica
  <2>2. cluster'[n].leader = cluster[n].leader
    BY <1>0, <2>1, Leaders
  <2>3. lsn \in Nat
    BY <1>0 DEF Statuses
  <2>4. d.mode = replication[n].mode /\ d.leader = replication[n].leader
    BY <1>0, <2>3, ReplicaStatus
  <2>5. /\ \/ replication'[n] = d /\ pc'[n] = "persist_members"
           \/ replication'[n] = replication[n] /\ pc'[n] = pc[n]
    BY <1>0, <1>5 DEF register_replica
  <2> HIDE DEF d
  <2> QED BY <1>5, <2>2, <2>4, <2>5 DEF register_replica, Administer, Idle
<1>6. ASSUME NEW m \in Nodes, mark_node_health(n, m) PROVE Leaves
  <2>1. cluster'[n] = [cluster[n] EXCEPT !.nodes[m].healthy = ~@]
    BY <1>6 DEF mark_node_health
  <2>2. cluster'[n].leader = cluster[n].leader
    BY <1>0, <2>1, Leaders
  <2> QED BY <1>6, <2>2 DEF mark_node_health, Administer, Idle
<1>7. CASE compact(n)
  BY <1>0, <1>7 DEF compact, RolesAt
<1>8. CASE Sets
  BY <1>0, <1>8 DEF RolesAt
<1>9. CASE Leaves
  BY <1>0, <1>9 DEF RolesAt, Agree
<1> QED BY <1>1, <1>2, <1>3, <1>4, <1>5, <1>6, <1>7, <1>8, <1>9 DEF Administering

BaseInv == ReplicaType /\ TopologyInv /\ PerNode

LEMMA BaseAlways == Spec => []BaseInv
<1>1. Init => BaseInv
  BY InitType, InitPerNode DEF BaseInv
<1>2. BaseInv /\ [Next]_vars => BaseInv'
  <2> SUFFICES ASSUME BaseInv, [Next]_vars PROVE BaseInv'
    OBVIOUS
  <2>1. ReplicaType' /\ TopologyInv'
    BY TypeStep DEF BaseInv
  <2>2. CASE UNCHANGED vars
    BY <2>1, <2>2 DEF vars, engine, metadata_files, operator, lineage, topology_history,
                      BaseInv, PerNode, OnNodes
  <2>3. CASE Next
    BY <2>1, <2>3, StoringIsLocal, ShippingIsLocal, AdministeringIsLocal DEF Next, BaseInv
  <2> QED BY <2>2, <2>3
<1> QED BY <1>1, <1>2, PTL DEF Spec

\* A running node's mode and topology tell the same story, for any number of
\* databases and any sequence of operations on roles, crashes and restarts,
\* unless the two files were left with the roles of different operations.
THEOREM RolesAgreeAlways == Spec => []RolesAgree
<1>1. Init => RolesInv
  <2> SUFFICES ASSUME Init, NEW n \in Nodes
               PROVE  RolesAt(n, replication[n], cluster[n], replication_file[n],
                              cluster_file[n], pc[n], out_of_step[n])
    BY DEF RolesInv
  <2>1. Agree(replication[n], cluster[n], n)
    <3>1. CASE replication = [m \in Nodes |-> Single]
      BY <3>1, SingleStatus DEF Agree
    <3>2. ASSUME NEW l \in Nodes, Configured(l) PROVE <2>1
      <4>1. CASE n = l
        <5>1. cluster[n].leader = n
          BY <3>2, <4>1 DEF Configured, SingleTopology
        <5>2. replication[n].mode = "Leader"
          BY <3>2, <4>1 DEF Configured, promote_to_leader, Single
        <5> QED BY <5>1, <5>2 DEF Agree
      <4>2. CASE n # l
        <5>1. SingleTopology(n) \in Topologies
          BY SingleHolds DEF Sound
        <5>2. cluster[n].leader = l
          BY <3>2, <4>2, <5>1, Leaders DEF Configured
        <5>3. replication[n] = failover_to_follower(Single, l, 1)
          BY <3>2, <4>2 DEF Configured
        <5>4. replication[n].mode = "Follower" /\ replication[n].leader = l
          BY <5>3, SingleStatus, FailedOverStatus
        <5> QED BY <5>2, <5>4 DEF Agree
      <4> QED BY <4>1, <4>2
    <3> QED BY <3>1, <3>2 DEF Init
  <2>2. /\ replication_file[n] = replication[n] /\ cluster_file[n] = cluster[n]
        /\ pc[n] = "idle"
    BY DEF Init
  <2> QED BY <2>1, <2>2 DEF RolesAt
<1>2. RolesInv /\ BaseInv /\ [Next]_vars => RolesInv'
  <2> SUFFICES ASSUME RolesInv, BaseInv, [Next]_vars PROVE RolesInv'
    OBVIOUS
  <2>1. CASE UNCHANGED vars
    BY <2>1 DEF vars, metadata_files, topology_history, RolesInv
  <2>2. CASE Next
    BY <2>2, StoringRoles, ShippingRoles, AdministeringRoles DEF Next, BaseInv
  <2> QED BY <2>1, <2>2
<1>3. RolesInv => RolesAgree
  BY DEF RolesInv, RolesAt, Agree, RolesAgree, Down
<1> QED BY <1>1, <1>2, <1>3, BaseAlways, PTL DEF Spec

-----------------------------------------------------------------------------
(* What operations on roles leave alone                                    *)

AdministeringLeaves(n) ==
    /\ UNCHANGED << graph, done, replication_file, complete, source, reported, pulled,
                    reached, reused >>
    /\ pc[n] = "idle" /\ pc'[n] \notin {"down", "applying"}
    /\ next_lsn'[n] \in {next_lsn[n], 1}
    /\ UNCHANGED << recoverable, exposure >> \/ Publish(n)
    /\ replication'[n].history = replication[n].history
    /\ replication'[n].position = replication[n].position
    /\ \A m \in Nodes : replication'[n].replicas[m] \in {replication[n].replicas[m], 0}

LEMMA AdministeringStatus ==
    ASSUME PerNode, ReplicaType, TopologyInv, NEW n \in Nodes, Administering(n)
    PROVE  AdministeringLeaves(n)
<1> USE DEF engine, operator, metadata_files, lineage, topology_history, PerNode, OnNodes
<1>0. /\ replication[n] \in Statuses /\ cluster[n].term \in Nat
      /\ replication[n].replicas \in [Nodes -> Nat \cup {Absent}]
  BY DEF ReplicaType, Topologies, Statuses
<1>t. cluster'[n].term \in Nat
  BY AdministeringKeeps DEF TopologyInv, Holds, Sound, Topologies
<1> DEFINE Kept(r) == /\ r.history = replication[n].history
                      /\ r.position = replication[n].position
                      /\ r.replicas = replication[n].replicas
           Rest == /\ UNCHANGED << graph, done, replication_file, complete, source,
                                   reported, pulled, reached, reused, next_lsn,
                                   recoverable, exposure >>
                   /\ pc[n] = "idle" /\ pc'[n] \notin {"down", "applying"}
<1>1. CASE configure_as_leader(n)
  <2>1. replication'[n] = promote_to_leader(replication[n], n, cluster'[n].term) /\ Rest
    BY <1>1 DEF configure_as_leader, Administer, Idle
  <2>2. Kept(replication'[n])
    BY <1>0, <1>t, <2>1, PromotedStatus
  <2> QED BY <2>1, <2>2 DEF AdministeringLeaves
<1>2. ASSUME NEW m \in Nodes, configure_as_follower(n, m) PROVE AdministeringLeaves(n)
  <2>1. replication'[n] = failover_to_follower(replication[n], m, cluster[n].term) /\ Rest
    BY <1>2 DEF configure_as_follower, Administer, Idle
  <2>2. Kept(replication'[n])
    BY <1>0, <2>1, FailedOverStatus
  <2> QED BY <2>1, <2>2 DEF AdministeringLeaves
<1>3. ASSUME NEW m \in Nodes, promote_node(n, m) PROVE AdministeringLeaves(n)
  <2>1. /\ replication'[n] = IF m = n
             THEN promote_to_leader(replication[n], n, cluster'[n].term)
             ELSE failover_to_follower(replication[n], m, cluster'[n].term)
        /\ Rest
    BY <1>3 DEF promote_node, Administer, Idle
  <2>2. Kept(replication'[n])
    BY <1>0, <1>t, <2>1, PromotedStatus, FailedOverStatus
  <2> QED BY <2>1, <2>2 DEF AdministeringLeaves
<1>4. ASSUME NEW m \in Nodes, PromoteUnknown(n, m) \/ mark_node_health(n, m)
      PROVE  AdministeringLeaves(n)
  BY <1>4 DEF PromoteUnknown, mark_node_health, Administer, Idle, AdministeringLeaves
<1>5. ASSUME NEW m \in Nodes, register_replica(n, m) PROVE AdministeringLeaves(n)
  <2> DEFINE lsn == IF replication[n].replicas[m] = Absent THEN 0
                    ELSE replication[n].replicas[m]
             d == [replication[n] EXCEPT !.replicas[m] = lsn]
  <2>1. lsn \in Nat
    BY <1>0
  <2>2. /\ d.replicas = [replication[n].replicas EXCEPT ![m] = lsn]
        /\ d.history = replication[n].history /\ d.position = replication[n].position
    BY <1>0, <2>1, ReplicaStatus
  <2>3. (replication'[n] = d \/ replication'[n] = replication[n]) /\ Rest
    BY <1>0, <1>5 DEF register_replica, Administer, Idle
  <2>4. \A o \in Nodes : d.replicas[o] \in {replication[n].replicas[o], 0}
    BY <1>0, <2>2
  <2> HIDE DEF d
  <2> QED BY <2>2, <2>3, <2>4 DEF AdministeringLeaves
<1>6. CASE compact(n)
  BY <1>6 DEF compact, Administer, Idle, AdministeringLeaves
<1> QED BY <1>1, <1>2, <1>3, <1>4, <1>5, <1>6 DEF Administering

-----------------------------------------------------------------------------
(* What an opening recovers                                                *)

LEMMA RecordLsns ==
    ASSUME NEW h \in Seq(Records)
    PROVE  \A i \in 1 .. Len(h) : h[i] \in Records /\ h[i].lsn \in Nat /\ h[i].batch \in Batches
<1>1. \A i \in 1 .. Len(h) : h[i] \in Records
  OBVIOUS
<1>2. \A x \in Records : x.lsn \in Nat /\ x.batch \in Batches
  BY DEF Records
<1> QED BY <1>1, <1>2

EngineType ==
    /\ graph \in [Nodes -> Graphs]
    /\ recoverable \in [Nodes -> Graphs \cup {Absent}]
    /\ done \in [Nodes -> Nat]

\* An opening gives what the engine has, or had when the node went down, unless
\* writes took LSNs at or below the published one: then they are at risk, and a
\* crash loses them.  A history that still is the graph has lost none.
RecoverAt(n) ==
    /\ exposure[n] \in {"none", "at_risk", "lost"}
    /\ exposure[n] = "none" => recoverable[n] = graph[n]
    /\ pc[n] = "down" => exposure[n] # "at_risk"
    /\ complete[n] => exposure[n] # "lost"

RecoverInv == EngineType /\ \A n \in Nodes : RecoverAt(n)

\* The engine takes a batch: the log replays it, or the write is at risk.
LEMMA EngineApplied ==
    ASSUME EngineType, PerNode, NEW n \in Nodes, RecoverAt(n), NEW b \in WriteBatches,
           EngineApply(n, b)
    PROVE  /\ graph' \in [Nodes -> Graphs]
           /\ recoverable' \in [Nodes -> Graphs \cup {Absent}]
           /\ exposure'[n] \in {"none", "at_risk", "lost"}
           /\ exposure'[n] = "none" => recoverable'[n] = graph'[n]
           /\ exposure'[n] = "lost" <=> exposure[n] = "lost"
<1>1. /\ graph' = [graph EXCEPT ![n] = apply_batch_to_maps_unchecked(graph[n], b)]
      /\ recoverable' = [recoverable EXCEPT ![n] = Recovered(n, b)]
      /\ exposure'[n] = IF exposure[n] = "none" /\ next_lsn[n] <= published[n]
                        THEN "at_risk" ELSE exposure[n]
      /\ validate_batch_against_maps(graph[n], b)
  BY DEF EngineApply, Accepts, PerNode, OnNodes
<1>2. /\ graph[n] \in Graphs /\ graph[n] # Absent
      /\ recoverable[n] \in Graphs \cup {Absent}
  BY ReplicationAssumption DEF EngineType
<1>3. apply_batch_to_maps_unchecked(graph[n], b) \in Graphs
  BY <1>2, ApplyType
<1>4. Recovered(n, b) \in Graphs \cup {Absent}
  <2>1. CASE recoverable[n] = Absent
    BY <2>1 DEF Recovered
  <2>2. CASE recoverable[n] \in Graphs
    <3>1. apply_batch_to_maps_unchecked(recoverable[n], b) \in Graphs
      BY <2>2, ApplyType
    <3> QED BY <2>2, <3>1 DEF Recovered
  <2> QED BY <1>2, <2>1, <2>2
<1>5. exposure[n] = "none" /\ ~(next_lsn[n] <= published[n])
        => Recovered(n, b) = apply_batch_to_maps_unchecked(graph[n], b)
  BY <1>1, <1>2 DEF Recovered, RecoverAt
<1>6. graph' \in [Nodes -> Graphs] /\ recoverable' \in [Nodes -> Graphs \cup {Absent}]
  BY <1>1, <1>3, <1>4 DEF EngineType
<1>7. /\ graph'[n] = apply_batch_to_maps_unchecked(graph[n], b)
      /\ recoverable'[n] = Recovered(n, b)
  BY <1>1 DEF EngineType
<1> QED BY <1>1, <1>5, <1>6, <1>7 DEF RecoverAt

\* A checkpoint or a compaction publishes all that the engine has.
LEMMA Published ==
    ASSUME EngineType, PerNode, NEW n \in Nodes, RecoverAt(n), Publish(n), graph' = graph
    PROVE  /\ recoverable' \in [Nodes -> Graphs \cup {Absent}]
           /\ exposure'[n] \in {"none", "lost"}
           /\ exposure'[n] = "none" => recoverable'[n] = graph'[n]
           /\ exposure'[n] = "lost" <=> exposure[n] = "lost"
<1>1. /\ recoverable' = [recoverable EXCEPT ![n] = graph[n]]
      /\ exposure'[n] = IF exposure[n] = "at_risk" THEN "none" ELSE exposure[n]
  BY DEF Publish, PerNode, OnNodes
<1>2. recoverable'[n] = graph'[n] /\ recoverable' \in [Nodes -> Graphs \cup {Absent}]
  BY <1>1 DEF EngineType
<1> QED BY <1>1, <1>2 DEF RecoverAt

\* What a step of node n does to its engine.
EngineKept(n) ==
    EngineType' /\ RecoverAt(n)' /\ (exposure[n] = "lost" => exposure'[n] = "lost")

LEMMA StoringRecovers ==
    ASSUME EngineType, PerNode, NEW n \in Nodes, RecoverAt(n), Storing(n) \/ Stopping(n)
    PROVE  EngineKept(n)
<1> USE DEF engine, lineage, PerNode, OnNodes
<1>1. CASE Storing(n)
  <2>1. /\ UNCHANGED << graph, recoverable, done, exposure, complete >>
        /\ pc'[n] # "down"
    <3>1. CASE persist_cluster_topology(n)
      BY <3>1 DEF persist_cluster_topology
    <3>2. CASE persist_replication_metadata(n)
      BY <3>2 DEF persist_replication_metadata
    <3>3. CASE PersistFails(n)
      BY <3>3 DEF PersistFails
    <3> QED BY <1>1, <3>1, <3>2, <3>3 DEF Storing
  <2> QED BY <2>1 DEF EngineKept, EngineType, RecoverAt
<1>2. CASE Crash(n)
  <2>1. /\ UNCHANGED << graph, recoverable >> /\ done' = [done EXCEPT ![n] = 0]
        /\ exposure'[n] = IF exposure[n] = "at_risk" THEN "lost" ELSE exposure[n]
        /\ complete'[n] => complete[n] /\ exposure[n] # "at_risk"
    BY <1>2 DEF Crash
  <2>2. EngineType'
    BY <2>1 DEF EngineType
  <2> QED BY <2>1, <2>2 DEF EngineKept, RecoverAt
<1>3. CASE graceful_shutdown(n)
  <2>1. /\ Publish(n) /\ UNCHANGED << graph, done >> /\ (complete'[n] => complete[n])
    BY <1>3 DEF graceful_shutdown
  <2>2. EngineType'
    BY <2>1, Published DEF EngineType
  <2> QED BY <2>1, <2>2, Published DEF EngineKept, RecoverAt
<1>4. CASE Restart(n)
  <2>1. /\ graph' = [graph EXCEPT ![n] = recoverable[n]] /\ recoverable[n] # Absent
        /\ UNCHANGED << recoverable, done, exposure, complete >> /\ pc'[n] = "idle"
    BY <1>4 DEF Restart
  <2>2. EngineType' /\ graph'[n] = recoverable[n]
    BY <2>1 DEF EngineType
  <2> QED BY <2>1, <2>2 DEF EngineKept, RecoverAt
<1> QED BY <1>1, <1>2, <1>3, <1>4 DEF Stopping

LEMMA ShippingRecovers ==
    ASSUME EngineType, PerNode, ReplicaType, NEW n \in Nodes, RecoverAt(n),
           Shipping(n) \/ \E b \in Batches : ClientWrite(n, b)
    PROVE  EngineKept(n)
<1> USE DEF engine, lineage, PerNode, OnNodes
<1>1. CASE /\ UNCHANGED << graph, recoverable, exposure, complete >>
           /\ done' \in {done, [done EXCEPT ![n] = 0]}
           /\ pc'[n] = pc[n] \/ pc'[n] # "down"
  BY <1>1 DEF EngineKept, EngineType, RecoverAt
<1>2. CASE \/ \E m \in Nodes : Fetch(n, m)
           \/ Deliver(n) \/ ApplyRefused(n) \/ EndDelivery(n)
           \/ \E m \in Nodes : \E lsn \in reported[m] : acknowledge_replica(n, m, lsn)
  BY <1>1, <1>2 DEF Fetch, Deliver, ApplyRefused, EndDelivery, acknowledge_replica
<1>3. CASE ApplyRecord(n)
  <2> DEFINE b == queue[n][done[n] + 1].batch
  <2>1. /\ EngineApply(n, b) /\ done' = [done EXCEPT ![n] = done[n] + 1]
        /\ pc'[n] # "down" /\ ~complete'[n]
        /\ done[n] < Len(queue[n]) /\ done[n] \in Nat /\ queue[n] \in Seq(Records)
    BY <1>3 DEF ApplyRecord, ReplicaType, EngineType
  <2>2. done[n] + 1 \in 1 .. Len(queue[n])
    BY <2>1
  <2>3. b \in WriteBatches
    BY <2>1, <2>2, RecordLsns, ReplicationAssumption
  <2> HIDE DEF b
  <2>4. EngineType'
    BY <2>1, <2>3, EngineApplied DEF EngineType
  <2> QED BY <2>1, <2>3, <2>4, EngineApplied DEF EngineKept, RecoverAt
<1>4. ASSUME NEW b \in Batches, ClientWrite(n, b) PROVE EngineKept(n)
  <2>1. /\ EngineApply(n, b) /\ done' = done /\ pc'[n] # "down"
        /\ complete'[n] => complete[n]
    BY <1>4 DEF ClientWrite
  <2>2. b \in WriteBatches
    BY ReplicationAssumption
  <2>3. EngineType'
    BY <2>1, <2>2, EngineApplied DEF EngineType
  <2> QED BY <2>1, <2>2, <2>3, EngineApplied DEF EngineKept, RecoverAt
<1> QED BY <1>2, <1>3, <1>4 DEF Shipping

LEMMA AdministeringRecovers ==
    ASSUME EngineType, PerNode, ReplicaType, TopologyInv, NEW n \in Nodes, RecoverAt(n),
           Administering(n)
    PROVE  EngineKept(n)
<1>1. /\ UNCHANGED << graph, done, complete >> /\ pc'[n] # "down"
      /\ UNCHANGED << recoverable, exposure >> \/ Publish(n)
  BY AdministeringStatus DEF AdministeringLeaves
<1>2. CASE UNCHANGED << recoverable, exposure >>
  BY <1>1, <1>2 DEF EngineKept, EngineType, RecoverAt
<1>3. CASE Publish(n)
  <2>1. EngineType'
    BY <1>1, <1>3, Published DEF EngineType
  <2> QED BY <1>1, <1>3, <2>1, Published DEF EngineKept, RecoverAt
<1> QED BY <1>1, <1>2, <1>3

\* A node that has lost a write stays one.
LEMMA RecoverStep ==
    ASSUME BaseInv, RecoverInv, [Next]_vars
    PROVE  RecoverInv' /\ \A m \in Nodes : exposure[m] = "lost" => exposure'[m] = "lost"
<1> USE DEF BaseInv, RecoverInv
<1>1. ASSUME NEW n \in Nodes, EngineKept(n), \A m \in Nodes \ {n} : Stays(m)
      PROVE  RecoverInv' /\ \A m \in Nodes : exposure[m] = "lost" => exposure'[m] = "lost"
  <2>1. \A m \in Nodes \ {n} : RecoverAt(m)' /\ exposure'[m] = exposure[m]
    BY <1>1 DEF RecoverAt, Stays
  <2> QED BY <1>1, <2>1 DEF EngineKept
<1>2. CASE UNCHANGED vars
  BY <1>2 DEF vars, engine, lineage, EngineType, RecoverAt
<1>3. CASE Next
  <2>1. PICK n \in Nodes : \/ \E b \in Batches : ClientWrite(n, b)
                           \/ Storing(n) \/ Stopping(n) \/ Shipping(n) \/ Administering(n)
    BY <1>3 DEF Next
  <2>2. EngineKept(n)
    BY <2>1, StoringRecovers, ShippingRecovers, AdministeringRecovers
  <2>3. \A m \in Nodes \ {n} : Stays(m)
    BY <2>1, StoringIsLocal, ShippingIsLocal, AdministeringIsLocal
  <2> QED BY <1>1, <2>2, <2>3
<1> QED BY <1>2, <1>3

LEMMA RecoverAlways == Spec => []RecoverInv
<1>1. Init => RecoverInv
  BY EmptyGraphFacts DEF Init, RecoverInv, EngineType, RecoverAt
<1>2. RecoverInv /\ BaseInv /\ [Next]_vars => RecoverInv'
  BY RecoverStep
<1> QED BY <1>1, <1>2, BaseAlways, PTL DEF Spec

-----------------------------------------------------------------------------
(* What a leader can hand out                                              *)

\* Node n with history r.history in memory and rf in its file, at stage s.
HistoryAt(g, r, rf, s, whole) ==
    whole => IF s = "down" THEN rf # Torn /\ Replay(rf.history) = g
             ELSE Replay(r.history) = g

HistoryInv ==
    \A n \in Nodes : HistoryAt(graph[n], replication[n], replication_file[n], pc[n],
                               complete[n])

LEMMA HistoryChanges ==
    ASSUME HistoryInv, NEW n \in Nodes, \A m \in Nodes \ {n} : Stays(m),
           HistoryAt(graph'[n], replication'[n], replication_file'[n], pc'[n],
                     complete'[n])
    PROVE  HistoryInv'
<1> SUFFICES ASSUME NEW m \in Nodes
             PROVE  HistoryAt(graph'[m], replication'[m], replication_file'[m], pc'[m],
                              complete'[m])
  BY DEF HistoryInv
<1>1. CASE m = n
  BY <1>1
<1>2. CASE m # n
  <2>1. Stays(m)
    BY <1>2
  <2> QED BY <2>1 DEF Stays, HistoryInv
<1> QED BY <1>1, <1>2

LEMMA StoringHistory ==
    ASSUME PerNode, HistoryInv, RecoverInv, NEW n \in Nodes, Storing(n) \/ Stopping(n)
    PROVE  HistoryInv'
<1> USE DEF engine, operator, metadata_files, lineage, topology_history, PerNode, OnNodes
<1>0. /\ \A m \in Nodes \ {n} : Stays(m)
      /\ HistoryAt(graph[n], replication[n], replication_file[n], pc[n], complete[n])
  BY StoringIsLocal DEF HistoryInv
<1> SUFFICES HistoryAt(graph'[n], replication'[n], replication_file'[n], pc'[n],
                       complete'[n])
  BY <1>0, HistoryChanges
<1>1. CASE Storing(n)
  <2>1. /\ UNCHANGED << graph, replication, complete >>
        /\ pc[n] # "down" /\ pc'[n] # "down"
    <3>1. CASE persist_cluster_topology(n)
      BY <3>1 DEF persist_cluster_topology, ClusterStages
    <3>2. CASE persist_replication_metadata(n)
      BY <3>2 DEF persist_replication_metadata
    <3>3. CASE PersistFails(n)
      BY <3>3 DEF PersistFails, Persisting, ClusterStages
    <3> QED BY <1>1, <3>1, <3>2, <3>3 DEF Storing
  <2> QED BY <1>0, <2>1 DEF HistoryAt
<1>2. CASE Crash(n) \/ graceful_shutdown(n)
  <2>1. /\ graph' = graph /\ pc[n] # "down" /\ pc'[n] = "down"
        /\ complete'[n] => /\ complete[n] /\ replication_file'[n] # Torn
                           /\ replication_file'[n].history = replication[n].history
    <3>1. CASE Crash(n)
      BY <3>1 DEF Crash, Down
    <3>2. CASE graceful_shutdown(n)
      BY <3>2 DEF graceful_shutdown, Idle
    <3> QED BY <1>2, <3>1, <3>2
  <2> QED BY <1>0, <2>1 DEF HistoryAt
\* Nothing was lost, so the opening gives the graph that the node went down with.
<1>3. CASE Restart(n)
  <2>1. /\ graph'[n] = recoverable[n] /\ complete' = complete
        /\ pc[n] = "down" /\ pc'[n] = "idle"
        /\ replication'[n] = replication_file[n]
    BY <1>3 DEF Restart, Down
  <2>2. complete[n] => recoverable[n] = graph[n]
    BY <2>1 DEF RecoverInv, RecoverAt
  <2> QED BY <1>0, <2>1, <2>2 DEF HistoryAt
<1> QED BY <1>1, <1>2, <1>3 DEF Stopping

LEMMA ShippingHistory ==
    ASSUME PerNode, HistoryInv, ReplicaType, NEW n \in Nodes,
           Shipping(n) \/ \E b \in Batches : ClientWrite(n, b)
    PROVE  HistoryInv'
<1> USE DEF engine, operator, metadata_files, lineage, topology_history, PerNode, OnNodes
<1>0. /\ \A m \in Nodes \ {n} : Stays(m)
      /\ HistoryAt(graph[n], replication[n], replication_file[n], pc[n], complete[n])
      /\ replication[n] \in Statuses /\ next_lsn[n] \in Nat /\ queue[n] \in Seq(Records)
  BY ShippingIsLocal DEF HistoryInv, ReplicaType
<1> SUFFICES HistoryAt(graph'[n], replication'[n], replication_file'[n], pc'[n],
                       complete'[n])
  BY <1>0, HistoryChanges
<1> DEFINE Leaves == /\ UNCHANGED << graph, replication_file, complete >>
                     /\ replication'[n].history = replication[n].history
                     /\ pc'[n] = pc[n] \/ (pc[n] # "down" /\ pc'[n] # "down")
<1>1. CASE \E m \in Nodes : Fetch(n, m)
  <2>1. Leaves
    BY <1>1 DEF Fetch
  <2> QED BY <1>0, <2>1 DEF HistoryAt
<1>2. CASE Deliver(n) \/ ApplyRefused(n)
  <2>1. Leaves
    BY <1>2 DEF Deliver, ApplyRefused, Idle
  <2> QED BY <1>0, <2>1 DEF HistoryAt
<1>3. CASE ApplyRecord(n)
  <2>1. complete'[n] = FALSE
    BY <1>3 DEF ApplyRecord
  <2> QED BY <2>1 DEF HistoryAt
<1>4. CASE EndDelivery(n)
  <2>1. replication'[n] = apply_follower_records(replication[n], queue[n])
    BY <1>4 DEF EndDelivery
  <2>2. replication'[n].history = replication[n].history
    BY <1>0, <2>1, AppliedStatus DEF Same
  <2>3. Leaves
    BY <1>4, <2>2 DEF EndDelivery
  <2> QED BY <1>0, <2>3 DEF HistoryAt
<1>5. ASSUME NEW m \in Nodes, NEW lsn \in reported[m], acknowledge_replica(n, m, lsn)
      PROVE  Leaves
  <2>1. lsn \in Nat
    BY DEF ReplicaType
  <2>2. replication'[n] = [replication[n] EXCEPT !.replicas[m] = lsn]
    BY <1>5 DEF acknowledge_replica
  <2>3. replication'[n].history = replication[n].history
    BY <1>0, <2>1, <2>2, ReplicaStatus
  <2> QED BY <1>5, <2>3 DEF acknowledge_replica, Idle
<1>6. CASE Leaves
  BY <1>0, <1>6 DEF HistoryAt
\* The record that enters the history is the batch that the engine applied.
<1>7. ASSUME NEW b \in Batches, ClientWrite(n, b)
      PROVE  HistoryAt(graph'[n], replication'[n], replication_file'[n], pc'[n],
                       complete'[n])
  <2> DEFINE d == record_leader_commit(replication[n], next_lsn[n], b)
             record == [term |-> replication[n].term, lsn |-> next_lsn[n], batch |-> b]
  <2>1. /\ graph'[n] = apply_batch_to_maps_unchecked(graph[n], b)
        /\ replication'[n] = IF replication[n].mode = "Leader" THEN d ELSE replication[n]
        /\ complete'[n] = (complete[n] /\ replication[n].mode = "Leader")
        /\ pc[n] = "idle" /\ pc'[n] = "persist_commit"
    BY <1>7 DEF ClientWrite, EngineApply, Idle
  <2>2. record \in Records /\ d.history = Append(replication[n].history, record)
    BY <1>0, CommittedStatus
  <2>3. replication[n].history \in Seq(Records) /\ record.batch = b
    BY <1>0 DEF Statuses
  <2> HIDE DEF d, record
  <2> SUFFICES ASSUME complete[n], replication[n].mode = "Leader"
               PROVE  Replay(d.history) = graph'[n]
    BY <2>1 DEF HistoryAt
  <2>4. Replay(replication[n].history) = graph[n]
    BY <1>0, <2>1 DEF HistoryAt
  <2>5. Replay(d.history)
          = apply_batch_to_maps_unchecked(Replay(replication[n].history), record.batch)
    BY <2>2, <2>3, ReplayAppend
  <2> QED BY <2>1, <2>3, <2>4, <2>5
<1> QED BY <1>1, <1>2, <1>3, <1>4, <1>5, <1>6, <1>7 DEF Shipping

LEMMA AdministeringHistory ==
    ASSUME PerNode, HistoryInv, ReplicaType, TopologyInv, NEW n \in Nodes,
           Administering(n)
    PROVE  HistoryInv'
<1> USE DEF engine, operator, metadata_files, lineage, topology_history, PerNode, OnNodes
<1>0. /\ \A m \in Nodes \ {n} : Stays(m)
      /\ HistoryAt(graph[n], replication[n], replication_file[n], pc[n], complete[n])
      /\ replication[n] \in Statuses /\ cluster[n].term \in Nat
  BY AdministeringIsLocal DEF HistoryInv, ReplicaType, Topologies
<1>1. AdministeringLeaves(n)
  BY AdministeringStatus
<1>2. /\ UNCHANGED << graph, replication_file, complete >>
      /\ pc[n] # "down" /\ pc'[n] # "down"
      /\ replication'[n].history = replication[n].history
  BY <1>1 DEF AdministeringLeaves
<1>3. HistoryAt(graph'[n], replication'[n], replication_file'[n], pc'[n], complete'[n])
  BY <1>0, <1>2 DEF HistoryAt
<1> QED BY <1>0, <1>3, HistoryChanges

LEMMA HistoryAlways == Spec => []HistoryInv
<1>1. Init => HistoryInv
  <2> SUFFICES ASSUME Init, NEW n \in Nodes
               PROVE  Replay(replication[n].history) = graph[n] /\ pc[n] = "idle"
    BY DEF HistoryInv, HistoryAt
  <2>1. Len(replication[n].history) = 0
    <3>1. CASE replication = [m \in Nodes |-> Single]
      BY <3>1, SingleStatus
    <3>2. ASSUME NEW l \in Nodes, Configured(l) PROVE <2>1
      BY <3>2 DEF Configured, promote_to_leader, failover_to_follower, Single
    <3> QED BY <3>1, <3>2 DEF Init
  <2>2. Replay(replication[n].history) = EmptyGraph
    BY <2>1, ReplayEmpty
  <2> QED BY <2>2 DEF Init
<1>2. HistoryInv /\ BaseInv /\ RecoverInv /\ [Next]_vars => HistoryInv'
  <2> SUFFICES ASSUME HistoryInv, BaseInv, RecoverInv, [Next]_vars PROVE HistoryInv'
    OBVIOUS
  <2>1. CASE UNCHANGED vars
    BY <2>1 DEF vars, engine, metadata_files, lineage, HistoryInv
  <2>2. CASE Next
    BY <2>2, StoringHistory, ShippingHistory, AdministeringHistory DEF Next, BaseInv
  <2> QED BY <2>1, <2>2
<1> QED BY <1>1, <1>2, BaseAlways, RecoverAlways, PTL DEF Spec

\* What a running leader, or a stopped one after its restart, can hand out is
\* everything its engine holds or will recover, for any batches, any number of
\* databases and any compactions and crashes, as long as all writes were made as
\* leader, reached the metadata file before the node went down, and none was
\* lost by a crash after a compaction.
THEOREM HistoryIsTheGraphAlways == Spec => []HistoryIsTheGraph
<1>1. RecoverInv /\ HistoryInv => HistoryIsTheGraph
  <2> SUFFICES ASSUME RecoverInv, HistoryInv, NEW n \in Nodes, complete[n], Held(n) # Torn
               PROVE  Replay(Held(n).history) = Stored(n)
    BY DEF HistoryIsTheGraph
  <2>1. Replay(Held(n).history) = graph[n]
    BY DEF HistoryInv, HistoryAt, Held, Down
  <2>2. Stored(n) = graph[n]
    BY DEF RecoverInv, RecoverAt, Stored, Down
  <2> QED BY <2>1, <2>2
<1> QED BY <1>1, HistoryAlways, RecoverAlways, PTL

-----------------------------------------------------------------------------
(* Acknowledged positions                                                  *)

\* A node with records of one leader only never goes behind a position it has
\* answered, in memory or in its file.
ReachesAt(n, r, rf, s, src, answered) ==
    src # n => /\ s # "down" => \A x \in answered : x <= r.position
               /\ rf # Torn => \A x \in answered : x <= rf.position

\* A leader counts only positions that were answered.
Answered(r, answers) ==
    \A f \in Nodes : r.replicas[f] \in answers[f] \cup {0, Absent}

ReachInv ==
    \A n \in Nodes : ReachesAt(n, replication[n], replication_file[n], pc[n], source[n],
                               reported[n])

AnswerInv ==
    \A n \in Nodes : /\ Answered(replication[n], reported)
                     /\ replication_file[n] # Torn =>
                            Answered(replication_file[n], reported)

PulledInv == pulled # Absent => pulled.from \in Nodes /\ pulled.from # pulled.to

LEMMA ReachChanges ==
    ASSUME ReachInv, NEW n \in Nodes, \A m \in Nodes \ {n} : Stays(m),
           ReachesAt(n, replication'[n], replication_file'[n], pc'[n], source'[n],
                     reported'[n])
    PROVE  ReachInv'
<1> SUFFICES ASSUME NEW m \in Nodes
             PROVE  ReachesAt(m, replication'[m], replication_file'[m], pc'[m],
                              source'[m], reported'[m])
  BY DEF ReachInv
<1>1. CASE m = n
  BY <1>1
<1>2. CASE m # n
  <2>1. Stays(m)
    BY <1>2
  <2> QED BY <2>1 DEF Stays, ReachInv
<1> QED BY <1>1, <1>2

LEMMA AnswerChanges ==
    ASSUME AnswerInv, NEW n \in Nodes, \A m \in Nodes \ {n} : Stays(m),
           \A m \in Nodes : reported[m] \subseteq reported'[m],
           Answered(replication'[n], reported'),
           replication_file'[n] # Torn => Answered(replication_file'[n], reported')
    PROVE  AnswerInv'
<1> SUFFICES ASSUME NEW m \in Nodes
             PROVE  /\ Answered(replication'[m], reported')
                    /\ replication_file'[m] # Torn =>
                           Answered(replication_file'[m], reported')
  BY DEF AnswerInv
<1>1. CASE m = n
  BY <1>1
<1>2. CASE m # n
  <2>1. /\ replication'[m] = replication[m]
        /\ replication_file'[m] = replication_file[m]
    BY <1>2 DEF Stays
  <2>2. /\ Answered(replication[m], reported)
        /\ replication_file[m] # Torn => Answered(replication_file[m], reported)
    BY DEF AnswerInv
  <2> QED BY <2>1, <2>2 DEF Answered
<1> QED BY <1>1, <1>2

LEMMA StoringReach ==
    ASSUME PerNode, ReachInv, ReplicaType, NEW n \in Nodes, Storing(n) \/ Stopping(n)
    PROVE  ReachInv'
<1> USE DEF engine, operator, metadata_files, lineage, topology_history, PerNode, OnNodes
<1>0. /\ \A m \in Nodes \ {n} : Stays(m)
      /\ ReachesAt(n, replication[n], replication_file[n], pc[n], source[n], reported[n])
      /\ replication[n].position \in Nat
  BY StoringIsLocal DEF ReachInv, ReplicaType, Statuses
<1> SUFFICES ReachesAt(n, replication'[n], replication_file'[n], pc'[n], source'[n],
                       reported'[n])
  BY <1>0, ReachChanges
<1>1. CASE persist_cluster_topology(n)
  <2>1. /\ UNCHANGED << replication, replication_file, source, reported >>
        /\ pc[n] # "down"
    BY <1>1 DEF persist_cluster_topology, ClusterStages
  <2> QED BY <1>0, <2>1 DEF ReachesAt
<1>2. CASE persist_replication_metadata(n)
  <2>1. /\ UNCHANGED << replication, source >> /\ pc[n] # "down"
        /\ replication_file'[n] = replication[n]
        /\ reported'[n] \subseteq reported[n] \cup {replication[n].position}
    BY <1>2 DEF persist_replication_metadata
  <2>2. source[n] # n => \A x \in reported'[n] : x <= replication[n].position
    BY <1>0, <2>1 DEF ReachesAt
  <2> QED BY <2>1, <2>2 DEF ReachesAt
<1>3. CASE PersistFails(n)
  <2>1. /\ UNCHANGED << replication, source, reported >> /\ pc[n] # "down"
        /\ replication_file'[n] \in {replication_file[n], Torn}
    BY <1>3, InterruptedFiles DEF PersistFails, Persisting, ClusterStages
  <2> QED BY <1>0, <2>1 DEF ReachesAt
<1>4. CASE Crash(n) \/ graceful_shutdown(n)
  <2>1. /\ replication_file'[n] \in {replication_file[n], Torn}
        /\ pc'[n] = "down" /\ UNCHANGED << source, reported >>
    BY <1>4, InterruptedFiles DEF Crash, graceful_shutdown
  <2> QED BY <1>0, <2>1 DEF ReachesAt
<1>5. CASE Restart(n)
  <2>1. /\ UNCHANGED << replication_file, source, reported >>
        /\ replication'[n] = replication_file[n] /\ replication_file[n] # Torn
    BY <1>5 DEF Restart
  <2> QED BY <1>0, <2>1 DEF ReachesAt
<1> QED BY <1>1, <1>2, <1>3, <1>4, <1>5 DEF Storing, Stopping

LEMMA StoringAnswers ==
    ASSUME PerNode, AnswerInv, NEW n \in Nodes, Storing(n) \/ Stopping(n)
    PROVE  AnswerInv'
<1> USE DEF engine, operator, metadata_files, lineage, topology_history, PerNode, OnNodes
<1>0. /\ \A m \in Nodes \ {n} : Stays(m)
      /\ Answered(replication[n], reported)
      /\ replication_file[n] # Torn => Answered(replication_file[n], reported)
  BY StoringIsLocal DEF AnswerInv
<1>1. Answered(Single, reported)
  BY SingleStatus DEF Answered
<1>2. /\ \A m \in Nodes : reported[m] \subseteq reported'[m]
      /\ replication'[n] \in {replication[n], Single}
           \/ (replication'[n] = replication_file[n] /\ replication_file[n] # Torn)
      /\ replication_file'[n] \in {replication_file[n], replication[n], Torn}
  <2>1. CASE persist_cluster_topology(n)
    BY <2>1 DEF persist_cluster_topology
  <2>2. CASE persist_replication_metadata(n)
    BY <2>2 DEF persist_replication_metadata
  <2>3. CASE PersistFails(n)
    BY <2>3, InterruptedFiles DEF PersistFails
  <2>4. CASE Crash(n) \/ graceful_shutdown(n)
    BY <2>4, InterruptedFiles DEF Crash, graceful_shutdown
  <2>5. CASE Restart(n)
    BY <2>5 DEF Restart
  <2> QED BY <2>1, <2>2, <2>3, <2>4, <2>5 DEF Storing, Stopping
<1>3. \A r : Answered(r, reported) => Answered(r, reported')
  BY <1>2 DEF Answered
<1> QED BY <1>0, <1>1, <1>2, <1>3, AnswerChanges

LEMMA ShippingReach ==
    ASSUME PerNode, ReachInv, PulledInv, ReplicaType, NEW n \in Nodes,
           Shipping(n) \/ \E b \in Batches : ClientWrite(n, b)
    PROVE  ReachInv'
<1> USE DEF engine, operator, metadata_files, lineage, topology_history, PerNode, OnNodes
<1>0. /\ \A m \in Nodes \ {n} : Stays(m)
      /\ ReachesAt(n, replication[n], replication_file[n], pc[n], source[n], reported[n])
      /\ replication[n] \in Statuses /\ queue[n] \in Seq(Records)
      /\ reported[n] \subseteq Nat
  BY ShippingIsLocal DEF ReachInv, ReplicaType
<1> SUFFICES ReachesAt(n, replication'[n], replication_file'[n], pc'[n], source'[n],
                       reported'[n])
  BY <1>0, ReachChanges
<1>1. CASE \E m \in Nodes : Fetch(n, m)
  <2>1. UNCHANGED << replication, replication_file, pc, source, reported >>
    BY <1>1 DEF Fetch
  <2> QED BY <1>0, <2>1 DEF ReachesAt
\* A second leader, or the node itself, ends what the node has from one leader.
<1>2. CASE Deliver(n)
  <2>1. UNCHANGED << replication, replication_file, reported >> /\ pc[n] # "down"
    BY <1>2 DEF Deliver, Idle
  <2>2. source[n] = n => source'[n] = n
    <3>1. pulled.from # n /\ Absent # n
      BY <1>2, ReplicationAssumption DEF Deliver, PulledInv
    <3>2. source'[n] \in {source[n], n} \/ source[n] = Absent
      BY <1>2 DEF Deliver
    <3> QED BY <3>1, <3>2
  <2> QED BY <1>0, <2>1, <2>2 DEF ReachesAt
<1>3. CASE ApplyRecord(n) \/ ApplyRefused(n)
  <2>1. UNCHANGED << replication, replication_file, source, reported >> /\ pc[n] # "down"
    BY <1>3 DEF ApplyRecord, ApplyRefused
  <2> QED BY <1>0, <2>1 DEF ReachesAt
<1>4. CASE EndDelivery(n)
  <2>1. /\ replication'[n] = apply_follower_records(replication[n], queue[n])
        /\ UNCHANGED << replication_file, source, reported >> /\ pc[n] # "down"
    BY <1>4 DEF EndDelivery
  <2>2. /\ replication'[n] \in Statuses
        /\ replication'[n].position >= replication[n].position
    BY <1>0, <2>1, AppliedStatus
  <2>3. replication'[n].position \in Nat /\ replication[n].position \in Nat
    BY <1>0, <2>2 DEF Statuses
  <2> QED BY <1>0, <2>1, <2>2, <2>3 DEF ReachesAt
<1>5. ASSUME NEW m \in Nodes, NEW lsn \in reported[m], acknowledge_replica(n, m, lsn)
      PROVE  ReachesAt(n, replication'[n], replication_file'[n], pc'[n], source'[n],
                       reported'[n])
  <2>1. lsn \in Nat
    BY DEF ReplicaType
  <2>2. /\ replication'[n] = [replication[n] EXCEPT !.replicas[m] = lsn]
        /\ UNCHANGED << replication_file, source, reported >> /\ pc[n] # "down"
    BY <1>5 DEF acknowledge_replica, Idle
  <2>3. replication'[n].position = replication[n].position
    BY <1>0, <2>1, <2>2, ReplicaStatus
  <2> QED BY <1>0, <2>2, <2>3 DEF ReachesAt
<1>6. CASE \E b \in Batches : ClientWrite(n, b)
  <2>1. source'[n] = n
    BY <1>6 DEF ClientWrite
  <2> QED BY <2>1 DEF ReachesAt
<1> QED BY <1>1, <1>2, <1>3, <1>4, <1>5, <1>6 DEF Shipping

LEMMA ShippingAnswers ==
    ASSUME PerNode, AnswerInv, ReplicaType, NEW n \in Nodes,
           Shipping(n) \/ \E b \in Batches : ClientWrite(n, b)
    PROVE  AnswerInv'
<1> USE DEF engine, operator, metadata_files, lineage, topology_history, PerNode, OnNodes
<1>0. /\ \A m \in Nodes \ {n} : Stays(m)
      /\ Answered(replication[n], reported)
      /\ replication_file[n] # Torn => Answered(replication_file[n], reported)
      /\ replication[n] \in Statuses /\ queue[n] \in Seq(Records) /\ next_lsn[n] \in Nat
  BY ShippingIsLocal DEF AnswerInv, ReplicaType
<1> DEFINE Kept == /\ UNCHANGED << replication_file, reported >>
                   /\ replication'[n].replicas = replication[n].replicas
<1>1. CASE \E m \in Nodes : Fetch(n, m)
  <2>1. Kept
    BY <1>1 DEF Fetch
  <2> QED BY <1>0, <2>1, AnswerChanges DEF Answered
<1>2. CASE Deliver(n) \/ ApplyRecord(n) \/ ApplyRefused(n)
  <2>1. Kept
    BY <1>2 DEF Deliver, ApplyRecord, ApplyRefused
  <2> QED BY <1>0, <2>1, AnswerChanges DEF Answered
<1>3. CASE EndDelivery(n)
  <2>1. /\ replication'[n] = apply_follower_records(replication[n], queue[n])
        /\ UNCHANGED << replication_file, reported >>
    BY <1>3 DEF EndDelivery
  <2>2. Kept
    BY <1>0, <2>1, AppliedStatus DEF Same
  <2> QED BY <1>0, <2>2, AnswerChanges DEF Answered
<1>4. ASSUME NEW m \in Nodes, NEW lsn \in reported[m], acknowledge_replica(n, m, lsn)
      PROVE  AnswerInv'
  <2>1. lsn \in Nat
    BY DEF ReplicaType
  <2>2. /\ replication'[n] = [replication[n] EXCEPT !.replicas[m] = lsn]
        /\ UNCHANGED << replication_file, reported >>
    BY <1>4 DEF acknowledge_replica
  <2>3. replication'[n].replicas = [replication[n].replicas EXCEPT ![m] = lsn]
    BY <1>0, <2>1, <2>2, ReplicaStatus
  <2>4. \A f \in Nodes : replication'[n].replicas[f] =
                             IF f = m THEN lsn ELSE replication[n].replicas[f]
    BY <1>0, <2>3 DEF Statuses
  <2> QED BY <1>0, <2>2, <2>4, AnswerChanges DEF Answered
<1>5. ASSUME NEW b \in Batches, ClientWrite(n, b) PROVE Kept
  <2> DEFINE d == record_leader_commit(replication[n], next_lsn[n], b)
  <2>1. /\ replication'[n] = IF replication[n].mode = "Leader" THEN d ELSE replication[n]
        /\ UNCHANGED << replication_file, reported >>
    BY <1>5 DEF ClientWrite
  <2>2. d.replicas = replication[n].replicas
    BY <1>0, CommittedStatus
  <2> HIDE DEF d
  <2> QED BY <2>1, <2>2
<1>6. CASE Kept
  BY <1>0, <1>6, AnswerChanges DEF Answered
<1> QED BY <1>1, <1>2, <1>3, <1>4, <1>5, <1>6 DEF Shipping

LEMMA AdministeringAcks ==
    ASSUME PerNode, ReachInv, AnswerInv, ReplicaType, TopologyInv, NEW n \in Nodes,
           Administering(n)
    PROVE  ReachInv' /\ AnswerInv'
<1>0. /\ \A m \in Nodes \ {n} : Stays(m)
      /\ ReachesAt(n, replication[n], replication_file[n], pc[n], source[n], reported[n])
      /\ Answered(replication[n], reported)
      /\ replication_file[n] # Torn => Answered(replication_file[n], reported)
  BY AdministeringIsLocal DEF ReachInv, AnswerInv
<1>1. AdministeringLeaves(n)
  BY AdministeringStatus
<1>2. ReachesAt(n, replication'[n], replication_file'[n], pc'[n], source'[n],
                reported'[n])
  BY <1>0, <1>1 DEF ReachesAt, AdministeringLeaves
<1>3. /\ Answered(replication'[n], reported')
      /\ replication_file'[n] # Torn => Answered(replication_file'[n], reported')
      /\ reported' = reported
  BY <1>0, <1>1 DEF Answered, AdministeringLeaves
<1> QED BY <1>0, <1>2, <1>3, ReachChanges, AnswerChanges

LEMMA PulledStep ==
    ASSUME PulledInv, [Next]_vars
    PROVE  PulledInv'
<1> USE DEF operator
<1>1. CASE UNCHANGED pulled
  BY <1>1 DEF PulledInv
<1>2. ASSUME NEW l \in Nodes, NEW f \in Nodes, Fetch(l, f) PROVE PulledInv'
  BY <1>2 DEF Fetch, PulledInv
<1>3. ASSUME NEW n \in Nodes, Storing(n) \/ Stopping(n) PROVE UNCHANGED pulled
  BY <1>3 DEF Storing, Stopping, persist_cluster_topology, persist_replication_metadata,
              PersistFails, Crash, graceful_shutdown, Restart
<1>4. ASSUME NEW n \in Nodes,
             \/ Deliver(n) \/ ApplyRecord(n) \/ ApplyRefused(n) \/ EndDelivery(n)
             \/ \E m \in Nodes : \E lsn \in reported[m] : acknowledge_replica(n, m, lsn)
             \/ \E b \in Batches : ClientWrite(n, b)
      PROVE  UNCHANGED pulled
  BY <1>4 DEF Deliver, ApplyRecord, ApplyRefused, EndDelivery, acknowledge_replica,
              ClientWrite
<1>5. ASSUME NEW n \in Nodes, Administering(n) PROVE UNCHANGED pulled
  BY <1>5 DEF Administering, configure_as_leader, configure_as_follower, promote_node,
              PromoteUnknown, register_replica, mark_node_health, compact
<1> QED BY <1>1, <1>2, <1>3, <1>4, <1>5 DEF Next, Shipping, vars

\* A position that a leader counts as acknowledged is in the file of the
\* follower, which will have it again after any crash: for any number of
\* followers, any deliveries, late, repeated or refused, and any failed writes.
THEOREM AckedIsDurableAlways == Spec => []AckedIsDurable
<1> DEFINE AckInv == ReachInv /\ AnswerInv /\ PulledInv
<1>1. Init => AckInv
  <2> SUFFICES ASSUME Init PROVE AckInv
    OBVIOUS
  <2>1. ReachInv /\ PulledInv
    BY DEF Init, ReachInv, ReachesAt, PulledInv
  <2>2. \A n, f \in Nodes : replication[n].replicas[f] \in {0, Absent}
    <3>1. CASE replication = [m \in Nodes |-> Single]
      BY <3>1, SingleStatus
    <3>2. ASSUME NEW l \in Nodes, Configured(l) PROVE <2>2
      BY <3>2 DEF Configured, promote_to_leader, failover_to_follower, Single
    <3> QED BY <3>1, <3>2 DEF Init
  <2>3. AnswerInv
    BY <2>2 DEF Init, AnswerInv, Answered
  <2> QED BY <2>1, <2>3
<1>2. AckInv /\ BaseInv /\ [Next]_vars => AckInv'
  <2> SUFFICES ASSUME AckInv, BaseInv, [Next]_vars PROVE AckInv'
    OBVIOUS
  <2>1. PulledInv'
    BY PulledStep
  <2>2. CASE UNCHANGED vars
    BY <2>1, <2>2 DEF vars, metadata_files, operator, lineage, ReachInv, AnswerInv
  <2>3. CASE Next
    BY <2>1, <2>3, StoringReach, StoringAnswers, ShippingReach, ShippingAnswers,
       AdministeringAcks DEF Next, BaseInv
  <2> QED BY <2>2, <2>3
<1>3. AckInv /\ BaseInv => AckedIsDurable
  <2> SUFFICES ASSUME AckInv, BaseInv, NEW f \in Nodes, NEW l \in Nodes,
                      Follows(f, l), Held(l).replicas[f] # Absent,
                      replication_file[f] # Torn
               PROVE  replication_file[f].position >= Held(l).replicas[f]
    BY DEF AckedIsDurable
  <2>1. Answered(Held(l), reported)
    BY DEF AnswerInv, Held, Follows
  <2>2. Held(l).replicas[f] \in reported[f] \cup {0}
    BY <2>1 DEF Answered
  <2>3. \A x \in reported[f] : x <= replication_file[f].position
    BY DEF ReachInv, ReachesAt, Follows
  <2>4. replication_file[f].position \in Nat /\ reported[f] \subseteq Nat
    BY DEF BaseInv, ReplicaType, Statuses
  <2> QED BY <2>2, <2>3, <2>4
<1> QED BY <1>1, <1>2, <1>3, BaseAlways, PTL DEF Spec

-----------------------------------------------------------------------------
(* Parts of a history                                                      *)

\* The records up to a place, and the records after it.
LEMMA SelectedPrefix ==
    ASSUME NEW R, NEW records \in Seq(R), NEW m \in 0 .. Len(records), NEW places,
           \A i \in DOMAIN records : i \in places <=> i <= m
    PROVE  Selected(records, places) = SubSeq(records, 1, m)
<1> DEFINE N == Len(records)
<1>0. /\ N \in Nat /\ DOMAIN records = 1 .. N /\ m \in Nat
      /\ \A i \in 1 .. N : records[i] \in R
  OBVIOUS
<1>1. PICK g : /\ Selects(g, N, records, places)
               /\ \A n \in 0 .. N : g[n] \in Seq(R)
               /\ Selected(records, places) = g[N]
  BY SelectedIsLast
<1> HIDE DEF N
<1> DEFINE T == {n \in Nat : n <= N => g[n] = SubSeq(records, 1, IF n <= m THEN n ELSE m)}
<1>2. 0 \in T
  <2>1. g[0] = << >>
    BY <1>0, <1>1 DEF Selects
  <2>2. SubSeq(records, 1, 0) = << >>
    OBVIOUS
  <2>3. (IF 0 <= m THEN 0 ELSE m) = 0
    BY <1>0
  <2> QED BY <2>1, <2>2, <2>3
<1>3. ASSUME NEW n \in Nat, n \in T PROVE n + 1 \in T
  <2> SUFFICES ASSUME n + 1 <= N
               PROVE  g[n + 1] = SubSeq(records, 1, IF n + 1 <= m THEN n + 1 ELSE m)
    OBVIOUS
  <2>1. g[n] = SubSeq(records, 1, IF n <= m THEN n ELSE m)
    BY <1>0, <1>3
  <2>2. n + 1 \in 0 .. N /\ n + 1 # 0 /\ (n + 1) - 1 = n /\ n + 1 \in 1 .. N
    BY <1>0
  <2> HIDE DEF T
  <2>3. g[n + 1] = IF n + 1 \in places THEN Append(g[n], records[n + 1]) ELSE g[n]
    BY <1>1, <2>2 DEF Selects
  <2>4. n + 1 \in places <=> n + 1 <= m
    BY <1>0, <2>2
  <2>5. CASE n + 1 <= m
    <3>1. g[n] = SubSeq(records, 1, n) /\ g[n + 1] = Append(SubSeq(records, 1, n), records[n + 1])
      BY <2>1, <2>3, <2>4, <2>5
    <3>2. Append(SubSeq(records, 1, n), records[n + 1]) = SubSeq(records, 1, n + 1)
      BY <2>2 DEF N
    <3> QED BY <2>5, <3>1, <3>2
  <2>6. CASE ~(n + 1 <= m)
    <3>1. (IF n <= m THEN n ELSE m) = m
      BY <2>6 DEF N
    <3> QED BY <2>1, <2>3, <2>4, <2>6, <3>1
  <2> QED BY <2>5, <2>6
<1> HIDE DEF T
<1>4. N \in T
  BY <1>0, <1>2, <1>3, NaturalsBySuccessor
<1>5. g[N] = SubSeq(records, 1, IF N <= m THEN N ELSE m)
  BY <1>0, <1>4 DEF T
<1>6. (IF N <= m THEN N ELSE m) = m
  BY DEF N
<1> QED BY <1>1, <1>5, <1>6

LEMMA SelectedSuffix ==
    ASSUME NEW R, NEW records \in Seq(R), NEW m \in 0 .. Len(records), NEW places,
           \A i \in DOMAIN records : i \in places <=> i > m
    PROVE  /\ Selected(records, places) \in Seq(R)
           /\ Len(Selected(records, places)) = Len(records) - m
           /\ \A i \in 1 .. Len(records) - m :
                 Selected(records, places)[i] = records[m + i]
<1> DEFINE N == Len(records)
<1>0. /\ N \in Nat /\ DOMAIN records = 1 .. N /\ m \in Nat /\ m <= N
      /\ \A i \in 1 .. N : records[i] \in R
  OBVIOUS
<1>1. PICK g : /\ Selects(g, N, records, places)
               /\ \A n \in 0 .. N : g[n] \in Seq(R)
               /\ Selected(records, places) = g[N]
  BY SelectedIsLast
<1> HIDE DEF N
<1> DEFINE T == {n \in Nat : n <= N =>
                    /\ Len(g[n]) = IF n <= m THEN 0 ELSE n - m
                    /\ \A i \in 1 .. n - m : g[n][i] = records[m + i]}
<1>2. 0 \in T
  <2>1. g[0] = << >>
    BY <1>0, <1>1 DEF Selects
  <2> QED BY <1>0, <2>1
<1>3. ASSUME NEW n \in Nat, n \in T PROVE n + 1 \in T
  <2> SUFFICES ASSUME n + 1 <= N
               PROVE  /\ Len(g[n + 1]) = IF n + 1 <= m THEN 0 ELSE n + 1 - m
                      /\ \A i \in 1 .. n + 1 - m : g[n + 1][i] = records[m + i]
    OBVIOUS
  <2>1. /\ Len(g[n]) = IF n <= m THEN 0 ELSE n - m
        /\ \A i \in 1 .. n - m : g[n][i] = records[m + i]
    BY <1>0, <1>3
  <2>2. n + 1 \in 0 .. N /\ n + 1 # 0 /\ (n + 1) - 1 = n /\ n + 1 \in 1 .. N /\ n \in 0 .. N
    BY <1>0
  <2> HIDE DEF T
  <2>3. g[n + 1] = IF n + 1 \in places THEN Append(g[n], records[n + 1]) ELSE g[n]
    BY <1>1, <2>2 DEF Selects
  <2>4. n + 1 \in places <=> n + 1 > m
    BY <1>0, <2>2
  <2>5. CASE n + 1 > m
    <3>1. g[n + 1] = Append(g[n], records[n + 1]) /\ g[n] \in Seq(R) /\ records[n + 1] \in R
      BY <1>0, <1>1, <2>2, <2>3, <2>4, <2>5
    <3>2. /\ Len(g[n + 1]) = Len(g[n]) + 1
          /\ \A i \in 1 .. Len(g[n]) : g[n + 1][i] = g[n][i]
          /\ g[n + 1][Len(g[n]) + 1] = records[n + 1]
      BY <3>1
    <3>3. Len(g[n]) = n - m
      BY <1>0, <2>1, <2>5
    <3> QED BY <1>0, <2>1, <2>5, <3>2, <3>3
  <2>6. CASE ~(n + 1 > m)
    BY <1>0, <2>1, <2>3, <2>4, <2>6
  <2> QED BY <2>5, <2>6
<1> HIDE DEF T
<1>4. N \in T
  BY <1>0, <1>2, <1>3, NaturalsBySuccessor
<1>5. /\ Len(g[N]) = IF N <= m THEN 0 ELSE N - m
      /\ \A i \in 1 .. N - m : g[N][i] = records[m + i]
  BY <1>0, <1>4 DEF T
<1>6. (IF N <= m THEN 0 ELSE N - m) = N - m /\ N \in 0 .. N
  BY <1>0
<1>7. /\ g[N] \in Seq(R) /\ Len(g[N]) = N - m
      /\ \A i \in 1 .. N - m : g[N][i] = records[m + i]
  BY <1>1, <1>5, <1>6
<1> QED BY <1>1, <1>7 DEF N

\* LSNs start at 1 and rise.
Ascending(h) ==
    /\ \A i \in DOMAIN h : h[i].lsn >= 1
    /\ \A i, j \in DOMAIN h : i < j => h[i].lsn < h[j].lsn

\* The position of one who has the first i records.
LsnAt(h, i) == IF i = 0 THEN 0 ELSE h[i].lsn

LEMMA LsnsRise ==
    ASSUME NEW h \in Seq(Records), Ascending(h)
    PROVE  /\ \A i \in 0 .. Len(h) : LsnAt(h, i) \in Nat
           /\ \A i, j \in 0 .. Len(h) : i < j <=> LsnAt(h, i) < LsnAt(h, j)
<1> DEFINE N == Len(h)
<1>0. /\ N \in Nat /\ DOMAIN h = 1 .. N
      /\ \A i \in 1 .. N : h[i].lsn \in Nat /\ h[i].lsn >= 1
      /\ \A i, j \in 1 .. N : i < j => h[i].lsn < h[j].lsn
  BY RecordLsns DEF Ascending
<1> HIDE DEF N
<1>1. \A i \in 0 .. N : LsnAt(h, i) \in Nat
  BY <1>0 DEF LsnAt
<1>2. \A i, j \in 0 .. N : i < j => LsnAt(h, i) < LsnAt(h, j)
  <2> SUFFICES ASSUME NEW i \in 0 .. N, NEW j \in 0 .. N, i < j
               PROVE  LsnAt(h, i) < LsnAt(h, j)
    OBVIOUS
  <2>1. j \in 1 .. N /\ LsnAt(h, j) = h[j].lsn
    BY <1>0 DEF LsnAt
  <2>2. CASE i = 0
    BY <1>0, <2>1, <2>2 DEF LsnAt
  <2>3. CASE i # 0
    <3>1. i \in 1 .. N /\ LsnAt(h, i) = h[i].lsn
      BY <1>0, <2>3 DEF LsnAt
    <3> QED BY <1>0, <2>1, <3>1
  <2> QED BY <2>2, <2>3
<1>3. \A i, j \in 0 .. N : LsnAt(h, i) < LsnAt(h, j) => i < j
  <2> SUFFICES ASSUME NEW i \in 0 .. N, NEW j \in 0 .. N, ~(i < j)
               PROVE  ~(LsnAt(h, i) < LsnAt(h, j))
    OBVIOUS
  <2>1. j < i \/ j = i
    BY <1>0
  <2> QED BY <1>1, <1>2, <2>1
<1> QED BY <1>1, <1>2, <1>3 DEF N

\* Of rising records the position before a record is the last one, or still
\* the one that the delivery began with.
LEMMA PositionsOfRising ==
    ASSUME NEW r \in Statuses, NEW records \in Seq(Records), Ascending(records)
    PROVE  /\ Positions(r, records)[1].lsn = r.position
           /\ \A i \in 1 .. Len(records) :
                 Positions(r, records)[i + 1].lsn =
                     IF records[i].lsn > r.position THEN records[i].lsn ELSE r.position
<1> DEFINE N == Len(records)
           at == CHOOSE f : Walks(f, N + 1, r, records)
           Value(i) == IF records[i].lsn > r.position THEN records[i].lsn ELSE r.position
           T == {k \in Nat : k + 1 <= N => at[(k + 1) + 1].lsn = Value(k + 1)}
<1>0. /\ N \in Nat /\ r.position \in Nat /\ DOMAIN records = 1 .. N
      /\ \A i \in 1 .. N : records[i].lsn \in Nat
  BY RecordLsns DEF Statuses
<1>1. Walks(at, N + 1, r, records)
  <2>1. \E f : Walks(f, N + 1, r, records)
    BY <1>0, WalksExist
  <2> QED BY <2>1
<1>2. Positions(r, records) = at
  BY DEF Positions, Walks
<1>r. \A i, j \in 1 .. N : i < j => records[i].lsn < records[j].lsn
  BY <1>0 DEF Ascending
<1> HIDE DEF at, N
<1>3. at[1].lsn = r.position
  <2>1. at[1] = [term |-> r.term, lsn |-> r.position]
    BY <1>0, <1>1 DEF Walks
  <2> QED BY <2>1
<1>4. ASSUME NEW k \in Nat, k + 1 <= N
      PROVE  at[(k + 1) + 1].lsn = IF records[k + 1].lsn <= at[k + 1].lsn
                                   THEN at[k + 1].lsn ELSE records[k + 1].lsn
  <2>1. /\ (k + 1) + 1 \in 1 .. N + 1 /\ (k + 1) + 1 # 1
        /\ ((k + 1) + 1) - 1 = k + 1
    BY <1>0, <1>4
  <2>2. at[(k + 1) + 1] = IF records[k + 1].lsn <= at[k + 1].lsn THEN at[k + 1]
                          ELSE [term |-> records[k + 1].term, lsn |-> records[k + 1].lsn]
    BY <1>1, <2>1 DEF Walks
  <2> QED BY <2>2
<1>5. 0 \in T
  <2> SUFFICES ASSUME 0 + 1 <= N PROVE at[(0 + 1) + 1].lsn = Value(0 + 1)
    OBVIOUS
  <2>1. at[(0 + 1) + 1].lsn = IF records[0 + 1].lsn <= at[0 + 1].lsn
                              THEN at[0 + 1].lsn ELSE records[0 + 1].lsn
    BY <1>4
  <2>2. records[1].lsn \in Nat
    BY <1>0
  <2> QED BY <1>0, <1>3, <2>1, <2>2
<1>6. ASSUME NEW k \in Nat, k \in T PROVE k + 1 \in T
  <2> SUFFICES ASSUME (k + 1) + 1 <= N
               PROVE  at[((k + 1) + 1) + 1].lsn = Value((k + 1) + 1)
    OBVIOUS
  <2> DEFINE i == k + 1
  <2>1. at[i + 1].lsn = Value(i) /\ i \in 1 .. N /\ i + 1 \in 1 .. N /\ i \in Nat
    BY <1>0, <1>6
  <2>2. records[i].lsn < records[i + 1].lsn
    BY <1>r, <2>1
  <2>3. records[i].lsn \in Nat /\ records[i + 1].lsn \in Nat
    BY <1>0, <2>1
  <2>4. at[(i + 1) + 1].lsn = IF records[i + 1].lsn <= at[i + 1].lsn
                              THEN at[i + 1].lsn ELSE records[i + 1].lsn
    BY <1>4, <2>1
  <2> HIDE DEF i, T
  <2>5. at[(i + 1) + 1].lsn = Value(i + 1)
    BY <1>0, <2>1, <2>2, <2>3, <2>4
  <2> QED BY <2>5 DEF i
<1> HIDE DEF T, Value
<1>7. \A k \in Nat : k \in T
  BY <1>5, <1>6, NaturalsBySuccessor
<1>8. ASSUME NEW i \in 1 .. N PROVE at[i + 1].lsn = Value(i)
  <2>1. i - 1 \in T /\ i - 1 \in Nat /\ (i - 1) + 1 = i
    BY <1>0, <1>7
  <2>2. (i - 1) + 1 <= N => at[((i - 1) + 1) + 1].lsn = Value((i - 1) + 1)
    BY <2>1 DEF T
  <2> QED BY <1>0, <2>1, <2>2
<1> QED BY <1>2, <1>3, <1>8 DEF Value, N

\* records is what follows the first u records of h.
Part(records, h, u) ==
    /\ u + Len(records) <= Len(h)
    /\ \A i \in DOMAIN records : records[i] = h[u + i]

LEMMA PartRises ==
    ASSUME NEW h \in Seq(Records), Ascending(h), NEW u \in 0 .. Len(h),
           NEW records \in Seq(Records), Part(records, h, u)
    PROVE  /\ Ascending(records)
           /\ \A i \in 1 .. Len(records) : /\ u + i \in 1 .. Len(h)
                                           /\ records[i].lsn = LsnAt(h, u + i)
<1> DEFINE N == Len(h)
           n == Len(records)
<1>0. /\ N \in Nat /\ n \in Nat /\ u \in Nat /\ DOMAIN h = 1 .. N /\ DOMAIN records = 1 .. n
      /\ u + n <= N
  BY DEF Part
<1>1. \A i \in 1 .. n : u + i \in 1 .. N /\ records[i] = h[u + i] /\ u + i # 0
  BY <1>0 DEF Part
<1>2. \A i, j \in 1 .. n : i < j => u + i < u + j
  BY <1>0
<1> HIDE DEF N, n
<1>3. \A i \in 1 .. n : records[i].lsn >= 1
  BY <1>0, <1>1 DEF Ascending
<1>4. \A i, j \in 1 .. n : i < j => records[i].lsn < records[j].lsn
  BY <1>0, <1>1, <1>2 DEF Ascending
<1> QED BY <1>0, <1>1, <1>3, <1>4 DEF Ascending, LsnAt, n, N

\* A follower at record c takes from what follows record u what follows both.
LEMMA AcceptedPart ==
    ASSUME NEW h \in Seq(Records), Ascending(h), NEW u \in 0 .. Len(h),
           NEW c \in 0 .. Len(h), NEW r \in Statuses, r.position = LsnAt(h, c),
           NEW records \in Seq(Records), Part(records, h, u)
    PROVE  Part(AcceptedRecords(r, records), h, IF u > c THEN u ELSE c)
<1> DEFINE N == Len(h)
           n == Len(records)
           q == IF u > c THEN u ELSE c
           m == IF q - u < n THEN q - u ELSE n
           places == {i \in DOMAIN records : records[i].lsn > Positions(r, records)[i].lsn}
           acc == AcceptedRecords(r, records)
<1>0. /\ N \in Nat /\ n \in Nat /\ u \in Nat /\ c \in Nat /\ DOMAIN records = 1 .. n
      /\ u + n <= N /\ u <= N /\ c <= N
      /\ \A i \in 1 .. n : records[i] = h[u + i]
  BY DEF Part
<1>1. /\ Ascending(records)
      /\ \A i \in 1 .. n : u + i \in 1 .. N /\ records[i].lsn = LsnAt(h, u + i)
  BY PartRises
<1>2. /\ \A i \in 0 .. N : LsnAt(h, i) \in Nat
      /\ \A i, j \in 0 .. N : i < j <=> LsnAt(h, i) < LsnAt(h, j)
  BY LsnsRise
<1>3. /\ Positions(r, records)[1].lsn = LsnAt(h, c)
      /\ \A i \in 1 .. n : Positions(r, records)[i + 1].lsn =
             IF records[i].lsn > LsnAt(h, c) THEN records[i].lsn ELSE LsnAt(h, c)
  BY <1>1, PositionsOfRising
<1> HIDE DEF N, n
<1>4. ASSUME NEW i \in 1 .. n PROVE i \in places <=> u + i > c
  <2>0. /\ u + i \in 0 .. N /\ c \in 0 .. N /\ records[i].lsn = LsnAt(h, u + i)
        /\ i \in Nat /\ i # 0
    BY <1>0, <1>1
  <2>1. LsnAt(h, u + i) > LsnAt(h, c) <=> u + i > c
    BY <1>2, <2>0
  <2>2. i \in places <=> LsnAt(h, u + i) > Positions(r, records)[i].lsn
    BY <1>0, <2>0
  <2>3. CASE i = 1
    BY <1>3, <2>1, <2>2, <2>3
  <2>4. CASE i # 1
    <3>1. i - 1 \in 1 .. n /\ (i - 1) + 1 = i /\ u + (i - 1) \in 0 .. N
      BY <1>0, <2>4
    <3>2. Positions(r, records)[i].lsn =
             IF LsnAt(h, u + (i - 1)) > LsnAt(h, c) THEN LsnAt(h, u + (i - 1)) ELSE LsnAt(h, c)
      BY <1>1, <1>3, <3>1
    <3>3. LsnAt(h, u + (i - 1)) < LsnAt(h, u + i)
      BY <1>2, <2>0, <3>1
    <3>4. /\ LsnAt(h, u + (i - 1)) \in Nat /\ LsnAt(h, u + i) \in Nat
          /\ LsnAt(h, c) \in Nat
      BY <1>2, <2>0, <3>1
    <3> QED BY <2>1, <2>2, <3>2, <3>3, <3>4
  <2> QED BY <2>3, <2>4
<1>5. m \in 0 .. n /\ q \in 0 .. N /\ q >= u /\ q >= c
  BY <1>0
<1>6. ASSUME NEW i \in 1 .. n PROVE i \in places <=> i > m
  <2>1. u + i > c <=> i > m
    BY <1>0
  <2> QED BY <1>4, <2>1
<1>7. acc = Selected(records, places)
  BY DEF AcceptedRecords
<1> HIDE DEF m, q, places, acc
<1>8. /\ acc \in Seq(Records) /\ Len(acc) = n - m
      /\ \A i \in 1 .. n - m : acc[i] = records[m + i]
  <2>1. m \in 0 .. Len(records) /\ \A i \in DOMAIN records : i \in places <=> i > m
    BY <1>0, <1>5, <1>6 DEF n
  <2> QED BY <1>7, <2>1, SelectedSuffix DEF n
<1>9. CASE m = n
  <2>1. Len(acc) = 0 /\ DOMAIN acc = {}
    BY <1>0, <1>8, <1>9
  <2> QED BY <1>0, <1>5, <2>1 DEF Part, N, q, acc
<1>10. CASE m # n
  <2>1. m = q - u /\ m < n
    BY <1>0, <1>5, <1>10 DEF m
  <2>2. DOMAIN acc = 1 .. n - m
    BY <1>0, <1>5, <1>8
  <2>3. ASSUME NEW i \in 1 .. n - m PROVE acc[i] = h[q + i]
    <3>1. m + i \in 1 .. n /\ u + (m + i) = q + i
      BY <1>0, <1>5, <2>1
    <3> QED BY <1>0, <1>8, <3>1
  <2>4. q + (n - m) <= N
    BY <1>0, <1>5, <2>1
  <2> QED BY <1>8, <2>2, <2>3, <2>4 DEF Part, N, q, acc
<1> QED BY <1>9, <1>10

\* After the delivery the position is that of its last record.
LEMMA AppliedPosition ==
    ASSUME NEW h \in Seq(Records), Ascending(h), NEW c \in 0 .. Len(h),
           NEW q \in 0 .. Len(h), c <= q, NEW r \in Statuses, r.position = LsnAt(h, c),
           NEW records \in Seq(Records), Part(records, h, q)
    PROVE  apply_follower_records(r, records).position =
             LsnAt(h, IF Len(records) = 0 THEN c ELSE q + Len(records))
<1> DEFINE N == Len(h)
           n == Len(records)
           last == Positions(r, records)[n + 1]
<1>0. /\ N \in Nat /\ n \in Nat /\ q \in Nat /\ c \in Nat /\ c \in 0 .. N
  OBVIOUS
<1>1. /\ Ascending(records)
      /\ \A i \in 1 .. n : q + i \in 1 .. N /\ records[i].lsn = LsnAt(h, q + i)
  BY PartRises
<1>2. /\ \A i \in 0 .. N : LsnAt(h, i) \in Nat
      /\ \A i, j \in 0 .. N : i < j <=> LsnAt(h, i) < LsnAt(h, j)
  BY LsnsRise
<1>3. /\ Positions(r, records)[1].lsn = LsnAt(h, c)
      /\ \A i \in 1 .. n : Positions(r, records)[i + 1].lsn =
             IF records[i].lsn > LsnAt(h, c) THEN records[i].lsn ELSE LsnAt(h, c)
  BY <1>1, PositionsOfRising
<1>4. apply_follower_records(r, records).position = last.lsn
  BY DEF apply_follower_records, Statuses
<1> HIDE DEF N, n
<1>5. CASE n = 0
  BY <1>3, <1>4, <1>5 DEF n
<1>6. CASE n # 0
  <2>1. n \in 1 .. n /\ q + n \in 0 .. N /\ records[n].lsn = LsnAt(h, q + n)
    BY <1>0, <1>1, <1>6
  <2>2. c < q + n
    BY <1>0, <1>6
  <2>3. LsnAt(h, q + n) > LsnAt(h, c)
    BY <1>0, <1>2, <2>1, <2>2
  <2>4. last.lsn = LsnAt(h, q + n)
    BY <1>3, <2>1, <2>3
  <2> QED BY <1>4, <1>6, <2>4 DEF n
<1> QED BY <1>5, <1>6

-----------------------------------------------------------------------------
(* The graph after the first records of a history                          *)

GraphAt(h, i) == Replay(SubSeq(h, 1, i))

LEMMA GraphAtEmpty ==
    ASSUME NEW h \in Seq(Records)
    PROVE  GraphAt(h, 0) = EmptyGraph
<1>1. Len(SubSeq(h, 1, 0)) = 0
  OBVIOUS
<1> QED BY <1>1, ReplayEmpty DEF GraphAt

LEMMA GraphAtEnd ==
    ASSUME NEW h \in Seq(Records)
    PROVE  GraphAt(h, Len(h)) = Replay(h)
<1>1. SubSeq(h, 1, Len(h)) = h
  OBVIOUS
<1> QED BY <1>1 DEF GraphAt

LEMMA GraphAtNext ==
    ASSUME NEW h \in Seq(Records), NEW i \in 0 .. Len(h), i < Len(h)
    PROVE  GraphAt(h, i + 1) = apply_batch_to_maps_unchecked(GraphAt(h, i), h[i + 1].batch)
<1>1. /\ SubSeq(h, 1, i) \in Seq(Records) /\ h[i + 1] \in Records
      /\ SubSeq(h, 1, i + 1) = Append(SubSeq(h, 1, i), h[i + 1])
  OBVIOUS
<1> QED BY <1>1, ReplayAppend DEF GraphAt

LEMMA GraphAtGrown ==
    ASSUME NEW h \in Seq(Records), NEW x \in Records, NEW i \in 0 .. Len(h)
    PROVE  GraphAt(Append(h, x), i) = GraphAt(h, i)
<1>1. SubSeq(Append(h, x), 1, i) = SubSeq(h, 1, i)
  OBVIOUS
<1> QED BY <1>1 DEF GraphAt

LEMMA GraphAtType ==
    ASSUME NEW h \in Seq(Records)
    PROVE  \A i \in 0 .. Len(h) : GraphAt(h, i) \in Graphs
<1> DEFINE N == Len(h)
           T == {i \in Nat : i <= N => GraphAt(h, i) \in Graphs}
<1>0. N \in Nat
  OBVIOUS
<1>1. 0 \in T
  BY GraphAtEmpty, EmptyGraphFacts
<1>2. ASSUME NEW i \in Nat, i \in T PROVE i + 1 \in T
  <2> SUFFICES ASSUME i + 1 <= N PROVE GraphAt(h, i + 1) \in Graphs
    OBVIOUS
  <2>1. GraphAt(h, i) \in Graphs /\ i \in 0 .. N /\ i < N /\ i + 1 \in 1 .. N
    BY <1>0, <1>2
  <2>2. h[i + 1].batch \in WriteBatches
    BY <2>1, RecordLsns, ReplicationAssumption
  <2> QED BY <2>1, <2>2, GraphAtNext, ApplyType
<1> HIDE DEF T
<1>3. \A i \in Nat : i \in T
  BY <1>1, <1>2, NaturalsBySuccessor
<1> QED BY <1>0, <1>3 DEF T

-----------------------------------------------------------------------------
(* Repeating old records                                                   *)

\* What a batch leaves at a key depends on the key alone, and not even on it
\* if the batch names it.
LEMMA ApplyByKey ==
    ASSUME NEW g, NEW g2, NEW b \in WriteBatches, NEW k \in Keys,
           k \in BatchKeys(b) \/ g[k] = g2[k]
    PROVE  apply_batch_to_maps_unchecked(g, b)[k] = apply_batch_to_maps_unchecked(g2, b)[k]
<1>0. /\ b.deleted_node_ids \subseteq NodeIds /\ b.deleted_edge_ids \subseteq EdgeIds
      /\ Upserted(b.nodes_upserted) \subseteq NodeIds
      /\ Upserted(b.edges_upserted) \subseteq EdgeIds
  BY UpsertedNode, UpsertedEdge DEF WriteBatches
<1>1. CASE k \in NodeIds
  <2>1. k \in BatchKeys(b) => k \in b.deleted_node_ids \cup Upserted(b.nodes_upserted)
    BY <1>0, <1>1, GraphAssumption DEF BatchKeys
  <2> QED BY <1>1, <2>1, AppliedNode
<1>2. CASE k \in EdgeIds
  <2>1. k \in BatchKeys(b) => k \in b.deleted_edge_ids \cup Upserted(b.edges_upserted)
    BY <1>0, <1>2, GraphAssumption DEF BatchKeys
  <2> QED BY <1>2, <2>1, AppliedEdge
<1> QED BY <1>1, <1>2 DEF Keys

\* A key that a batch does not name stays, unless it is an edge that goes with
\* one of its ends; an edge that is not there does not come.
LEMMA ApplyUnnamed ==
    ASSUME NEW g, NEW b \in WriteBatches, NEW k \in Keys, k \notin BatchKeys(b)
    PROVE  LET x == apply_batch_to_maps_unchecked(g, b)[k]
           IN  /\ x = g[k] \/ (k \in EdgeIds /\ x = Absent)
               /\ g[k] = Absent => x = Absent
<1>1. CASE k \in NodeIds
  BY <1>1, AppliedNode DEF BatchKeys
<1>2. CASE k \in EdgeIds
  BY <1>2, AppliedEdge DEF BatchKeys
<1> QED BY <1>1, <1>2 DEF Keys

\* Keys named by the records after the first q up to the r-th.
Named(h, q, r) == UNION {BatchKeys(h[i].batch) : i \in q + 1 .. r}

\* A graph that has had the records of h up to the r-th and has been led
\* through those up to the q-th again: nothing is known of the keys that the
\* records in between name, the others are as after the q-th record, or are
\* edges that an end has already taken with it.
Behind(g, h, q, r) ==
    \A k \in Keys \ Named(h, q, r) :
        \/ g[k] = GraphAt(h, q)[k]
        \/ k \in EdgeIds /\ g[k] = Absent /\ GraphAt(h, r)[k] = Absent

LEMMA UnnamedStays ==
    ASSUME NEW h \in Seq(Records), NEW p \in 0 .. Len(h), NEW q \in 0 .. Len(h), p <= q,
           NEW k \in Keys \ Named(h, p, q)
    PROVE  /\ \/ GraphAt(h, q)[k] = GraphAt(h, p)[k]
              \/ k \in EdgeIds /\ GraphAt(h, q)[k] = Absent
           /\ GraphAt(h, p)[k] = Absent => GraphAt(h, q)[k] = Absent
<1> DEFINE N == Len(h)
           Kept(i) == /\ \/ GraphAt(h, i)[k] = GraphAt(h, p)[k]
                         \/ k \in EdgeIds /\ GraphAt(h, i)[k] = Absent
                      /\ GraphAt(h, p)[k] = Absent => GraphAt(h, i)[k] = Absent
           T == {j \in Nat : p + j <= q => Kept(p + j)}
<1>0. N \in Nat /\ p \in Nat /\ q \in Nat /\ q <= N
  OBVIOUS
<1>1. 0 \in T
  BY <1>0
<1>2. ASSUME NEW j \in Nat, j \in T PROVE j + 1 \in T
  <2> SUFFICES ASSUME p + (j + 1) <= q PROVE Kept(p + (j + 1))
    OBVIOUS
  <2> DEFINE i == p + j
  <2>1. /\ Kept(i) /\ i \in 0 .. N /\ i < N /\ i + 1 = p + (j + 1)
        /\ i + 1 \in p + 1 .. q /\ i + 1 \in 1 .. N
    BY <1>0, <1>2
  <2>2. h[i + 1].batch \in WriteBatches /\ k \notin BatchKeys(h[i + 1].batch)
    BY <2>1, RecordLsns, ReplicationAssumption DEF Named
  <2>3. GraphAt(h, i + 1) = apply_batch_to_maps_unchecked(GraphAt(h, i), h[i + 1].batch)
    BY <2>1, GraphAtNext
  <2>4. /\ \/ GraphAt(h, i + 1)[k] = GraphAt(h, i)[k]
           \/ k \in EdgeIds /\ GraphAt(h, i + 1)[k] = Absent
        /\ GraphAt(h, i)[k] = Absent => GraphAt(h, i + 1)[k] = Absent
    BY <2>2, <2>3, ApplyUnnamed
  <2> HIDE DEF i
  <2>5. Kept(i + 1)
    BY <2>1, <2>4
  <2> QED BY <2>1, <2>5
<1> HIDE DEF T, Kept
<1>3. q - p \in T
  BY <1>0, <1>1, <1>2, NaturalsBySuccessor
<1>4. p + (q - p) <= q => Kept(p + (q - p))
  BY <1>3 DEF T
<1>5. p + (q - p) = q
  BY <1>0
<1> QED BY <1>0, <1>4, <1>5 DEF Kept

\* Going back to an earlier record.
LEMMA BehindBack ==
    ASSUME NEW h \in Seq(Records), NEW p \in 0 .. Len(h), NEW q \in 0 .. Len(h),
           NEW r \in 0 .. Len(h), p <= q, q <= r, NEW g, Behind(g, h, q, r)
    PROVE  Behind(g, h, p, r)
<1> SUFFICES ASSUME NEW k \in Keys \ Named(h, p, r)
             PROVE  \/ g[k] = GraphAt(h, p)[k]
                    \/ k \in EdgeIds /\ g[k] = Absent /\ GraphAt(h, r)[k] = Absent
  BY DEF Behind
<1>1. \A i \in Nat : (i \in p + 1 .. q \/ i \in q + 1 .. r) => i \in p + 1 .. r
  OBVIOUS
<1>2. p + 1 .. q \subseteq Nat /\ q + 1 .. r \subseteq Nat
  OBVIOUS
<1>3. k \in Keys \ Named(h, p, q) /\ k \in Keys \ Named(h, q, r)
  BY <1>1, <1>2 DEF Named
<1>4. \/ g[k] = GraphAt(h, q)[k]
      \/ k \in EdgeIds /\ g[k] = Absent /\ GraphAt(h, r)[k] = Absent
  BY <1>3 DEF Behind
<1>5. \/ GraphAt(h, q)[k] = GraphAt(h, p)[k]
      \/ k \in EdgeIds /\ GraphAt(h, q)[k] = Absent
  BY <1>3, UnnamedStays
<1>6. GraphAt(h, q)[k] = Absent => GraphAt(h, r)[k] = Absent
  BY <1>3, UnnamedStays
<1> QED BY <1>4, <1>5, <1>6

\* The next record once more.
LEMMA BehindAgain ==
    ASSUME NEW h \in Seq(Records), NEW q \in 0 .. Len(h), NEW r \in 0 .. Len(h), q < r,
           NEW g, Behind(g, h, q, r)
    PROVE  Behind(apply_batch_to_maps_unchecked(g, h[q + 1].batch), h, q + 1, r)
<1> DEFINE b == h[q + 1].batch
           g2 == apply_batch_to_maps_unchecked(g, b)
<1> SUFFICES ASSUME NEW k \in Keys \ Named(h, q + 1, r)
             PROVE  \/ g2[k] = GraphAt(h, q + 1)[k]
                    \/ k \in EdgeIds /\ g2[k] = Absent /\ GraphAt(h, r)[k] = Absent
  BY DEF Behind
<1>1. q < Len(h) /\ q + 1 \in 1 .. Len(h) /\ q \in Nat /\ r \in Nat
  OBVIOUS
<1>2. b \in WriteBatches
  BY <1>1, RecordLsns, ReplicationAssumption
<1>3. GraphAt(h, q + 1) = apply_batch_to_maps_unchecked(GraphAt(h, q), b)
  BY <1>1, GraphAtNext
<1> HIDE DEF b
<1>4. CASE k \in BatchKeys(b)
  <2>1. g2[k] = GraphAt(h, q + 1)[k]
    BY <1>2, <1>3, <1>4, ApplyByKey
  <2> QED BY <2>1
<1>5. CASE k \notin BatchKeys(b)
  <2>1. \A i \in q + 1 .. r : i = q + 1 \/ i \in (q + 1) + 1 .. r
    BY <1>1
  <2>2. k \in Keys \ Named(h, q, r)
    BY <1>5, <2>1 DEF Named, b
  <2>3. CASE g[k] = GraphAt(h, q)[k]
    <3>1. g2[k] = GraphAt(h, q + 1)[k]
      BY <1>2, <1>3, <2>3, ApplyByKey
    <3> QED BY <3>1
  <2>4. CASE k \in EdgeIds /\ g[k] = Absent /\ GraphAt(h, r)[k] = Absent
    <3>1. g2[k] = Absent
      BY <1>2, <1>5, <2>4, ApplyUnnamed
    <3> QED BY <2>4, <3>1
  <2> QED BY <2>2, <2>3, <2>4 DEF Behind
<1> QED BY <1>4, <1>5

\* Not behind at all: the graph of the leader after r records.
LEMMA BehindNothing ==
    ASSUME NEW h \in Seq(Records), NEW r \in 0 .. Len(h), NEW g \in Graphs
    PROVE  Behind(g, h, r, r) <=> g = GraphAt(h, r)
<1>1. Named(h, r, r) = {}
  <2>1. r + 1 .. r = {}
    OBVIOUS
  <2> QED BY <2>1 DEF Named
<1>2. Behind(g, h, r, r) <=> \A k \in Keys : g[k] = GraphAt(h, r)[k]
  BY <1>1 DEF Behind
<1>3. GraphAt(h, r) \in Graphs
  BY GraphAtType
<1>4. /\ g = [k \in Keys |-> g[k]]
      /\ GraphAt(h, r) = [k \in Keys |-> GraphAt(h, r)[k]]
  BY <1>3 DEF Graphs
<1> QED BY <1>2, <1>4

\* A record that is new.
LEMMA BehindNew ==
    ASSUME NEW h \in Seq(Records), NEW r \in 0 .. Len(h), r < Len(h),
           NEW g \in Graphs, Behind(g, h, r, r)
    PROVE  Behind(apply_batch_to_maps_unchecked(g, h[r + 1].batch), h, r + 1, r + 1)
<1>1. r + 1 \in 1 .. Len(h) /\ r + 1 \in 0 .. Len(h)
  OBVIOUS
<1>2. h[r + 1].batch \in WriteBatches
  BY <1>1, RecordLsns, ReplicationAssumption
<1>3. apply_batch_to_maps_unchecked(g, h[r + 1].batch) \in Graphs
  BY <1>2, ApplyType
<1>4. apply_batch_to_maps_unchecked(g, h[r + 1].batch) = GraphAt(h, r + 1)
  BY BehindNothing, GraphAtNext
<1> QED BY <1>1, <1>3, <1>4, BehindNothing

\* The history grows.
LEMMA BehindGrown ==
    ASSUME NEW h \in Seq(Records), NEW x \in Records, NEW q \in 0 .. Len(h),
           NEW r \in 0 .. Len(h), NEW g, Behind(g, h, q, r)
    PROVE  Behind(g, Append(h, x), q, r)
<1>1. \A i \in q + 1 .. r : Append(h, x)[i] = h[i]
  OBVIOUS
<1>2. Named(Append(h, x), q, r) = Named(h, q, r)
  BY <1>1 DEF Named
<1>3. GraphAt(Append(h, x), q) = GraphAt(h, q) /\ GraphAt(Append(h, x), r) = GraphAt(h, r)
  BY GraphAtGrown
<1> QED BY <1>2, <1>3 DEF Behind

-----------------------------------------------------------------------------
(* The history of a leader                                                 *)

Shippable(l) == complete[l] /\ ~reused[l]

\* A history with an LSN of its own for each batch, each of which was valid.
Chain(h) ==
    /\ Ascending(h)
    /\ \A i \in DOMAIN h : Accepts(GraphAt(h, i - 1), h[i].batch)

LeaderAt(l) ==
    /\ next_lsn[l] >= 1
    /\ Shippable(l) => Held(l) \in Statuses /\ Chain(Held(l).history)

LeaderInv == \A l \in Nodes : LeaderAt(l)

Extends(h, more) == more = h \/ \E x \in Records : more = Append(h, x)

\* A history that can be handed out is only added to.
LeaderMoves(l) ==
    (Shippable(l))' => Shippable(l) /\ Extends(Held(l).history, (Held(l).history)')

\* The leader commits a batch that its engine accepts, under a new LSN.
LEMMA ChainGrows ==
    ASSUME NEW h \in Seq(Records), Chain(h), NEW x \in Records,
           x.lsn >= 1, \A i \in DOMAIN h : h[i].lsn < x.lsn, Accepts(Replay(h), x.batch)
    PROVE  Chain(Append(h, x))
<1> DEFINE N == Len(h)
           m == Append(h, x)
<1>0. /\ N \in Nat /\ DOMAIN h = 1 .. N /\ DOMAIN m = 1 .. N + 1 /\ m[N + 1] = x
      /\ \A i \in 1 .. N : m[i] = h[i]
  OBVIOUS
<1>1. \A i \in 1 .. N : h[i].lsn \in Nat /\ h[i].lsn < x.lsn /\ h[i].lsn >= 1
  BY RecordLsns DEF Chain, Ascending
<1>2. ASSUME NEW i \in 1 .. N + 1
      PROVE  GraphAt(m, i - 1) = GraphAt(h, i - 1) /\ (i = N + 1 => GraphAt(m, i - 1) = Replay(h))
  <2>1. i - 1 \in 0 .. N
    BY <1>0
  <2>2. GraphAt(m, i - 1) = GraphAt(h, i - 1)
    BY <2>1, GraphAtGrown
  <2>3. i = N + 1 => i - 1 = Len(h)
    BY <1>0
  <2> QED BY <2>2, <2>3, GraphAtEnd
<1> HIDE DEF N, m
<1>3. \A i \in 1 .. N + 1 : i \in 1 .. N \/ i = N + 1
  BY <1>0
<1>4. \A i \in 1 .. N + 1 : m[i].lsn >= 1
  BY <1>0, <1>1, <1>3
<1>5. \A i, j \in 1 .. N + 1 : i < j => m[i].lsn < m[j].lsn
  <2> SUFFICES ASSUME NEW i \in 1 .. N + 1, NEW j \in 1 .. N + 1, i < j
               PROVE  m[i].lsn < m[j].lsn
    OBVIOUS
  <2>1. i \in 1 .. N
    BY <1>0
  <2>2. CASE j \in 1 .. N
    BY <1>0, <2>1, <2>2 DEF Chain, Ascending
  <2>3. CASE j = N + 1
    BY <1>0, <1>1, <2>1, <2>3
  <2> QED BY <1>3, <2>2, <2>3
<1>6. \A i \in 1 .. N + 1 : Accepts(GraphAt(m, i - 1), m[i].batch)
  <2> SUFFICES ASSUME NEW i \in 1 .. N + 1 PROVE Accepts(GraphAt(m, i - 1), m[i].batch)
    OBVIOUS
  <2>1. CASE i \in 1 .. N
    BY <1>0, <1>2, <2>1 DEF Chain
  <2>2. CASE i = N + 1
    BY <1>0, <1>2, <2>2
  <2> QED BY <1>3, <2>1, <2>2
<1> QED BY <1>0, <1>4, <1>5, <1>6 DEF Chain, Ascending, m

\* The history stays as it is.
LEMMA LeaderKeeps ==
    ASSUME NEW l \in Nodes, LeaderAt(l), next_lsn'[l] >= 1,
           (Shippable(l))' => /\ Shippable(l) /\ (Held(l))' \in Statuses
                              /\ (Held(l).history)' = Held(l).history
    PROVE  LeaderAt(l)' /\ LeaderMoves(l)
BY DEF LeaderAt, LeaderMoves, Extends

\* Another node.
LEMMA LeaderStays ==
    ASSUME NEW l \in Nodes, Stays(l), LeaderAt(l)
    PROVE  LeaderAt(l)' /\ LeaderMoves(l)
<1>1. /\ (Held(l))' = Held(l) /\ ((Shippable(l))' <=> Shippable(l))
      /\ next_lsn'[l] = next_lsn[l]
  BY DEF Stays, Held, Down, Shippable
<1> QED BY <1>1 DEF LeaderAt, LeaderMoves, Extends

LEMMA StoringLeader ==
    ASSUME PerNode, ReplicaType, ReplicaType', NEW n \in Nodes, LeaderAt(n),
           Storing(n) \/ Stopping(n)
    PROVE  LeaderAt(n)' /\ LeaderMoves(n)
<1> USE DEF engine, operator, metadata_files, lineage, topology_history, PerNode, OnNodes
<1>0. next_lsn[n] >= 1 /\ next_lsn[n] \in Nat
  BY DEF LeaderAt, ReplicaType
<1>h. Shippable(n) => Held(n) \in Statuses
  BY DEF LeaderAt
<1>1. CASE Storing(n)
  <2>1. /\ UNCHANGED << replication, complete, reused, next_lsn >>
        /\ pc[n] # "down" /\ pc'[n] # "down"
    <3>1. CASE persist_cluster_topology(n)
      BY <3>1 DEF persist_cluster_topology, ClusterStages
    <3>2. CASE persist_replication_metadata(n)
      BY <3>2 DEF persist_replication_metadata
    <3>3. CASE PersistFails(n)
      BY <3>3 DEF PersistFails, Persisting, ClusterStages
    <3> QED BY <1>1, <3>1, <3>2, <3>3 DEF Storing
  <2>2. (Held(n))' = Held(n) /\ ((Shippable(n))' <=> Shippable(n)) /\ next_lsn'[n] = next_lsn[n]
    BY <2>1 DEF Held, Down, Shippable
  <2> QED BY <1>0, <1>h, <2>2, LeaderKeeps
<1>2. CASE Crash(n) \/ graceful_shutdown(n)
  <2>1. /\ pc[n] # "down" /\ pc'[n] = "down" /\ reused' = reused
        /\ next_lsn'[n] \in {next_lsn[n], next_lsn[n] + 1}
        /\ complete'[n] => /\ complete[n] /\ replication_file'[n] # Torn
                           /\ replication_file'[n].history = replication[n].history
    <3>1. CASE Crash(n)
      BY <3>1 DEF Crash, Down
    <3>2. CASE graceful_shutdown(n)
      BY <3>2 DEF graceful_shutdown, Idle
    <3> QED BY <1>2, <3>1, <3>2
  <2>2. next_lsn'[n] >= 1
    BY <1>0, <2>1
  <2>3. (Shippable(n))' => /\ Shippable(n) /\ (Held(n))' \in Statuses
                           /\ (Held(n).history)' = Held(n).history
    BY <2>1 DEF Held, Down, Shippable, ReplicaType
  <2> QED BY <2>2, <2>3, LeaderKeeps
<1>3. CASE Restart(n)
  <2>1. /\ UNCHANGED << complete, reused, next_lsn, replication_file >>
        /\ pc[n] = "down" /\ pc'[n] = "idle" /\ replication'[n] = replication_file[n]
    BY <1>3 DEF Restart, Down
  <2>2. (Held(n))' = Held(n) /\ ((Shippable(n))' <=> Shippable(n)) /\ next_lsn'[n] = next_lsn[n]
    BY <2>1 DEF Held, Down, Shippable
  <2> QED BY <1>0, <1>h, <2>2, LeaderKeeps
<1> QED BY <1>1, <1>2, <1>3 DEF Stopping

LEMMA ShippingLeader ==
    ASSUME PerNode, HistoryInv, ReplicaType, ReplicaType', NEW n \in Nodes, LeaderAt(n),
           Shipping(n) \/ \E b \in Batches : ClientWrite(n, b)
    PROVE  LeaderAt(n)' /\ LeaderMoves(n)
<1> USE DEF engine, operator, metadata_files, lineage, topology_history, PerNode, OnNodes
<1>0. /\ next_lsn[n] >= 1 /\ next_lsn[n] \in Nat
      /\ replication[n] \in Statuses /\ queue[n] \in Seq(Records)
      /\ replication[n].history \in Seq(Records)
  BY DEF LeaderAt, ReplicaType, Statuses
<1>h. Shippable(n) => Held(n) \in Statuses
  BY DEF LeaderAt
<1> DEFINE Leaves == /\ UNCHANGED << complete, reused, next_lsn, replication_file >>
                     /\ replication'[n].history = replication[n].history
                     /\ pc'[n] = pc[n]
                          \/ (pc[n] # "down" /\ pc'[n] # "down")
           Good == LeaderAt(n)' /\ LeaderMoves(n)
<1>1. CASE Leaves
  <2>1. /\ (Held(n).history)' = Held(n).history
        /\ ((Shippable(n))' <=> Shippable(n)) /\ next_lsn'[n] = next_lsn[n]
    BY <1>1 DEF Held, Down, Shippable
  <2>2. Shippable(n) => (Held(n))' \in Statuses
    <3>1. CASE pc[n] = "down"
      <4>1. (Held(n))' = replication_file[n] /\ Held(n) = replication_file[n]
        BY <1>1, <3>1 DEF Held, Down
      <4> QED BY <1>h, <4>1
    <3>2. CASE pc[n] # "down"
      BY <1>1, <3>2 DEF Held, Down, ReplicaType
    <3> QED BY <3>1, <3>2
  <2> QED BY <1>0, <2>1, <2>2, LeaderKeeps
<1>2. CASE \E m \in Nodes : Fetch(n, m)
  <2>1. Leaves
    BY <1>2 DEF Fetch
  <2> QED BY <1>1, <2>1
<1>3. CASE Deliver(n) \/ ApplyRefused(n)
  <2>1. Leaves
    BY <1>3 DEF Deliver, ApplyRefused, Idle
  <2> QED BY <1>1, <2>1
<1>4. CASE ApplyRecord(n)
  <2>1. complete'[n] = FALSE /\ next_lsn'[n] = next_lsn[n] + 1
    BY <1>4 DEF ApplyRecord, EngineApply
  <2>2. ~(Shippable(n))' /\ next_lsn'[n] >= 1
    BY <1>0, <2>1 DEF Shippable
  <2> QED BY <2>2 DEF LeaderAt, LeaderMoves
<1>5. CASE EndDelivery(n)
  <2>1. replication'[n] = apply_follower_records(replication[n], queue[n])
    BY <1>5 DEF EndDelivery
  <2>2. replication'[n].history = replication[n].history
    BY <1>0, <2>1, AppliedStatus DEF Same
  <2>3. Leaves
    BY <1>5, <2>2 DEF EndDelivery
  <2> QED BY <1>1, <2>3
<1>6. ASSUME NEW m \in Nodes, NEW lsn \in reported[m], acknowledge_replica(n, m, lsn)
      PROVE  Leaves
  <2>1. lsn \in Nat
    BY DEF ReplicaType
  <2>2. replication'[n] = [replication[n] EXCEPT !.replicas[m] = lsn]
    BY <1>6 DEF acknowledge_replica
  <2>3. replication'[n].history = replication[n].history
    BY <1>0, <2>1, <2>2, ReplicaStatus
  <2> QED BY <1>6, <2>3 DEF acknowledge_replica, Idle
\* The record takes the engine's next LSN, and the engine has accepted it.
<1>7. ASSUME NEW b \in Batches, ClientWrite(n, b) PROVE Good
  <2> DEFINE d == record_leader_commit(replication[n], next_lsn[n], b)
             x == [term |-> replication[n].term, lsn |-> next_lsn[n], batch |-> b]
             h == replication[n].history
  <2>1. /\ replication'[n] = IF replication[n].mode = "Leader" THEN d ELSE replication[n]
        /\ complete'[n] = (complete[n] /\ replication[n].mode = "Leader")
        /\ next_lsn'[n] = next_lsn[n] + 1
        /\ ~reused'[n] => ~reused[n] /\ ~\E i \in DOMAIN h : next_lsn[n] <= h[i].lsn
        /\ pc[n] = "idle" /\ pc'[n] = "persist_commit" /\ Accepts(graph[n], b)
    BY <1>7 DEF ClientWrite, EngineApply, Idle
  <2>2. x \in Records /\ d.history = Append(h, x) /\ d \in Statuses
    BY <1>0, CommittedStatus
  <2>3. x.batch = b /\ x.lsn = next_lsn[n]
    OBVIOUS
  <2> HIDE DEF d, x
  <2>4. next_lsn'[n] >= 1
    BY <1>0, <2>1
  <2> SUFFICES ASSUME (Shippable(n))'
               PROVE  /\ (Held(n))' \in Statuses
                      /\ Chain((Held(n).history)')
                      /\ Shippable(n) /\ Extends(Held(n).history, (Held(n).history)')
    BY <2>4 DEF LeaderAt, LeaderMoves
  <2>5. Shippable(n) /\ replication[n].mode = "Leader" /\ complete[n]
    BY <2>1 DEF Shippable
  <2>6. Held(n) = replication[n] /\ (Held(n))' = d
    BY <2>1, <2>5 DEF Held, Down
  <2>7. Replay(h) = graph[n]
    BY <2>1, <2>5 DEF HistoryInv, HistoryAt
  <2>8. Chain(h)
    BY <2>5, <2>6 DEF LeaderAt
  <2>l. \A i \in DOMAIN h : h[i].lsn < next_lsn[n]
    <3>1. \A i \in DOMAIN h : ~(next_lsn[n] <= h[i].lsn)
      BY <2>1 DEF Shippable
    <3> HIDE DEF h
    <3>2. h \in Seq(Records)
      BY <1>0 DEF h
    <3>3. \A i \in DOMAIN h : h[i].lsn \in Nat
      BY <3>2, RecordLsns
    <3> QED BY <1>0, <3>1, <3>3
  <2>9. Chain(Append(h, x))
    BY <1>0, <2>1, <2>2, <2>3, <2>7, <2>8, <2>l, ChainGrows
  <2> QED BY <2>1, <2>2, <2>5, <2>6, <2>9 DEF Extends
<1> QED BY <1>1, <1>2, <1>3, <1>4, <1>5, <1>6, <1>7 DEF Shipping

LEMMA AdministeringLeader ==
    ASSUME PerNode, TopologyInv, ReplicaType, ReplicaType', NEW n \in Nodes, LeaderAt(n),
           Administering(n)
    PROVE  LeaderAt(n)' /\ LeaderMoves(n)
<1>0. next_lsn[n] >= 1 /\ next_lsn[n] \in Nat
  BY DEF LeaderAt, ReplicaType
<1>1. AdministeringLeaves(n)
  BY AdministeringStatus
<1>2. next_lsn'[n] >= 1
  BY <1>0, <1>1 DEF AdministeringLeaves
<1>3. (Held(n).history)' = Held(n).history /\ (Held(n))' \in Statuses
  BY <1>1 DEF AdministeringLeaves, Held, Down, ReplicaType
<1>4. (Shippable(n))' => Shippable(n)
  BY <1>1 DEF AdministeringLeaves, Shippable
<1> QED BY <1>0, <1>2, <1>3, <1>4, LeaderKeeps

LEMMA LeaderStep ==
    ASSUME BaseInv, ReplicaType', HistoryInv, LeaderInv, [Next]_vars
    PROVE  LeaderInv' /\ \A l \in Nodes : LeaderMoves(l)
<1> SUFFICES ASSUME NEW l \in Nodes PROVE LeaderAt(l)' /\ LeaderMoves(l)
  BY DEF LeaderInv
<1>0. LeaderAt(l)
  BY DEF LeaderInv
<1>1. CASE UNCHANGED vars
  <2>1. Stays(l)
    BY <1>1 DEF vars, engine, operator, metadata_files, lineage, topology_history, Stays
  <2> QED BY <1>0, <2>1, LeaderStays
<1>2. ASSUME NEW n \in Nodes, Storing(n) \/ Stopping(n)
      PROVE  LeaderAt(l)' /\ LeaderMoves(l)
  <2>1. l # n => Stays(l)
    BY <1>2, StoringIsLocal DEF BaseInv
  <2> QED BY <1>0, <1>2, <2>1, LeaderStays, StoringLeader DEF BaseInv
<1>3. ASSUME NEW n \in Nodes, Shipping(n) \/ \E b \in Batches : ClientWrite(n, b)
      PROVE  LeaderAt(l)' /\ LeaderMoves(l)
  <2>1. l # n => Stays(l)
    BY <1>3, ShippingIsLocal DEF BaseInv
  <2> QED BY <1>0, <1>3, <2>1, LeaderStays, ShippingLeader DEF BaseInv
<1>4. ASSUME NEW n \in Nodes, Administering(n)
      PROVE  LeaderAt(l)' /\ LeaderMoves(l)
  <2>1. l # n => Stays(l)
    BY <1>4, AdministeringIsLocal DEF BaseInv
  <2> QED BY <1>0, <1>4, <2>1, LeaderStays, AdministeringLeader DEF BaseInv
<1> QED BY <1>1, <1>2, <1>3, <1>4 DEF Next

-----------------------------------------------------------------------------
(* The follower behind the history of its leader                           *)

\* The fetched file was fetched from l for f.
Pulled(f, l) == pulled # Absent /\ pulled.to = f /\ pulled.from = l

\* f has had the first r records of h.  Its memory is at record c and its file
\* at record w; what was fetched follows record u, and the delivery under way
\* began after record q.
LagAt(f, l, h, u, c, w, q, r) ==
    /\ reached[f] = LsnAt(h, r)
    /\ source[f] = Absent => r = 0
    /\ w <= r /\ Behind(graph[f], h, w, r)
    /\ replication_file[f] # Torn => replication_file[f].position = LsnAt(h, w)
    /\ pc[f] # "down" =>
          /\ w <= c /\ c <= r /\ Behind(graph[f], h, c, r)
          /\ replication[f].position = LsnAt(h, c)
    /\ Pulled(f, l) => u <= r /\ Behind(graph[f], h, u, r) /\ Part(pulled.records, h, u)
    /\ pc[f] = "applying" =>
          /\ done[f] \in 0 .. Len(queue[f]) /\ q + done[f] <= r
          /\ Behind(graph[f], h, q + done[f], r) /\ Part(queue[f], h, q)
          /\ c <= q /\ (Pulled(f, l) => u <= q)
          /\ Len(queue[f]) # 0 => source[f] # Absent /\ (fresh[f] => q + done[f] = r)

Lags(f, l, h) ==
    \E u, c, w, q, r \in 0 .. Len(h) : LagAt(f, l, h, u, c, w, q, r)

MayFollow(f, l) ==
    f # l /\ source[f] \in {Absent, l} /\ exposure[f] # "lost" /\ Shippable(l)

LagInv == \A f, l \in Nodes : MayFollow(f, l) => Lags(f, l, Held(l).history)

\* A history that grows leaves its followers where they are.
LEMMA LagGrown ==
    ASSUME ReplicaType', NEW f \in Nodes, NEW l, NEW h \in Seq(Records), NEW more,
           Extends(h, more), Lags(f, l, h)'
    PROVE  Lags(f, l, more)'
<1>1. CASE more = h
  BY <1>1
<1>2. ASSUME NEW x \in Records, more = Append(h, x) PROVE Lags(f, l, more)'
  <2> DEFINE N == Len(h)
  <2>0. /\ N \in Nat /\ Len(more) = N + 1 /\ 0 .. N \subseteq 0 .. Len(more)
        /\ \A i \in 1 .. N : more[i] = h[i]
    BY <1>2
  <2>1. PICK u, c, w, q, r \in 0 .. N : LagAt(f, l, h, u, c, w, q, r)'
    BY DEF Lags
  <2>2. \A i \in 0 .. N : LsnAt(more, i) = LsnAt(h, i)
    BY <2>0 DEF LsnAt
  <2>3. \A i, j \in 0 .. N : Behind(graph'[f], h, i, j) => Behind(graph'[f], more, i, j)
    BY <1>2, BehindGrown
  <2>4. ASSUME NEW records, NEW i \in 0 .. N, Part(records, h, i),
               Len(records) \in Nat, DOMAIN records = 1 .. Len(records)
        PROVE  Part(records, more, i)
    <3>1. i + Len(records) <= N
      BY <2>4 DEF Part
    <3>2. \A j \in DOMAIN records : i + j \in 1 .. N
      BY <2>0, <2>4, <3>1
    <3>3. i + Len(records) <= Len(more)
      BY <2>0, <2>4, <3>1
    <3> QED BY <2>0, <2>4, <3>2, <3>3 DEF Part
  <2>5. /\ (Pulled(f, l))' /\ Part(pulled'.records, h, u) => Part(pulled'.records, more, u)
        /\ Part(queue'[f], h, q) => Part(queue'[f], more, q)
    <3>1. queue'[f] \in Seq(Records) /\ ((Pulled(f, l))' => pulled'.records \in Seq(Records))
      BY DEF ReplicaType, Pulled
    <3>2. \A s \in Seq(Records) : Len(s) \in Nat /\ DOMAIN s = 1 .. Len(s)
      OBVIOUS
    <3> QED BY <2>4, <3>1, <3>2
  <2>6. pc'[f] = "applying" => q + done'[f] \in 0 .. N
    <3>1. queue'[f] \in Seq(Records)
      BY DEF ReplicaType
    <3>2. Len(queue'[f]) \in Nat
      BY <3>1
    <3> QED BY <2>0, <2>1, <3>2 DEF LagAt
  <2> HIDE DEF N
  <2>7. LagAt(f, l, more, u, c, w, q, r)'
    BY <2>1, <2>2, <2>3, <2>5, <2>6 DEF LagAt
  <2>8. u \in 0 .. Len(more) /\ c \in 0 .. Len(more) /\ w \in 0 .. Len(more)
        /\ q \in 0 .. Len(more) /\ r \in 0 .. Len(more)
    BY <2>0
  <2> QED BY <2>7, <2>8 DEF Lags
<1> QED BY <1>1, <1>2 DEF Extends

\* Steps that leave f alone, and fetch nothing for it from l.
LEMMA LagStays ==
    ASSUME NEW f, NEW l, NEW h, Lags(f, l, h), Stays(f),
           (Pulled(f, l))' => pulled' = pulled
    PROVE  Lags(f, l, h)'
<1>1. PICK u, c, w, q, r \in 0 .. Len(h) : LagAt(f, l, h, u, c, w, q, r)
  BY DEF Lags
<1>2. (Pulled(f, l))' => Pulled(f, l) /\ pulled' = pulled
  BY DEF Pulled
<1>3. LagAt(f, l, h, u, c, w, q, r)'
  BY <1>1, <1>2 DEF LagAt, Stays
<1> QED BY <1>3 DEF Lags

\* Steps of f outside a delivery: what is in memory goes to the file, what is
\* in the file comes back into memory, or the file is cut.
LEMMA LagRests ==
    ASSUME NEW f, NEW l, NEW h \in Seq(Records), Lags(f, l, h),
           graph'[f] = graph[f], reached'[f] = reached[f], source'[f] = source[f],
           (Pulled(f, l))' => pulled' = pulled,
           pc'[f] # "applying",
           \/ replication_file'[f] \in {replication_file[f], Torn}
           \/ pc[f] # "down" /\ replication_file'[f] = replication[f],
           \/ pc'[f] = "down" /\ replication_file'[f] \in {replication_file[f], Torn}
           \/ /\ pc[f] # "down"
              /\ replication'[f].position = replication[f].position
           \/ /\ replication_file'[f] = replication_file[f]
              /\ replication_file[f] # Torn
              /\ replication'[f] = replication_file[f]
    PROVE  Lags(f, l, h)'
<1>1. PICK u, c, w, q, r \in 0 .. Len(h) : LagAt(f, l, h, u, c, w, q, r)
  BY DEF Lags
<1>2. (Pulled(f, l))' => Pulled(f, l) /\ pulled' = pulled
  BY DEF Pulled
<1>3. CASE pc'[f] = "down" /\ replication_file'[f] \in {replication_file[f], Torn}
  <2>1. LagAt(f, l, h, u, c, w, q, r)'
    BY <1>1, <1>2, <1>3 DEF LagAt
  <2> QED BY <2>1 DEF Lags
<1>4. CASE /\ pc[f] # "down" /\ replication'[f].position = replication[f].position
           /\ replication_file'[f] \in {replication_file[f], Torn}
  <2>1. LagAt(f, l, h, u, c, w, q, r)'
    BY <1>1, <1>2, <1>4 DEF LagAt
  <2> QED BY <2>1 DEF Lags
<1>5. CASE /\ pc[f] # "down" /\ replication'[f].position = replication[f].position
           /\ replication_file'[f] = replication[f]
  <2>1. LagAt(f, l, h, u, c, c, q, r)'
    BY <1>1, <1>2, <1>5 DEF LagAt
  <2> QED BY <2>1 DEF Lags
<1>6. CASE /\ replication_file'[f] = replication_file[f]
           /\ replication_file[f] # Torn
           /\ replication'[f] = replication_file[f]
  <2>1. LagAt(f, l, h, u, w, w, q, r)'
    BY <1>1, <1>2, <1>6 DEF LagAt
  <2> QED BY <2>1 DEF Lags
<1> QED BY <1>3, <1>4, <1>5, <1>6

\* What is fetched follows the position of the follower.
LEMMA LagFetch ==
    ASSUME PerNode, ReplicaType, NEW f \in Nodes, NEW l \in Nodes, Fetch(l, f),
           NEW h \in Seq(Records), Ascending(h), h = replication[l].history,
           Lags(f, l, h)
    PROVE  Lags(f, l, h)'
<1>1. PICK u, c, w, q, r \in 0 .. Len(h) : LagAt(f, l, h, u, c, w, q, r)
  BY DEF Lags
<1>2. /\ pulled' = [from |-> l, to |-> f,
                    records |-> history_since(replication[l], replication[f].position)]
      /\ pc[f] = "idle"
      /\ UNCHANGED << graph, reached, source, replication_file, replication, pc >>
  BY DEF Fetch, engine, lineage, metadata_files, Idle
<1> DEFINE places == {i \in DOMAIN h : h[i].lsn > LsnAt(h, c)}
<1>3. pulled'.records = Selected(h, places)
  BY <1>1, <1>2 DEF LagAt, history_since
<1>4. \A i \in DOMAIN h : i \in places <=> i > c
  <2> SUFFICES ASSUME NEW i \in DOMAIN h PROVE h[i].lsn > LsnAt(h, c) <=> i > c
    OBVIOUS
  <2>1. i \in 0 .. Len(h) /\ i # 0 /\ LsnAt(h, i) = h[i].lsn
    BY DEF LsnAt
  <2>2. /\ LsnAt(h, i) \in Nat /\ LsnAt(h, c) \in Nat
        /\ c < i <=> LsnAt(h, c) < LsnAt(h, i)
    BY <2>1, LsnsRise
  <2> QED BY <2>1, <2>2
<1> HIDE DEF places
<1>5. /\ Selected(h, places) \in Seq(Records)
      /\ Len(Selected(h, places)) = Len(h) - c
      /\ \A i \in 1 .. Len(h) - c : Selected(h, places)[i] = h[c + i]
  <2>1. c \in 0 .. Len(h)
    OBVIOUS
  <2> QED BY ONLY h \in Seq(Records), <1>4, <2>1, SelectedSuffix
<1>6. Part(pulled'.records, h, c)
  <2> DEFINE s == Selected(h, places)
  <2>1. DOMAIN s = 1 .. Len(h) - c /\ c + Len(s) <= Len(h)
    BY <1>5
  <2> HIDE DEF s
  <2>2. Part(s, h, c)
    BY <1>5, <2>1 DEF Part, s
  <2> QED BY <1>3, <2>2 DEF s
<1>7. LagAt(f, l, h, c, c, w, q, r)'
  BY <1>1, <1>2, <1>6 DEF LagAt
<1> QED BY <1>7 DEF Lags

\* A delivery begins after the records that the follower has, or after those
\* that it had when the records were fetched.
LEMMA LagDeliver ==
    ASSUME PerNode, ReplicaType, PulledInv, NEW f \in Nodes, NEW l \in Nodes, f # l,
           source[f] \in {Absent, l}, source'[f] \in {Absent, l}, Deliver(f),
           NEW h \in Seq(Records), Ascending(h), Lags(f, l, h)
    PROVE  Lags(f, l, h)'
<1> DEFINE acc == AcceptedRecords(replication[f], pulled.records)
<1>1. PICK u, c, w, q, r \in 0 .. Len(h) : LagAt(f, l, h, u, c, w, q, r)
  BY DEF Lags
<1>2. /\ pulled # Absent /\ pulled.to = f /\ pc[f] = "idle" /\ pc'[f] = "applying"
      /\ queue'[f] = acc /\ done'[f] = 0
      /\ fresh'[f] = (reached[f] = replication[f].position)
      /\ source'[f] = IF acc = << >> \/ source[f] = pulled.from THEN source[f]
                      ELSE IF source[f] = Absent THEN pulled.from ELSE f
      /\ UNCHANGED << graph, reached, replication_file, replication, pulled >>
  <2>1. queue'[f] = acc
    BY DEF Deliver, PerNode, OnNodes
  <2> HIDE DEF acc
  <2> QED BY <2>1 DEF Deliver, engine, lineage, metadata_files, operator, Idle, PerNode, OnNodes
<1>3. replication[f] \in Statuses /\ pulled.records \in Seq(Records)
  BY <1>2 DEF ReplicaType
<1>4. acc \in Seq(Records)
  BY <1>3, SelectedType DEF AcceptedRecords
<1>5. Absent # f /\ pulled.from \in Nodes /\ Absent # pulled.from
  BY <1>2, ReplicationAssumption DEF PulledInv
<1>6. source'[f] = Absent => source[f] = Absent
  BY <1>2, <1>5
<1>7. Len(acc) # 0 => source'[f] # Absent /\ pulled.from = l
  <2> SUFFICES ASSUME Len(acc) # 0 PROVE source'[f] # Absent /\ pulled.from = l
    OBVIOUS
  <2>1. acc # << >>
    OBVIOUS
  <2> HIDE DEF acc
  <2>2. source[f] = pulled.from \/ (source[f] = Absent /\ source'[f] = pulled.from)
          \/ source'[f] = f
    BY <1>2, <2>1
  <2>3. source'[f] # f
    BY <1>5
  <2> QED BY <1>2, <1>5, <2>1, <2>2, <2>3
<1>8. Pulled(f, l) <=> pulled.from = l
  BY <1>2 DEF Pulled
<1>9. (Pulled(f, l))' <=> Pulled(f, l)
  BY <1>2 DEF Pulled
<1>10. replication[f].position = LsnAt(h, c) /\ c <= r /\ w <= c /\ Behind(graph[f], h, c, r)
  BY <1>1, <1>2 DEF LagAt
<1> HIDE DEF acc
<1>11. CASE pulled.from = l
  <2> DEFINE p == IF u > c THEN u ELSE c
  <2>1. u <= r /\ Behind(graph[f], h, u, r) /\ Part(pulled.records, h, u)
    BY <1>1, <1>8, <1>11 DEF LagAt
  <2>2. Part(acc, h, p)
    BY <1>3, <1>10, <2>1, AcceptedPart DEF acc
  <2>3. p \in 0 .. Len(h) /\ p <= r /\ c <= p /\ u <= p /\ Behind(graph[f], h, p, r)
    BY <1>10, <2>1
  <2>4. fresh'[f] => p = r
    <3> SUFFICES ASSUME fresh'[f] PROVE p = r
      OBVIOUS
    <3>1. LsnAt(h, r) = LsnAt(h, c)
      BY <1>1, <1>2, <1>10 DEF LagAt
    <3>2. LsnAt(h, r) \in Nat /\ (c < r <=> LsnAt(h, c) < LsnAt(h, r))
      BY LsnsRise
    <3>3. ~(c < r)
      BY <3>1, <3>2
    <3> QED BY <1>10, <2>1, <3>3
  <2> HIDE DEF p
  <2>5. p + 0 = p /\ Len(acc) \in Nat
    BY <1>4, <2>3
  <2>6. /\ done'[f] \in 0 .. Len(queue'[f]) /\ p + done'[f] = p
    BY <1>2, <2>5
  <2>7. LagAt(f, l, h, u, c, w, p, r)'
    BY <1>1, <1>2, <1>6, <1>7, <1>9, <1>10, <2>1, <2>2, <2>3, <2>4, <2>6 DEF LagAt
  <2> QED BY <2>3, <2>7 DEF Lags
<1>12. CASE pulled.from # l
  <2>1. Len(acc) = 0 /\ DOMAIN acc = {}
    BY <1>4, <1>7, <1>12
  <2>2. Part(acc, h, c)
    BY <2>1 DEF Part
  <2>3. done'[f] \in 0 .. Len(queue'[f]) /\ c + done'[f] = c
    BY <1>2, <2>1
  <2>4. ~(Pulled(f, l))'
    BY <1>8, <1>9, <1>12
  <2>5. Len(queue'[f]) = 0 /\ Part(queue'[f], h, c)
    BY <1>2, <2>1, <2>2
  <2>6. LagAt(f, l, h, u, c, w, c, r)'
    BY <1>1, <1>2, <1>6, <1>10, <2>3, <2>4, <2>5 DEF LagAt
  <2> QED BY <2>6 DEF Lags
<1> QED BY <1>11, <1>12

\* One record of a delivery: an old one once more, or the next one.
LEMMA LagApply ==
    ASSUME PerNode, ReplicaType, graph \in [Nodes -> Graphs],
           NEW f \in Nodes, NEW l \in Nodes, ApplyRecord(f),
           NEW h \in Seq(Records), Ascending(h), Lags(f, l, h)
    PROVE  Lags(f, l, h)'
<1> DEFINE N == Len(h)
           d == done[f]
           g == graph[f]
           x == queue[f][d + 1]
<1>0. N \in Nat
  OBVIOUS
<1>1. PICK u, c, w, q, r \in 0 .. N : LagAt(f, l, h, u, c, w, q, r)
  BY DEF Lags
<1>2. /\ pc[f] = "applying" /\ d < Len(queue[f])
      /\ graph'[f] = apply_batch_to_maps_unchecked(g, x.batch)
      /\ reached'[f] = IF x.lsn > reached[f] THEN x.lsn ELSE reached[f]
      /\ done'[f] = d + 1
      /\ UNCHANGED << replication, replication_file, pc, queue, pulled, source, fresh >>
  BY DEF ApplyRecord, EngineApply, metadata_files, operator, PerNode, OnNodes
<1>3. /\ reached[f] = LsnAt(h, r) /\ (source[f] = Absent => r = 0)
      /\ w <= r /\ (replication_file[f] # Torn => replication_file[f].position = LsnAt(h, w))
      /\ w <= c /\ c <= r /\ replication[f].position = LsnAt(h, c)
      /\ Pulled(f, l) => u <= r /\ Part(pulled.records, h, u) /\ u <= q
      /\ d \in 0 .. Len(queue[f]) /\ q + d <= r
      /\ Behind(g, h, q + d, r) /\ Part(queue[f], h, q)
      /\ c <= q
      /\ Len(queue[f]) # 0 => source[f] # Absent /\ (fresh[f] => q + d = r)
  BY <1>1, <1>2 DEF LagAt
<1>4. queue[f] \in Seq(Records) /\ g \in Graphs
  BY DEF ReplicaType
<1>5. Len(queue[f]) \in Nat /\ DOMAIN queue[f] = 1 .. Len(queue[f])
  BY <1>4
<1>b. /\ d \in Nat /\ q \in Nat /\ r \in Nat /\ r <= N /\ d + 1 <= Len(queue[f])
      /\ q + Len(queue[f]) <= N
  BY <1>0, <1>2, <1>3, <1>5 DEF Part
<1>k. PICK k \in 0 .. N : k = q + d
  <2> HIDE DEF d, N
  <2> QED BY <1>0, <1>5, <1>b
<1>s. PICK s \in 0 .. N : s = IF k = r THEN r + 1 ELSE r
  <2> HIDE DEF d, N
  <2> QED BY <1>0, <1>5, <1>b, <1>k
<1>6. /\ k + 1 \in 1 .. N /\ k < N /\ k <= r /\ d + 1 \in DOMAIN queue[f]
      /\ d + 1 \in 0 .. Len(queue[f]) /\ Len(queue[f]) # 0 /\ q + (d + 1) = k + 1
  <2> HIDE DEF d, N
  <2> QED BY <1>0, <1>3, <1>5, <1>b, <1>k
<1>7. x = h[k + 1]
  BY <1>3, <1>6, <1>b, <1>k DEF Part
<1>8. x.lsn = LsnAt(h, k + 1)
  <2>1. k + 1 # 0
    BY <1>6
  <2> QED BY <1>7, <2>1 DEF LsnAt
<1> HIDE DEF x, g, d, N
<1>9. s \in 0 .. N /\ k + 1 <= s /\ s >= r /\ (fresh[f] => k + 1 = s)
  BY <1>0, <1>3, <1>6, <1>b, <1>k, <1>s
<1>10. reached'[f] = LsnAt(h, s)
  <2>1. /\ LsnAt(h, k + 1) \in Nat /\ LsnAt(h, r) \in Nat
        /\ r < k + 1 <=> LsnAt(h, r) < LsnAt(h, k + 1)
    <3>1. k + 1 \in 0 .. N
      BY <1>0, <1>6
    <3> QED BY <3>1, LsnsRise DEF N
  <2>2. CASE k = r
    <3>1. r < k + 1
      BY <1>6, <2>2
    <3> QED BY <1>2, <1>3, <1>8, <1>s, <2>1, <2>2, <3>1
  <2>3. CASE k # r
    <3>1. ~(r < k + 1)
      BY <1>0, <1>6, <2>3
    <3> QED BY <1>2, <1>3, <1>8, <1>s, <2>1, <2>3, <3>1
  <2> QED BY <2>2, <2>3
<1>11. Behind(graph'[f], h, k + 1, s)
  <2>1. CASE k = r
    <3>1. Behind(g, h, r, r) /\ r < Len(h) /\ r \in 0 .. Len(h)
      BY <1>3, <1>6, <1>k, <2>1 DEF N
    <3>2. Behind(apply_batch_to_maps_unchecked(g, h[r + 1].batch), h, r + 1, r + 1)
      BY <1>4, <3>1, BehindNew
    <3> QED BY <1>2, <1>7, <1>s, <2>1, <3>2
  <2>2. CASE k # r
    <3>1. Behind(g, h, k, r) /\ k < r /\ k \in 0 .. Len(h) /\ r \in 0 .. Len(h)
      BY <1>0, <1>3, <1>6, <1>k, <2>2 DEF N
    <3>2. Behind(apply_batch_to_maps_unchecked(g, h[k + 1].batch), h, k + 1, r)
      BY <3>1, BehindAgain
    <3> QED BY <1>2, <1>7, <1>s, <2>2, <3>2
  <2> QED BY <2>1, <2>2
<1>12. ASSUME NEW i \in 0 .. N, i <= q
       PROVE  i <= s /\ Behind(graph'[f], h, i, s)
  <2>1. i <= k + 1 /\ k + 1 \in 0 .. N /\ i <= s
    BY <1>0, <1>6, <1>9, <1>12, <1>b, <1>k
  <2> QED BY <1>9, <1>11, <2>1, BehindBack DEF N
<1>13. w <= q /\ c <= s
  BY <1>0, <1>3, <1>9, <1>b
<1>14. (Pulled(f, l))' <=> Pulled(f, l)
  BY <1>2 DEF Pulled
<1>15. q + done'[f] = k + 1 /\ done'[f] \in 0 .. Len(queue'[f]) /\ Len(queue'[f]) # 0
  BY <1>2, <1>6, <1>k
<1>16. source'[f] # Absent
  BY <1>2, <1>3, <1>6
<1>17. LagAt(f, l, h, u, c, w, q, s)'
  BY <1>2, <1>3, <1>9, <1>10, <1>11, <1>12, <1>13, <1>14, <1>15, <1>16 DEF LagAt
<1> QED BY <1>9, <1>17 DEF Lags, N

\* At the end of a delivery the memory moves to its last record.
LEMMA LagEnd ==
    ASSUME PerNode, ReplicaType, NEW f \in Nodes, NEW l \in Nodes, EndDelivery(f),
           NEW h \in Seq(Records), Ascending(h), Lags(f, l, h)
    PROVE  Lags(f, l, h)'
<1> DEFINE n == Len(queue[f])
<1>1. PICK u, c, w, q, r \in 0 .. Len(h) : LagAt(f, l, h, u, c, w, q, r)
  BY DEF Lags
<1>2. /\ pc[f] = "applying" /\ done[f] = n /\ pc'[f] = "persist_applied"
      /\ replication'[f] = apply_follower_records(replication[f], queue[f])
      /\ UNCHANGED << graph, reached, replication_file, source, pulled >>
  BY DEF EndDelivery, metadata_files, operator, engine, lineage, PerNode, OnNodes
<1>3. queue[f] \in Seq(Records) /\ replication[f] \in Statuses
  BY DEF ReplicaType
<1>4. n \in Nat
  BY <1>3
<1>5. /\ replication[f].position = LsnAt(h, c) /\ c <= q /\ w <= c /\ c <= r
      /\ Part(queue[f], h, q) /\ q + n <= r
      /\ Behind(graph[f], h, q + n, r) /\ Behind(graph[f], h, c, r)
  BY <1>1, <1>2 DEF LagAt
<1>e. PICK e \in 0 .. Len(h) : e = IF n = 0 THEN c ELSE q + n
  <2> HIDE DEF n
  <2> QED BY <1>4, <1>5
<1>6. replication'[f].position = LsnAt(h, e)
  BY <1>2, <1>3, <1>5, <1>e, AppliedPosition
<1>7. w <= e /\ e <= r /\ Behind(graph[f], h, e, r)
  BY <1>4, <1>5, <1>e
<1>8. (Pulled(f, l))' <=> Pulled(f, l)
  BY <1>2 DEF Pulled
<1>9. LagAt(f, l, h, u, e, w, q, r)'
  BY <1>1, <1>2, <1>6, <1>7, <1>8 DEF LagAt
<1> QED BY <1>7, <1>9 DEF Lags

\* Every step of f itself, with what l has held constant.
LEMMA StoringLag ==
    ASSUME PerNode, RecoverInv, NEW f \in Nodes, NEW l \in Nodes, exposure[f] # "lost",
           Storing(f) \/ Stopping(f),
           NEW h \in Seq(Records), Lags(f, l, h)
    PROVE  Lags(f, l, h)'
<1> USE DEF engine, operator, metadata_files, lineage, topology_history, PerNode, OnNodes
<1>1. CASE persist_cluster_topology(f)
  <2>1. /\ UNCHANGED << graph, reached, source, pulled, replication_file, replication >>
        /\ pc[f] # "down" /\ pc'[f] # "applying"
    BY <1>1 DEF persist_cluster_topology, ClusterStages
  <2> QED BY <2>1, LagRests
<1>2. CASE persist_replication_metadata(f)
  <2>1. /\ UNCHANGED << graph, reached, source, pulled, replication >>
        /\ replication_file'[f] = replication[f]
        /\ pc[f] # "down" /\ pc'[f] # "applying"
    BY <1>2 DEF persist_replication_metadata
  <2> QED BY <2>1, LagRests
<1>3. CASE PersistFails(f)
  <2>1. /\ UNCHANGED << graph, reached, source, pulled, replication >>
        /\ pc[f] # "down" /\ pc'[f] # "applying"
        /\ replication_file'[f] \in {replication_file[f], Torn}
    BY <1>3, InterruptedFiles DEF PersistFails, Persisting, ClusterStages
  <2> QED BY <2>1, LagRests
<1>4. CASE Crash(f) \/ graceful_shutdown(f)
  <2>1. /\ replication_file'[f] \in {replication_file[f], Torn}
        /\ pc'[f] = "down" /\ UNCHANGED << graph, reached, source, pulled >>
    BY <1>4, InterruptedFiles DEF Crash, graceful_shutdown
  <2> QED BY <2>1, LagRests
<1>5. CASE Restart(f)
  <2>1. /\ UNCHANGED << reached, source, pulled, replication_file >>
        /\ pc[f] = "down" /\ pc'[f] = "idle" /\ replication_file[f] # Torn
        /\ replication'[f] = replication_file[f] /\ graph'[f] = recoverable[f]
    BY <1>5 DEF Restart, Down
  <2>2. graph'[f] = graph[f]
    BY <2>1 DEF RecoverInv, RecoverAt
  <2> QED BY <2>1, <2>2, LagRests
<1> QED BY <1>1, <1>2, <1>3, <1>4, <1>5 DEF Storing, Stopping

LEMMA ShippingLag ==
    ASSUME PerNode, ReplicaType, PulledInv, graph \in [Nodes -> Graphs],
           NEW f \in Nodes, NEW l \in Nodes, f # l,
           source[f] \in {Absent, l}, source'[f] \in {Absent, l},
           Shipping(f) \/ \E b \in Batches : ClientWrite(f, b),
           NEW h \in Seq(Records), Ascending(h), Lags(f, l, h)
    PROVE  Lags(f, l, h)'
<1> USE DEF engine, operator, metadata_files, lineage, topology_history, PerNode, OnNodes
<1>1. ASSUME NEW m \in Nodes, Fetch(f, m) PROVE Lags(f, l, h)'
  <2>1. Stays(f)
    BY <1>1 DEF Fetch, Stays
  <2>2. ~(Pulled(f, l))'
    BY <1>1 DEF Fetch, Pulled
  <2> QED BY <2>1, <2>2, LagStays
<1>2. CASE Deliver(f)
  BY <1>2, LagDeliver
<1>3. CASE ApplyRecord(f)
  BY <1>3, LagApply
<1>4. CASE ApplyRefused(f)
  <2>1. /\ UNCHANGED << graph, reached, source, pulled, replication_file, replication >>
        /\ pc[f] = "applying" /\ pc'[f] = "idle"
    BY <1>4 DEF ApplyRefused
  <2> QED BY <2>1, LagRests
<1>5. CASE EndDelivery(f)
  BY <1>5, LagEnd
<1>6. ASSUME NEW m \in Nodes, NEW lsn \in reported[m], acknowledge_replica(f, m, lsn)
      PROVE  Lags(f, l, h)'
  <2>1. lsn \in Nat /\ replication[f] \in Statuses
    BY DEF ReplicaType
  <2>2. replication'[f] = [replication[f] EXCEPT !.replicas[m] = lsn]
    BY <1>6 DEF acknowledge_replica
  <2>3. replication'[f].position = replication[f].position
    BY <2>1, <2>2, ReplicaStatus
  <2>4. /\ UNCHANGED << graph, reached, source, pulled, replication_file >>
        /\ pc[f] = "idle" /\ pc'[f] = "persist_commit"
    BY <1>6 DEF acknowledge_replica, Idle
  <2> QED BY <2>3, <2>4, LagRests
<1>7. ASSUME NEW b \in Batches, ClientWrite(f, b) PROVE FALSE
  <2>1. source'[f] = f /\ Absent # f
    BY <1>7, ReplicationAssumption DEF ClientWrite
  <2> QED BY <2>1
<1> QED BY <1>1, <1>2, <1>3, <1>4, <1>5, <1>6, <1>7 DEF Shipping

LEMMA AdministeringLag ==
    ASSUME PerNode, ReplicaType, TopologyInv, NEW f \in Nodes, NEW l \in Nodes,
           Administering(f), NEW h \in Seq(Records), Lags(f, l, h)
    PROVE  Lags(f, l, h)'
<1>1. AdministeringLeaves(f)
  BY AdministeringStatus
<1> QED BY <1>1, LagRests DEF AdministeringLeaves

\* Once a node has records of another leader or writes of its own, it stays so.
LEMMA SourceStep ==
    ASSUME PerNode, PulledInv, [Next]_vars, NEW f \in Nodes, NEW l \in Nodes, f # l,
           source'[f] \in {Absent, l}
    PROVE  source[f] \in {Absent, l}
<1> USE DEF engine, operator, metadata_files, lineage, topology_history, PerNode, OnNodes
<1>0. f # Absent
  BY ReplicationAssumption
<1>1. CASE UNCHANGED source
  BY <1>1
<1>2. ASSUME NEW n \in Nodes, Storing(n) \/ Stopping(n) PROVE UNCHANGED source
  BY <1>2 DEF Storing, Stopping, persist_cluster_topology, persist_replication_metadata,
              PersistFails, Crash, graceful_shutdown, Restart
<1>3. ASSUME NEW n \in Nodes, Deliver(n) PROVE source[f] \in {Absent, l}
  <2>1. source'[f] \in {source[f], f} \/ source[f] = Absent
    BY <1>3 DEF Deliver
  <2> QED BY <1>0, <2>1
<1>4. ASSUME NEW n \in Nodes,
             \/ \E m \in Nodes : Fetch(n, m)
             \/ ApplyRecord(n) \/ ApplyRefused(n) \/ EndDelivery(n)
             \/ \E m \in Nodes : \E lsn \in reported[m] : acknowledge_replica(n, m, lsn)
      PROVE  UNCHANGED source
  BY <1>4 DEF Fetch, ApplyRecord, ApplyRefused, EndDelivery, acknowledge_replica
<1>5. ASSUME NEW n \in Nodes, NEW b \in Batches, ClientWrite(n, b)
      PROVE  source[f] \in {Absent, l}
  <2>1. source'[f] \in {source[f], f}
    BY <1>5 DEF ClientWrite
  <2> QED BY <1>0, <2>1
<1>6. ASSUME NEW n \in Nodes, Administering(n) PROVE UNCHANGED source
  BY <1>6 DEF Administering, configure_as_leader, configure_as_follower, promote_node,
              PromoteUnknown, register_replica, mark_node_health, compact
<1> QED BY <1>1, <1>2, <1>3, <1>4, <1>5, <1>6 DEF Next, Shipping, vars

\* What the invariants before this section give.
LagBase == BaseInv /\ RecoverInv /\ HistoryInv /\ LeaderInv /\ PulledInv

LEMMA LagStep ==
    ASSUME LagBase, ReplicaType', LagInv, [Next]_vars
    PROVE  LagInv'
<1> SUFFICES ASSUME NEW f \in Nodes, NEW l \in Nodes, (MayFollow(f, l))'
             PROVE  (Lags(f, l, Held(l).history))'
  BY DEF LagInv
<1> USE DEF LagBase, BaseInv
<1>g. graph \in [Nodes -> Graphs]
  BY DEF RecoverInv, EngineType
<1>0. /\ f # l /\ source'[f] \in {Absent, l} /\ exposure'[f] # "lost"
      /\ (Shippable(l))'
  BY DEF MayFollow
<1>1. source[f] \in {Absent, l} /\ exposure[f] # "lost"
  BY <1>0, SourceStep, RecoverStep
<1>2. Shippable(l) /\ Extends(Held(l).history, (Held(l).history)')
  BY <1>0, LeaderStep DEF LeaderMoves
<1>3. PICK h : h = Held(l).history
  OBVIOUS
<1>4. h \in Seq(Records) /\ Ascending(h)
  BY <1>2, <1>3 DEF LeaderInv, LeaderAt, Chain, Statuses
<1>5. Lags(f, l, h)
  BY <1>0, <1>1, <1>2, <1>3 DEF LagInv, MayFollow
<1>6. PICK more : more = (Held(l).history)'
  OBVIOUS
<1> SUFFICES Lags(f, l, h)'
  <2>1. Extends(h, more)
    BY <1>2, <1>3, <1>6
  <2>2. (Lags(f, l, h))' => (Lags(f, l, more))'
    BY <1>4, <2>1, LagGrown
  <2> QED BY <1>6, <2>2 DEF Lags
<1>7. CASE UNCHANGED vars
  <2>1. Stays(f) /\ pulled' = pulled
    BY <1>7 DEF vars, engine, operator, metadata_files, lineage, topology_history, Stays
  <2> QED BY <1>5, <2>1, LagStays
<1>8. ASSUME NEW n \in Nodes, Storing(n) \/ Stopping(n) PROVE Lags(f, l, h)'
  <2>1. CASE n = f
    BY <1>1, <1>4, <1>5, <1>8, <2>1, StoringLag
  <2>2. CASE n # f
    <3>1. Stays(f)
      BY <1>8, <2>2, StoringIsLocal
    <3>2. pulled' = pulled
      BY <1>8 DEF Storing, Stopping, persist_cluster_topology,
                  persist_replication_metadata, PersistFails, Crash, graceful_shutdown,
                  Restart, operator
    <3> QED BY <1>5, <3>1, <3>2, LagStays
  <2> QED BY <2>1, <2>2
<1>9. ASSUME NEW n \in Nodes, Shipping(n) \/ \E b \in Batches : ClientWrite(n, b)
      PROVE  Lags(f, l, h)'
  <2>1. CASE n = f
    BY <1>g, <1>0, <1>1, <1>4, <1>5, <1>9, <2>1, ShippingLag
  <2>2. CASE n # f
    <3>1. Stays(f)
      BY <1>9, <2>2, ShippingIsLocal
    <3>2. CASE Fetch(l, f)
      <4>1. Held(l) = replication[l]
        BY <3>2 DEF Fetch, Idle, Held, Down
      <4> QED BY <1>3, <1>4, <1>5, <3>2, <4>1, LagFetch
    <3>3. ASSUME NEW m \in Nodes, Fetch(n, m), ~Fetch(l, f) PROVE ~(Pulled(f, l))'
      BY <3>3 DEF Fetch, Pulled
    <3>4. CASE ~\E m \in Nodes : Fetch(n, m)
      <4>1. pulled' = pulled
        BY <1>9, <3>4 DEF Shipping, Deliver, ApplyRecord, ApplyRefused, EndDelivery,
                          acknowledge_replica, ClientWrite, operator
      <4> QED BY <1>5, <3>1, <4>1, LagStays
    <3> QED BY <1>5, <3>1, <3>2, <3>3, <3>4, LagStays
  <2> QED BY <2>1, <2>2
<1>10. ASSUME NEW n \in Nodes, Administering(n) PROVE Lags(f, l, h)'
  <2>1. CASE n = f
    BY <1>4, <1>5, <1>10, <2>1, AdministeringLag
  <2>2. CASE n # f
    <3>1. Stays(f)
      BY <1>10, <2>2, AdministeringIsLocal
    <3>2. pulled' = pulled
      BY <1>10, AdministeringStatus DEF AdministeringLeaves
    <3> QED BY <1>5, <3>1, <3>2, LagStays
  <2> QED BY <2>1, <2>2
<1> QED BY <1>7, <1>8, <1>9, <1>10 DEF Next

LEMMA InitStatuses ==
    ASSUME Init, NEW n \in Nodes
    PROVE  replication[n].position = 0 /\ replication[n].history = << >>
<1>1. CASE replication = [m \in Nodes |-> Single]
  BY <1>1, SingleStatus
<1>2. ASSUME NEW l \in Nodes, Configured(l)
      PROVE  replication[n].position = 0 /\ replication[n].history = << >>
  BY <1>2 DEF Configured, promote_to_leader, failover_to_follower, Single
<1> QED BY <1>1, <1>2 DEF Init

LEMMA InitLag ==
    ASSUME Init PROVE LeaderInv /\ PulledInv /\ LagInv
<1>0. BaseInv
  BY InitType, InitPerNode DEF BaseInv
<1>1. PulledInv
  BY DEF Init, PulledInv
<1>2. ASSUME NEW n \in Nodes
      PROVE  Held(n) = replication[n] /\ Held(n) \in Statuses /\ Held(n).history = << >>
  BY <1>0, InitStatuses DEF Init, Held, Down, BaseInv, ReplicaType
<1>3. ASSUME NEW n \in Nodes PROVE LeaderAt(n)
  <2>1. Chain(<< >>)
    BY DEF Chain, Ascending
  <2> QED BY <1>2, <2>1 DEF Init, LeaderAt
<1>4. ASSUME NEW f \in Nodes, NEW l \in Nodes PROVE Lags(f, l, Held(l).history)
  <2> DEFINE h == << >>
  <2>1. h \in Seq(Records) /\ Len(h) = 0 /\ 0 \in 0 .. Len(h)
    OBVIOUS
  <2>2. LsnAt(h, 0) = 0
    BY DEF LsnAt
  <2>3. /\ pc[f] = "idle" /\ graph[f] = EmptyGraph /\ reached[f] = 0
        /\ replication_file[f] = replication[f] /\ replication[f].position = 0 /\ pulled = Absent
    BY InitStatuses DEF Init
  <2> HIDE DEF h
  <2>4. Behind(graph[f], h, 0, 0)
    BY <2>1, <2>3, GraphAtEmpty, BehindNothing, EmptyGraphFacts
  <2>5. LagAt(f, l, h, 0, 0, 0, 0, 0)
    BY <2>2, <2>3, <2>4 DEF LagAt, Pulled
  <2>6. Lags(f, l, h)
    BY <2>1, <2>5 DEF Lags
  <2> QED BY <1>2, <2>6 DEF h
<1> QED BY <1>1, <1>3, <1>4 DEF LeaderInv, LagInv

LEMMA LagAlways == Spec => [](LagBase /\ LagInv)
<1> DEFINE Inv == LeaderInv /\ PulledInv /\ LagInv
<1>1. Init => Inv
  BY InitLag
<1>2. Inv /\ BaseInv /\ BaseInv' /\ RecoverInv /\ HistoryInv /\ [Next]_vars => Inv'
  <2> SUFFICES ASSUME Inv, BaseInv, BaseInv', RecoverInv, HistoryInv, [Next]_vars PROVE Inv'
    OBVIOUS
  <2>0. ReplicaType /\ ReplicaType'
    BY DEF BaseInv
  <2>1. LeaderInv'
    BY <2>0, LeaderStep
  <2>2. PulledInv'
    BY <2>0, PulledStep
  <2>3. LagInv'
    BY <2>0, LagStep DEF LagBase
  <2> QED BY <2>1, <2>2, <2>3
<1>3. Inv /\ BaseInv /\ RecoverInv /\ HistoryInv => LagBase /\ LagInv
  BY DEF LagBase
<1> HIDE DEF Inv
<1> QED BY <1>1, <1>2, <1>3, BaseAlways, RecoverAlways, HistoryAlways, PTL DEF Spec

\* A follower whose recorded position covers all that its engine holds has
\* exactly the graph that its leader had at that position: for any batches, any
\* number of databases, any crashes and torn files, and any deliveries, late,
\* repeated, overlapping or refused half-way, whatever either has compacted, as
\* long as all its records are from one leader that can hand out all it has,
\* each under an LSN of its own, and no crash took a write from its engine.
THEOREM FollowerIsPrefixAlways == Spec => []FollowerIsPrefix
<1>1. LagBase /\ LagInv => FollowerIsPrefix
  <2> SUFFICES ASSUME LagBase, LagInv, NEW f \in Nodes, NEW l \in Nodes, Follows(f, l),
                      exposure[f] # "lost", Held(f) # Torn, Held(f).position >= reached[f]
               PROVE  Stored(f) = Replay(UpTo(Held(l).history, reached[f]))
    BY DEF FollowerIsPrefix
  <2>0. Stored(f) = graph[f] /\ graph[f] \in Graphs
    BY DEF LagBase, RecoverInv, RecoverAt, EngineType, Stored, Down
  <2> DEFINE h == Held(l).history
  <2>1. MayFollow(f, l)
    BY DEF Follows, MayFollow, Shippable
  <2>2. h \in Seq(Records) /\ Ascending(h)
    BY <2>1 DEF MayFollow, LagBase, LeaderInv, LeaderAt, Chain, Statuses
  <2>3. Lags(f, l, h)
    BY <2>1 DEF LagInv
  <2> HIDE DEF h
  <2>4. PICK u, c, w, q, r \in 0 .. Len(h) : LagAt(f, l, h, u, c, w, q, r)
    BY <2>3 DEF Lags
  <2>5. /\ \A i \in 0 .. Len(h) : LsnAt(h, i) \in Nat
        /\ \A i, j \in 0 .. Len(h) : i < j <=> LsnAt(h, i) < LsnAt(h, j)
    BY <2>2, LsnsRise
  \* The recorded position is that of the last record the engine has had.
  <2>6. Behind(graph[f], h, r, r)
    <3>1. CASE pc[f] = "down"
      <4>1. LsnAt(h, w) >= LsnAt(h, r) /\ w <= r /\ Behind(graph[f], h, w, r)
        BY <2>4, <3>1 DEF LagAt, Held, Down
      <4>2. w = r
        BY <2>5, <4>1
      <4> QED BY <4>1, <4>2
    <3>2. CASE pc[f] # "down"
      <4>1. LsnAt(h, c) >= LsnAt(h, r) /\ c <= r /\ Behind(graph[f], h, c, r)
        BY <2>4, <3>2 DEF LagAt, Held, Down
      <4>2. c = r
        BY <2>5, <4>1
      <4> QED BY <4>1, <4>2
    <3> QED BY <3>1, <3>2
  <2>7. graph[f] = GraphAt(h, r)
    BY <2>0, <2>2, <2>6, BehindNothing
  <2> DEFINE places == {i \in DOMAIN h : h[i].lsn <= reached[f]}
  <2>8. \A i \in DOMAIN h : i \in places <=> i <= r
    <3> SUFFICES ASSUME NEW i \in DOMAIN h PROVE h[i].lsn <= LsnAt(h, r) <=> i <= r
      BY <2>4 DEF LagAt
    <3>1. i \in 0 .. Len(h) /\ i # 0 /\ LsnAt(h, i) = h[i].lsn
      BY <2>2 DEF LsnAt
    <3> QED BY <2>5, <3>1
  <2>9. UpTo(h, reached[f]) = Selected(h, places)
    BY DEF UpTo
  <2> HIDE DEF places
  <2>10. Selected(h, places) = SubSeq(h, 1, r)
    <3>1. r \in 0 .. Len(h)
      OBVIOUS
    <3> QED BY ONLY <2>2, <2>8, <3>1, SelectedPrefix
  <2> QED BY <2>0, <2>7, <2>9, <2>10 DEF GraphAt, h
<1> QED BY <1>1, LagAlways, PTL

\* A delivery that begins where the engine of the follower stands is accepted
\* record by record, for any batches and any history of crashes and deliveries:
\* only one that repeats records after an interruption can be refused, or one
\* to a follower that a crash after a compaction has taken a write from.
THEOREM FreshDeliveryAppliesAlways == Spec => []FreshDeliveryApplies
<1>1. LagBase /\ LagInv => FreshDeliveryApplies
  <2> SUFFICES ASSUME LagBase, LagInv, NEW f \in Nodes, NEW l \in Nodes, Follows(f, l),
                      exposure[f] # "lost", pc[f] = "applying", fresh[f],
                      done[f] < Len(queue[f])
               PROVE  Accepts(graph[f], queue[f][done[f] + 1].batch)
    BY DEF FreshDeliveryApplies
  <2> DEFINE h == Held(l).history
             d == done[f]
  <2>1. MayFollow(f, l)
    BY DEF Follows, MayFollow, Shippable
  <2>2. h \in Seq(Records) /\ \A i \in DOMAIN h : Accepts(GraphAt(h, i - 1), h[i].batch)
    BY <2>1 DEF MayFollow, LagBase, LeaderInv, LeaderAt, Chain, Statuses
  <2>3. Lags(f, l, h)
    BY <2>1 DEF LagInv
  <2>4. queue[f] \in Seq(Records) /\ d \in Nat /\ graph[f] \in Graphs
    BY DEF LagBase, BaseInv, ReplicaType, RecoverInv, EngineType
  <2> HIDE DEF h, d
  <2>5. PICK u, c, w, q, r \in 0 .. Len(h) : LagAt(f, l, h, u, c, w, q, r)
    BY <2>3 DEF Lags
  <2>6. /\ Len(queue[f]) \in Nat /\ DOMAIN queue[f] = 1 .. Len(queue[f]) /\ d < Len(queue[f])
        /\ Len(h) \in Nat /\ DOMAIN h = 1 .. Len(h)
    BY <2>2, <2>4 DEF d
  <2>7. q + d = r /\ Behind(graph[f], h, r, r) /\ Part(queue[f], h, q)
    BY <2>5, <2>6 DEF LagAt, d
  <2>8. graph[f] = GraphAt(h, r)
    BY <2>2, <2>4, <2>7, BehindNothing
  <2>9. q + Len(queue[f]) <= Len(h) /\ queue[f][d + 1] = h[q + (d + 1)]
    <3>1. d + 1 \in DOMAIN queue[f]
      BY <2>4, <2>6
    <3> QED BY <2>7, <3>1 DEF Part
  <2>10. q + (d + 1) = r + 1 /\ r + 1 \in DOMAIN h /\ (r + 1) - 1 = r
    BY <2>4, <2>6, <2>7, <2>9
  <2> QED BY <2>2, <2>8, <2>9, <2>10 DEF d
<1> QED BY <1>1, LagAlways, PTL
=============================================================================
