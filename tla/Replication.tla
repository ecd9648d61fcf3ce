----------------------------- MODULE Replication ----------------------------
(***************************************************************************)
(* Log shipping between databases: ReplicationManager                      *)
(* (crates/replication/src/lib.rs), ClusterManager                         *)
(* (crates/cluster/src/lib.rs) and the operations of Database that drive   *)
(* them (crates/api/src/lib.rs).                                           *)
(*                                                                         *)
(* Nothing in the program pulls records by itself: an operator fetches the *)
(* history of a leader into a file and submits it to a follower, perhaps   *)
(* late, perhaps twice.  Each node keeps its graph in its own engine, of    *)
(* which an opening recovers what module Storage says: not the writes that *)
(* took LSNs at or below the published one, after a compaction had started *)
(* the log again.  Two metadata files are overwritten in place, one after  *)
(* the other, after the engine has committed.                              *)
(* A restore or a repair, which puts another engine under the managers, is *)
(* not among the operations here.                                          *)
(***************************************************************************)
EXTENDS Graph, FiniteSets

CONSTANTS
    Nodes,          \* databases
    Batches,        \* what clients write
    Torn,           \* a metadata file cut short
    Faults,         \* "metadata_write"
    MaxWrites,      \* bound: client writes
    MaxDeliveries,  \* bound: deliveries to followers
    MaxSteps,       \* bound: administrative operations
    MaxOperations,  \* bound: both together
    MaxFailures     \* bound: crashes, shutdowns and failed writes of a file

ASSUME ReplicationAssumption ==
    /\ Batches \subseteq WriteBatches
    /\ Absent \notin Nodes /\ Absent \notin Graphs
    /\ Absent \notin [role : {"Primary", "Replica"}, healthy : BOOLEAN]
    /\ MaxWrites \in Nat /\ MaxDeliveries \in Nat
    /\ MaxSteps \in Nat /\ MaxOperations \in Nat /\ MaxFailures \in Nat

VARIABLES
    \* --- per node
    graph, next_lsn,            \* the engine, in memory
    published, recoverable,     \* LSN of its manifest; the graph an opening
                                \* gives, Absent: the opening fails
    replication, cluster,       \* memory
    replication_file, cluster_file,
    pc,
    queue, done,                \* records accepted, how many are applied
    \* --- the operator
    pulled,                     \* records fetched, for whom
    reported,                   \* positions a follower has answered
    \* --- history
    source,                     \* the only leader a node has records from
    reached,                    \* highest source LSN in the node's engine
    fresh,                      \* the delivery began where the engine stood
    complete,                   \* the history has what the engine has
    reused,                     \* a record of the history took the LSN of another
    exposure,                   \* writes that an opening would not recover: none,
                                \* at risk, or lost by a crash
    misaddressed,               \* a promotion named an unknown node
    out_of_step,                \* the two files have the roles of different operations
    writes, deliveries, steps, failures

engine == << graph, next_lsn, published, recoverable >>
metadata_files == << replication_file, cluster_file >>
operator == << pulled, reported >>
lineage == << source, reached, fresh, complete, reused, exposure >>
topology_history == << misaddressed, out_of_step >>
bounds == << writes, deliveries, steps, failures >>
vars == << engine, replication, cluster, metadata_files, pc, queue, done, operator,
           lineage, topology_history, bounds >>

-----------------------------------------------------------------------------
(* ReplicationManager                                                      *)

\* The records at the given places, in order.
Selected(records, places) ==
    LET upTo[i \in 0 .. Len(records)] ==
            IF i = 0 THEN << >>
            ELSE IF i \in places THEN Append(upTo[i - 1], records[i])
            ELSE upTo[i - 1]
    IN  upTo[Len(records)]

\* ReplicationStatus::single_node.
Single ==
    [mode |-> "Disabled", leader |-> Absent, term |-> 0, committed |-> 0,
     position |-> 0, replicas |-> [m \in Nodes |-> Absent], history |-> << >>]

\* Mutant: the record after the position is left out.
HistoryAfterNext(r, after) ==
    Selected(r.history, {i \in DOMAIN r.history : r.history[i].lsn > after + 1})

history_since(r, after) ==
    Selected(r.history, {i \in DOMAIN r.history : r.history[i].lsn > after})

\* promote_to_leader, failover_to_follower.
promote_to_leader(r, n, term) ==
    [r EXCEPT !.mode = "Leader", !.leader = n, !.term = term,
              !.committed = r.position]
failover_to_follower(r, leader, term) ==
    [r EXCEPT !.mode = "Follower", !.leader = leader, !.term = term]

\* Mutant: the record does not enter the history.
CommitUnrecorded(r, lsn, b) == [r EXCEPT !.committed = lsn, !.position = lsn]

record_leader_commit(r, lsn, b) ==
    [r EXCEPT !.committed = lsn, !.position = lsn,
              !.history = Append(@, [term |-> r.term, lsn |-> lsn, batch |-> b])]

\* The term and position before each record of a delivery, in order.
Positions(r, records) ==
    LET at[i \in 1 .. Len(records) + 1] ==
            IF i = 1 THEN [term |-> r.term, lsn |-> r.position]
            ELSE IF records[i - 1].lsn <= at[i - 1].lsn THEN at[i - 1]
            ELSE [term |-> records[i - 1].term, lsn |-> records[i - 1].lsn]
    IN  at

\* validate_replication_records: no record of an older term than the last
\* accepted one, skipped records included.
InTerm(r, records) ==
    \A i \in DOMAIN records : records[i].term >= Positions(r, records)[i].term

\* Mutant: records are not compared with the position.
AcceptedAll(r, records) == records

\* The records above the position, each above the one before it.
AcceptedRecords(r, records) ==
    Selected(records, {i \in DOMAIN records :
                          records[i].lsn > Positions(r, records)[i].lsn})

\* apply_follower_records, of records that were validated and applied.
apply_follower_records(r, records) ==
    LET last == Positions(r, records)[Len(records) + 1]
    IN  [r EXCEPT !.term = last.term, !.position = last.lsn]

-----------------------------------------------------------------------------
(* ClusterManager                                                          *)

\* ClusterTopology::single_node_with_id.
SingleTopology(n) ==
    [term |-> 1, leader |-> n,
     nodes |-> [m \in Nodes |->
        IF m = n THEN [role |-> "Primary", healthy |-> TRUE] ELSE Absent]]

Known(c, m) == c.nodes[m] # Absent

\* The loop that promote_node, ensure_leader and observe_leader share: every
\* other primary steps down, even if the named node is not known.
Crowned(c, m) ==
    [c EXCEPT !.nodes = [o \in Nodes |->
        IF ~Known(c, o) THEN Absent
        ELSE IF o = m THEN [role |-> "Primary", healthy |-> TRUE]
        ELSE IF c.nodes[o].role = "Primary" THEN [c.nodes[o] EXCEPT !.role = "Replica"]
        ELSE c.nodes[o]]]

\* Mutant: the old primary keeps its role.
PromotedBeside(c, m) ==
    [c EXCEPT !.nodes[m] = [role |-> "Primary", healthy |-> TRUE],
              !.term = @ + 1, !.leader = m]

\* ClusterManager::promote_node.
PromotedTopology(c, m) == [Crowned(c, m) EXCEPT !.term = @ + 1, !.leader = m]
ensure_leader(c, m) ==
    [Crowned(c, m) EXCEPT !.term = IF c.leader = m THEN @ ELSE @ + 1,
                          !.leader = m]
observe_leader(c, m) == [Crowned(c, m) EXCEPT !.leader = m]
WithReplica(c, m) == [c EXCEPT !.nodes[m] = [role |-> "Replica", healthy |-> TRUE]]

-----------------------------------------------------------------------------
(* Files                                                                   *)

Down(n) == pc[n] = "down"
Idle(n) == pc[n] = "idle"

ClusterStages == {"persist_both", "persist_members", "persist_cluster"}

\* persist_cluster_topology, first of the two.
persist_cluster_topology(n) ==
    /\ pc[n] \in ClusterStages
    /\ cluster_file' = [cluster_file EXCEPT ![n] = cluster[n]]
    /\ out_of_step' = [out_of_step EXCEPT ![n] =
                          IF pc[n] = "persist_both" THEN TRUE ELSE @]
    /\ pc' = [pc EXCEPT ![n] = IF @ = "persist_both" THEN "persist_replication"
                               ELSE IF @ = "persist_members" THEN "persist_commit"
                               ELSE "idle"]
    /\ UNCHANGED << engine, replication, cluster, replication_file, queue, done,
                    operator, lineage, misaddressed, bounds >>

\* persist_replication_metadata; the call returns and the operator sees the
\* follower's position.
persist_replication_metadata(n) ==
    /\ pc[n] \in {"persist_replication", "persist_commit", "persist_applied"}
    /\ replication_file' = [replication_file EXCEPT ![n] = replication[n]]
    /\ out_of_step' = [out_of_step EXCEPT ![n] =
                          IF pc[n] = "persist_replication" THEN FALSE ELSE @]
    /\ reported' = [reported EXCEPT ![n] =
                      IF pc[n] = "persist_applied"
                      THEN @ \cup {replication[n].position} ELSE @]
    /\ pc' = [pc EXCEPT ![n] = "idle"]
    /\ UNCHANGED << engine, replication, cluster, cluster_file, queue, done,
                    pulled,
                    lineage, misaddressed, bounds >>

Persisting(n) ==
    pc[n] \in ClusterStages \cup
        {"persist_replication", "persist_commit", "persist_applied"}
FileBeingWritten(n) ==
    IF pc[n] \in ClusterStages THEN "cluster" ELSE "replication"

\* What a file may be after a write that does not finish: as it was, or cut.
Interrupted(n) ==
    /\ replication_file' \in
         {replication_file} \cup
         {[replication_file EXCEPT ![n] = Torn] :
             x \in {FileBeingWritten(n)} \cap {"replication"}}
    /\ cluster_file' \in
         {cluster_file} \cup
         {[cluster_file EXCEPT ![n] = Torn] :
             x \in {FileBeingWritten(n)} \cap {"cluster"}}

\* The write fails and the call returns the error; memory stays changed.
PersistFails(n) ==
    /\ "metadata_write" \in Faults
    /\ Persisting(n)
    /\ failures < MaxFailures
    /\ failures' = failures + 1
    /\ Interrupted(n)
    /\ out_of_step' = [out_of_step EXCEPT ![n] =
                          pc[n] \in {"persist_both", "persist_replication"} \/ @]
    /\ pc' = [pc EXCEPT ![n] = "idle"]
    /\ UNCHANGED << engine, replication, cluster, queue, done, operator, lineage,
                    misaddressed, writes, deliveries, steps >>

\* The process dies and memory is lost; the history in the file may then have
\* writes that the engine has not, or lack some.
Crash(n) ==
    /\ ~Down(n)
    /\ failures < MaxFailures
    /\ failures' = failures + 1
    /\ IF Persisting(n) THEN Interrupted(n) ELSE UNCHANGED metadata_files
    /\ pc' = [pc EXCEPT ![n] = "down"]
    /\ queue' = [queue EXCEPT ![n] = << >>]
    /\ done' = [done EXCEPT ![n] = 0]
    /\ replication' = [replication EXCEPT ![n] = Single]
    /\ cluster' = [cluster EXCEPT ![n] = SingleTopology(n)]
    /\ exposure' = [exposure EXCEPT ![n] = IF @ = "at_risk" THEN "lost" ELSE @]
    /\ complete' = [complete EXCEPT ![n] =
                      @ /\ exposure[n] # "at_risk"
                        /\ replication_file'[n] # Torn
                        /\ replication_file'[n].history = replication[n].history]
    /\ UNCHANGED << engine, operator, source, reached, fresh,
                    reused, topology_history, writes, deliveries, steps >>

\* What checkpoint and compact publish: the whole graph, with the marker's LSN.
Publish(n) ==
    /\ published' = [published EXCEPT ![n] = next_lsn[n]]
    /\ recoverable' = [recoverable EXCEPT ![n] = graph[n]]
    /\ exposure' = [exposure EXCEPT ![n] = IF @ = "at_risk" THEN "none" ELSE @]

\* A checkpoint, then the process ends.  A compaction that a crash cuts off
\* before it truncates the log leaves the same.
graceful_shutdown(n) ==
    /\ Idle(n)
    /\ failures < MaxFailures
    /\ failures' = failures + 1
    /\ Publish(n)
    /\ next_lsn' = [next_lsn EXCEPT ![n] = @ + 1]
    /\ pc' = [pc EXCEPT ![n] = "down"]
    /\ replication' = [replication EXCEPT ![n] = Single]
    /\ cluster' = [cluster EXCEPT ![n] = SingleTopology(n)]
    /\ complete' = [complete EXCEPT ![n] =
                      @ /\ replication_file[n] # Torn
                        /\ replication_file[n].history = replication[n].history]
    /\ UNCHANGED << graph, metadata_files, queue, done, operator, source, reached,
                    fresh, reused, topology_history, writes,
                    deliveries, steps >>

\* open_with_identity: the engine is what recover gives; a log that does not
\* replay or a file that does not parse refuses the opening.  Both files are
\* written again, with what they have.
Restart(n) ==
    /\ Down(n)
    /\ recoverable[n] # Absent
    /\ replication_file[n] # Torn /\ cluster_file[n] # Torn
    /\ graph' = [graph EXCEPT ![n] = recoverable[n]]
    /\ replication' = [replication EXCEPT ![n] = replication_file[n]]
    /\ cluster' = [cluster EXCEPT ![n] = cluster_file[n]]
    /\ pc' = [pc EXCEPT ![n] = "idle"]
    /\ UNCHANGED << next_lsn, published, recoverable, metadata_files, queue, done,
                    operator, lineage, topology_history, bounds >>

-----------------------------------------------------------------------------
(* Writes                                                                  *)

Accepts(g, b) == Normalized(b) /\ validate_batch_against_maps(g, b)

\* Mutant: recovery skips the record after the published LSN as well.
RecoveredAfterNext(n, b) ==
    IF recoverable[n] = Absent \/ next_lsn[n] <= published[n] + 1 THEN recoverable[n]
    ELSE IF validate_batch_against_maps(recoverable[n], b)
    THEN apply_batch_to_maps_unchecked(recoverable[n], b) ELSE Absent

\* recover with one more record in the log: it is skipped if its LSN is not
\* above the manifest's, and the opening fails if it does not fit.
Recovered(n, b) ==
    IF recoverable[n] = Absent \/ next_lsn[n] <= published[n] THEN recoverable[n]
    ELSE IF validate_batch_against_maps(recoverable[n], b)
    THEN apply_batch_to_maps_unchecked(recoverable[n], b) ELSE Absent

\* StorageEngine::apply_write_batch.
EngineApply(n, b) ==
    /\ Accepts(graph[n], b)
    /\ graph' = [graph EXCEPT ![n] = apply_batch_to_maps_unchecked(@, b)]
    /\ next_lsn' = [next_lsn EXCEPT ![n] = @ + 1]
    /\ recoverable' = [recoverable EXCEPT ![n] = Recovered(n, b)]
    /\ exposure' = [exposure EXCEPT ![n] =
                      IF @ = "none" /\ next_lsn[n] <= published[n]
                      THEN "at_risk" ELSE @]
    /\ UNCHANGED published

\* ensure_client_write_allowed, the engine, record_local_commit.
ClientWrite(n, b) ==
    /\ Idle(n)
    /\ writes < MaxWrites /\ writes + steps < MaxOperations
    /\ writes' = writes + 1
    /\ replication[n].mode # "Follower"
    /\ EngineApply(n, b)
    /\ replication' = [replication EXCEPT ![n] =
                         IF @.mode = "Leader"
                         THEN record_leader_commit(@, next_lsn[n], b) ELSE @]
    /\ complete' = [complete EXCEPT ![n] = @ /\ replication[n].mode = "Leader"]
    /\ reused' = [reused EXCEPT ![n] =
                    @ \/ \E i \in DOMAIN replication[n].history :
                           next_lsn[n] <= replication[n].history[i].lsn]
    /\ source' = [source EXCEPT ![n] = n]
    /\ pc' = [pc EXCEPT ![n] = "persist_commit"]
    /\ UNCHANGED << cluster, metadata_files, queue, done, operator, reached,
                    fresh, topology_history, deliveries, steps, failures >>

\* An operator has the database lock.
Administer(n) ==
    /\ Idle(n)
    /\ steps < MaxSteps /\ writes + steps < MaxOperations
    /\ steps' = steps + 1

\* Database::compact, of a leader or a follower: the log starts again at LSN 1.
compact(n) ==
    /\ Administer(n)
    /\ Publish(n)
    /\ next_lsn' = [next_lsn EXCEPT ![n] = 1]
    /\ UNCHANGED << graph, replication, cluster, metadata_files, pc, queue,
                    done, operator, source, reached, fresh, complete, reused,
                    topology_history, writes, deliveries, failures >>

-----------------------------------------------------------------------------
(* Shipping                                                                *)

\* replication_history of a leader.  The operator asks for what comes after the
\* follower's position; the code would serve any LSN and notice no gap.
Fetch(l, f) ==
    /\ Idle(l) /\ Idle(f)
    /\ l # f
    /\ pulled' = [from |-> l, to |-> f,
                  records |-> history_since(replication[l],
                                            replication[f].position)]
    /\ pulled'.records # << >>
    /\ UNCHANGED << engine, replication, cluster, metadata_files, pc, queue,
                    done, reported, lineage, topology_history, bounds >>

\* apply_replication_records up to its loop.  The file may be used again.
Deliver(f) ==
    /\ Idle(f)
    /\ deliveries < MaxDeliveries
    /\ deliveries' = deliveries + 1
    /\ pulled # Absent
    /\ pulled.to = f
    /\ replication[f].mode = "Follower"
    /\ InTerm(replication[f], pulled.records)
    /\ queue' = [queue EXCEPT ![f] = AcceptedRecords(replication[f], pulled.records)]
    /\ done' = [done EXCEPT ![f] = 0]
    /\ source' = [source EXCEPT ![f] =
                    IF queue'[f] = << >> \/ @ = pulled.from THEN @
                    ELSE IF @ = Absent THEN pulled.from ELSE f]
    /\ fresh' = [fresh EXCEPT ![f] = reached[f] = replication[f].position]
    /\ pc' = [pc EXCEPT ![f] = "applying"]
    /\ UNCHANGED << engine, replication, cluster, metadata_files, operator,
                    reached, complete, reused, exposure,
                    topology_history, writes, steps, failures >>

\* One record of the loop.
ApplyRecord(f) ==
    /\ pc[f] = "applying"
    /\ done[f] < Len(queue[f])
    /\ LET record == queue[f][done[f] + 1]
       IN  /\ EngineApply(f, record.batch)
           /\ reached' = [reached EXCEPT ![f] =
                            IF record.lsn > @ THEN record.lsn ELSE @]
    /\ complete' = [complete EXCEPT ![f] = FALSE]
    /\ done' = [done EXCEPT ![f] = @ + 1]
    /\ UNCHANGED << replication, cluster, metadata_files, pc, queue, operator,
                    source, fresh, reused, topology_history, bounds >>

\* The engine refuses a record: the call fails, what was applied stays and the
\* position is not moved.
ApplyRefused(f) ==
    /\ pc[f] = "applying"
    /\ done[f] < Len(queue[f])
    /\ ~Accepts(graph[f], queue[f][done[f] + 1].batch)
    /\ queue' = [queue EXCEPT ![f] = << >>]
    /\ done' = [done EXCEPT ![f] = 0]
    /\ pc' = [pc EXCEPT ![f] = "idle"]
    /\ UNCHANGED << engine, replication, cluster, metadata_files, operator,
                    lineage, topology_history, bounds >>

\* Mutant: the position is answered before it is in the file.
EndDeliveryAnswered(f) ==
    /\ pc[f] = "applying"
    /\ done[f] = Len(queue[f])
    /\ replication' = [replication EXCEPT ![f] = apply_follower_records(@, queue[f])]
    /\ reported' = [reported EXCEPT ![f] = @ \cup {replication'[f].position}]
    /\ queue' = [queue EXCEPT ![f] = << >>]
    /\ done' = [done EXCEPT ![f] = 0]
    /\ pc' = [pc EXCEPT ![f] = "persist_applied"]
    /\ UNCHANGED << engine, cluster, metadata_files, pulled, lineage,
                    topology_history, bounds >>

\* All applied: the position moves once, for the whole delivery.
EndDelivery(f) ==
    /\ pc[f] = "applying"
    /\ done[f] = Len(queue[f])
    /\ replication' = [replication EXCEPT ![f] = apply_follower_records(@, queue[f])]
    /\ queue' = [queue EXCEPT ![f] = << >>]
    /\ done' = [done EXCEPT ![f] = 0]
    /\ pc' = [pc EXCEPT ![f] = "persist_applied"]
    /\ UNCHANGED << engine, cluster, metadata_files, operator, lineage,
                    topology_history, bounds >>

\* acknowledge_replica: the operator passes on a position that the follower has
\* reported; the code would take any.
acknowledge_replica(l, f, lsn) ==
    /\ Idle(l)
    /\ replication[l].mode = "Leader"
    /\ replication[l].replicas[f] # Absent
    /\ lsn \in reported[f]
    /\ replication[l].replicas[f] # lsn
    /\ replication' = [replication EXCEPT ![l].replicas[f] = lsn]
    /\ pc' = [pc EXCEPT ![l] = "persist_commit"]
    /\ UNCHANGED << engine, cluster, metadata_files, queue, done, operator, lineage,
                    topology_history, bounds >>

-----------------------------------------------------------------------------
(* Roles                                                                   *)

configure_as_leader(n) ==
    /\ Administer(n)
    /\ cluster' = [cluster EXCEPT ![n] = ensure_leader(@, n)]
    /\ replication' = [replication EXCEPT ![n] =
                         promote_to_leader(@, n, cluster'[n].term)]
    /\ pc' = [pc EXCEPT ![n] = "persist_both"]
    /\ UNCHANGED << engine, metadata_files, queue, done, operator, lineage,
                    topology_history, writes, deliveries, failures >>

configure_as_follower(n, leader) ==
    /\ Administer(n)
    /\ cluster' = [cluster EXCEPT ![n] =
                     observe_leader(WithReplica(@, leader), leader)]
    /\ replication' = [replication EXCEPT ![n] =
                         failover_to_follower(@, leader, cluster[n].term)]
    /\ pc' = [pc EXCEPT ![n] = "persist_both"]
    /\ UNCHANGED << engine, metadata_files, queue, done, operator, lineage,
                    topology_history, writes, deliveries, failures >>

\* Mutant: the local node takes the role whichever node was named.
PromoteSelf(n, m) ==
    /\ Administer(n)
    /\ Known(cluster[n], m)
    /\ cluster' = [cluster EXCEPT ![n] = PromotedTopology(@, m)]
    /\ replication' = [replication EXCEPT ![n] =
                         promote_to_leader(@, n, cluster'[n].term)]
    /\ pc' = [pc EXCEPT ![n] = "persist_both"]
    /\ UNCHANGED << engine, metadata_files, queue, done, operator, lineage,
                    topology_history, writes, deliveries, failures >>

\* promote_node of a node in the topology, the local one or another.
promote_node(n, m) ==
    /\ Administer(n)
    /\ Known(cluster[n], m)
    /\ cluster' = [cluster EXCEPT ![n] = PromotedTopology(@, m)]
    /\ replication' = [replication EXCEPT ![n] =
                         IF m = n THEN promote_to_leader(@, n, cluster'[n].term)
                         ELSE failover_to_follower(@, m, cluster'[n].term)]
    /\ pc' = [pc EXCEPT ![n] = "persist_both"]
    /\ UNCHANGED << engine, metadata_files, queue, done, operator, lineage,
                    topology_history, writes, deliveries, failures >>

\* promote_node of an unknown node: an error, after the primaries stepped down.
PromoteUnknown(n, m) ==
    /\ Administer(n)
    /\ ~Known(cluster[n], m)
    /\ cluster' = [cluster EXCEPT ![n] = Crowned(@, m)]
    /\ misaddressed' = [misaddressed EXCEPT ![n] = TRUE]
    /\ UNCHANGED << engine, replication, metadata_files, pc, queue, done, operator,
                    lineage, out_of_step, writes, deliveries, failures >>

\* register_replica: the topology first; a node that is not the leader has
\* then changed its topology and returns an error.
register_replica(n, m) ==
    /\ Administer(n)
    /\ ~Known(cluster[n], m)
    /\ cluster' = [cluster EXCEPT ![n] = WithReplica(@, m)]
    /\ IF replication[n].mode = "Leader"
       THEN /\ replication' = [replication EXCEPT ![n].replicas[m] =
                                 IF @ = Absent THEN 0 ELSE @]
            /\ pc' = [pc EXCEPT ![n] = "persist_members"]
       ELSE UNCHANGED << replication, pc >>
    /\ UNCHANGED << engine, metadata_files, queue, done, operator, lineage,
                    topology_history, writes, deliveries, failures >>

mark_node_health(n, m) ==
    /\ Administer(n)
    /\ Known(cluster[n], m)
    /\ cluster' = [cluster EXCEPT ![n].nodes[m].healthy = ~@]
    /\ pc' = [pc EXCEPT ![n] = "persist_cluster"]
    /\ UNCHANGED << engine, replication, metadata_files, queue, done, operator,
                    lineage, topology_history, writes, deliveries, failures >>

-----------------------------------------------------------------------------
\* A leader with every other node as its follower, nothing written yet.
Configured(l) ==
    /\ replication = [n \in Nodes |->
         IF n = l THEN [promote_to_leader(Single, l, 1) EXCEPT !.replicas =
                          [m \in Nodes |-> IF m = l THEN Absent ELSE 0]]
         ELSE failover_to_follower(Single, l, 1)]
    /\ cluster = [n \in Nodes |->
         IF n = l THEN [SingleTopology(l) EXCEPT !.nodes =
             [m \in Nodes |-> [role |-> IF m = l THEN "Primary" ELSE "Replica",
                               healthy |-> TRUE]]]
         ELSE observe_leader(WithReplica(SingleTopology(n), l), l)]

\* New databases, or databases that were configured before the first write.
Init ==
    /\ graph = [n \in Nodes |-> EmptyGraph]
    /\ next_lsn = [n \in Nodes |-> 1]
    /\ published = [n \in Nodes |-> 0]
    /\ recoverable = graph
    /\ \/ /\ replication = [n \in Nodes |-> Single]
          /\ cluster = [n \in Nodes |-> SingleTopology(n)]
       \/ \E l \in Nodes : Configured(l)
    /\ replication_file = replication
    /\ cluster_file = cluster
    /\ pc = [n \in Nodes |-> "idle"]
    /\ queue = [n \in Nodes |-> << >>]
    /\ done = [n \in Nodes |-> 0]
    /\ pulled = Absent
    /\ reported = [n \in Nodes |-> {}]
    /\ source = [n \in Nodes |-> Absent]
    /\ reached = [n \in Nodes |-> 0]
    /\ fresh = [n \in Nodes |-> TRUE]
    /\ complete = [n \in Nodes |-> TRUE]
    /\ reused = [n \in Nodes |-> FALSE]
    /\ exposure = [n \in Nodes |-> "none"]
    /\ misaddressed = [n \in Nodes |-> FALSE]
    /\ out_of_step = [n \in Nodes |-> FALSE]
    /\ writes = 0 /\ deliveries = 0 /\ steps = 0 /\ failures = 0

Storing(n) ==
    persist_cluster_topology(n) \/ persist_replication_metadata(n) \/ PersistFails(n)
Stopping(n) == Crash(n) \/ graceful_shutdown(n) \/ Restart(n)
Shipping(n) ==
    \/ \E m \in Nodes : Fetch(n, m)
    \/ Deliver(n) \/ ApplyRecord(n) \/ ApplyRefused(n) \/ EndDelivery(n)
    \/ \E m \in Nodes : \E lsn \in reported[m] : acknowledge_replica(n, m, lsn)
Administering(n) ==
    \/ configure_as_leader(n)
    \/ \E m \in Nodes : configure_as_follower(n, m)
    \/ \E m \in Nodes : promote_node(n, m) \/ PromoteUnknown(n, m)
    \/ \E m \in Nodes : register_replica(n, m) \/ mark_node_health(n, m)
    \/ compact(n)

Next ==
    \E n \in Nodes :
        \/ \E b \in Batches : ClientWrite(n, b)
        \/ Storing(n) \/ Stopping(n) \/ Shipping(n) \/ Administering(n)

Spec == Init /\ [][Next]_vars

-----------------------------------------------------------------------------
(* Properties                                                              *)

\* The graph that the records give, applied in order to an empty store.
Replay(records) ==
    LET g[i \in 0 .. Len(records)] ==
            IF i = 0 THEN EmptyGraph
            ELSE apply_batch_to_maps_unchecked(g[i - 1], records[i].batch)
    IN  g[Len(records)]

\* The records a node can still hand out, in memory or after a restart.
Held(n) == IF Down(n) THEN replication_file[n] ELSE replication[n]

\* What the engine has, or will have after a restart.
Stored(n) == IF Down(n) THEN recoverable[n] ELSE graph[n]

\* Everything a leader's engine holds can be shipped, and nothing else: the
\* history, replayed from nothing, is the leader's graph, through compactions,
\* crashes and restarts.  A node has lost that when it wrote without being a
\* leader, applied records, crashed between the engine's commit and the metadata
\* file, or crashed with writes that the engine does not recover.
HistoryIsTheGraph ==
    \A n \in Nodes : (complete[n] /\ Held(n) # Torn) =>
        Replay(Held(n).history) = Stored(n)

\* f has records from one leader only, which can hand out all it has, each
\* under an LSN of its own.
Follows(f, l) ==
    /\ f # l
    /\ source[f] = l
    /\ complete[l] /\ ~reused[l]
    /\ Held(l) # Torn

UpTo(records, lsn) ==
    Selected(records, {i \in DOMAIN records : records[i].lsn <= lsn})

\* A follower whose recorded position covers all that its engine holds has
\* exactly the leader's graph at that position, whatever was delivered late,
\* twice, partly or again after a crash, and whatever either has compacted, as
\* long as the follower's engine has lost no write.
FollowerIsPrefix ==
    \A f, l \in Nodes :
        (/\ Follows(f, l)
         /\ exposure[f] # "lost"
         /\ Held(f) # Torn
         /\ Held(f).position >= reached[f]) =>
        Stored(f) = Replay(UpTo(Held(l).history, reached[f]))

\* A delivery that begins where the engine stands is never refused half-way:
\* only a delivery repeated after an interruption can be, or one to a follower
\* whose engine has lost a write.
FreshDeliveryApplies ==
    \A f, l \in Nodes :
        (/\ Follows(f, l)
         /\ exposure[f] # "lost"
         /\ pc[f] = "applying" /\ fresh[f]
         /\ done[f] < Len(queue[f])) =>
        Accepts(graph[f], queue[f][done[f] + 1].batch)

\* What a leader counts as acknowledged is in the follower's file: a crash of
\* the follower does not take it back.
AckedIsDurable ==
    \A f, l \in Nodes :
        (/\ Follows(f, l)
         /\ Held(l).replicas[f] # Absent
         /\ replication_file[f] # Torn) =>
        replication_file[f].position >= Held(l).replicas[f]

\* Each topology has at most one primary, and its leader is it unless a
\* promotion named an unknown node.
OnePrimary ==
    \A n \in Nodes :
        LET primaries == {m \in Nodes : /\ Known(cluster[n], m)
                                        /\ cluster[n].nodes[m].role = "Primary"}
        IN  /\ Cardinality(primaries) <= 1
            /\ ~misaddressed[n] => primaries = {cluster[n].leader}

\* Mode and topology tell the same story while a node runs, unless a crash or
\* a failed write left the two files of different operations.
RolesAgree ==
    \A n \in Nodes : ~Down(n) /\ ~out_of_step[n] =>
        /\ replication[n].mode = "Leader" => cluster[n].leader = n
        /\ replication[n].mode = "Follower" =>
             replication[n].leader = cluster[n].leader
=============================================================================
