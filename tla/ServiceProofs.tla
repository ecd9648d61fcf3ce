---------------------------- MODULE ServiceProofs ---------------------------
(* The rate limit, the timeout, the maintenance status and budget and the   *)
(* audit log, for every number of requests and for all limits.              *)
EXTENDS Service, TLAPS

\* Where a request can be.
Stages ==
    {"new", "limited", "admitted", "answered", "check_wait", "wait", "reply",
     "checking", "running", "rejecting", "starting", "failing", "finishing",
     "audit", "pruning", "truncating", "rewriting"}

Buckets == [tokens : Nat, last : Nat]

LimiterType ==
    /\ pc \in [Requests -> Stages]
    /\ clock \in Nat
    /\ sampled \in [Requests -> Nat]
    /\ buckets \in [Roles -> Buckets \cup {None}]
    /\ admitted \in [Roles -> Nat]
    /\ regressed \in [Roles -> Nat]

\* A sample lies in the past, and only requests with a known key are limited.
SampledInTime ==
    \A r \in Requests :
        sampled[r] <= clock /\ (pc[r] = "limited" => Key(r) \in Roles)

\* What is left in a bucket and what was taken from it is within the capacity
\* and the refills since the start, up to the time of the last refill.
BucketCovered(k) ==
    IF buckets[k] = None THEN admitted[k] = 0
    ELSE /\ buckets[k].last <= clock
         /\ buckets[k].tokens + admitted[k]
              <= Capacity + Rate * (buckets[k].last + regressed[k])

LimiterInv ==
    LimiterType /\ SampledInTime /\ \A k \in Roles : BucketCovered(k)

\* Refilling a bucket: the tokens grow by at most the rate times the time that
\* is added to the last refill and the time taken back.
LEMMA RefillBounded ==
    ASSUME NEW bucket \in Buckets, NEW now \in Nat, NEW taken \in Nat,
           NEW back \in Nat,
           bucket.tokens + taken <= Capacity + Rate * (bucket.last + back)
    PROVE  LET new == Refilled(bucket, now)
               more == IF bucket.last > now THEN bucket.last - now ELSE 0
           IN  /\ new \in Buckets /\ new.last = now
               /\ new.tokens + taken <= Capacity + Rate * (now + (back + more))
<1> DEFINE elapsed == IF now > bucket.last THEN now - bucket.last ELSE 0
           more == IF bucket.last > now THEN bucket.last - now ELSE 0
           sum == bucket.last + back
<1>1. /\ bucket.tokens \in Nat /\ bucket.last \in Nat
      /\ Capacity \in Nat /\ Rate \in Nat
  BY ServiceAssumption DEF Buckets
<1>2. elapsed \in Nat /\ more \in Nat /\ sum \in Nat
  BY <1>1
<1>3. now + (back + more) = sum + elapsed
  BY <1>1
<1> HIDE DEF elapsed, more, sum
<1>4. /\ Rate * elapsed \in Nat /\ Rate * sum \in Nat
      /\ Rate * (sum + elapsed) = Rate * sum + Rate * elapsed
  BY <1>1, <1>2
<1>5. /\ Refilled(bucket, now).tokens = Least(bucket.tokens + Rate * elapsed, Capacity)
      /\ Refilled(bucket, now).last = now
  BY DEF Refilled, elapsed
<1>6. /\ Refilled(bucket, now).tokens \in Nat
      /\ Refilled(bucket, now).tokens <= bucket.tokens + Rate * elapsed
  BY <1>1, <1>4, <1>5 DEF Least
<1>7. Refilled(bucket, now) \in Buckets
  BY <1>5, <1>6 DEF Refilled, Buckets
<1>8. bucket.tokens + taken <= Capacity + Rate * sum
  BY DEF sum
<1>9. Refilled(bucket, now).tokens + taken <= Capacity + Rate * (sum + elapsed)
  BY <1>1, <1>4, <1>6, <1>8
<1> QED BY <1>3, <1>5, <1>7, <1>9 DEF more

\* Steps that leave the limiter alone and send no request to it.
LEMMA OthersKeepLimiter ==
    ASSUME LimiterInv, load' = load, limiter' = limiter,
           NEW r \in Requests, NEW to \in Stages, to # "limited",
           pc' = [pc EXCEPT ![r] = to]
    PROVE  LimiterInv'
<1>1. LimiterType'
  BY DEF LimiterInv, LimiterType, limiter
<1>2. SampledInTime'
  BY DEF LimiterInv, LimiterType, SampledInTime, limiter, Key
<1>3. \A k \in Roles : BucketCovered(k)'
  BY DEF LimiterInv, BucketCovered, limiter
<1> QED BY <1>1, <1>2, <1>3 DEF LimiterInv

\* enforce_rate_limit keeps the bucket covered, also when two threads took
\* their samples in the other order.
LEMMA LimitKeepsLimiter ==
    ASSUME LimiterInv, NEW r \in Requests, Limit(r)
    PROVE  LimiterInv'
<1> DEFINE key == Key(r)
           old == IF buckets[key] = None
                  THEN [tokens |-> Capacity, last |-> sampled[r]] ELSE buckets[key]
           new == Refilled(old, sampled[r])
           back == IF old.last > sampled[r] THEN old.last - sampled[r] ELSE 0
           taken == [new EXCEPT !.tokens = @ - 1]
<1>0. ServiceAssumption /\ LimiterType /\ SampledInTime
  BY ServiceAssumption DEF LimiterInv
<1>1. key \in Roles /\ sampled[r] \in Nat /\ sampled[r] <= clock
  BY <1>0 DEF SampledInTime, Limit, LimiterType
<1>2. admitted[key] \in Nat /\ regressed[key] \in Nat /\ clock \in Nat
  BY <1>0, <1>1 DEF LimiterType
<1>3. /\ old \in Buckets
      /\ old.tokens + admitted[key] <= Capacity + Rate * (old.last + regressed[key])
  <2>1. CASE buckets[key] = None
    <3>1. admitted[key] = 0
      BY <1>1, <2>1 DEF LimiterInv, BucketCovered
    <3>2. Rate * (sampled[r] + regressed[key]) \in Nat
      BY <1>1, <1>2, ServiceAssumption
    <3> QED BY <2>1, <3>1, <3>2, <1>1, ServiceAssumption DEF Buckets
  <2>2. CASE buckets[key] # None
    BY <1>0, <1>1, <2>2 DEF LimiterInv, LimiterType, BucketCovered
  <2> QED BY <2>1, <2>2
<1>4. /\ pc[r] = "limited"
      /\ regressed' = [regressed EXCEPT ![key] = @ + back]
      /\ \/ /\ buckets' = [buckets EXCEPT ![key] = new]
            /\ pc' = [pc EXCEPT ![r] = "answered"]
            /\ admitted' = admitted
         \/ /\ ~(new.tokens < 1)
            /\ buckets' = [buckets EXCEPT ![key] = taken]
            /\ admitted' = [admitted EXCEPT ![key] = @ + 1]
            /\ \/ pc' = [pc EXCEPT ![r] = "admitted"]
               \/ pc' = [pc EXCEPT ![r] = "answered"]
      /\ UNCHANGED << load, clock, sampled >>
  BY DEF Limit, Goes, Answered
<1> HIDE DEF old, key
<1>5. /\ new \in Buckets /\ new.last = sampled[r]
      /\ new.tokens + admitted[key]
           <= Capacity + Rate * (sampled[r] + (regressed[key] + back))
  BY <1>1, <1>2, <1>3, RefillBounded
<1>6. back \in Nat
  BY <1>1, <1>3 DEF Buckets
<1> HIDE DEF new, back
<1>7. ~(new.tokens < 1) =>
         /\ taken \in Buckets /\ taken.last = sampled[r]
         /\ taken.tokens = new.tokens - 1
  BY <1>5 DEF Buckets
<1>8. \/ /\ buckets'[key] = new /\ admitted'[key] = admitted[key]
      \/ /\ ~(new.tokens < 1)
         /\ buckets'[key] = taken /\ admitted'[key] = admitted[key] + 1
  BY <1>0, <1>1, <1>4 DEF LimiterType
<1>9. /\ buckets'[key] \in Buckets /\ buckets'[key].last = sampled[r]
      /\ buckets'[key].tokens + admitted'[key] = new.tokens + admitted[key]
  <2>1. new.tokens \in Nat
    BY <1>5 DEF Buckets
  <2>2. CASE buckets'[key] = new /\ admitted'[key] = admitted[key]
    BY <1>5, <2>2
  <2>3. CASE /\ ~(new.tokens < 1)
             /\ buckets'[key] = taken /\ admitted'[key] = admitted[key] + 1
    <3>1. taken.tokens + admitted'[key] = (new.tokens - 1) + (admitted[key] + 1)
      BY <1>7, <2>3
    <3>2. (new.tokens - 1) + (admitted[key] + 1) = new.tokens + admitted[key]
      BY <1>2, <2>1
    <3> HIDE DEF taken
    <3> QED BY <1>7, <2>3, <3>1, <3>2
  <2> QED BY <1>8, <2>2, <2>3
<1>10. \A k \in Roles \ {key} : /\ buckets'[k] = buckets[k]
                                /\ admitted'[k] = admitted[k]
                                /\ regressed'[k] = regressed[k]
  BY <1>0, <1>4 DEF LimiterType
<1>11. regressed'[key] = regressed[key] + back
  BY <1>0, <1>1, <1>4 DEF LimiterType
<1>12. \A k \in Roles : BucketCovered(k)'
  <2> SUFFICES ASSUME NEW k \in Roles PROVE BucketCovered(k)'
    OBVIOUS
  <2>1. CASE k = key
    <3>1. buckets'[key] # None
      BY <1>9, ServiceAssumption DEF Buckets
    <3>2. buckets'[key].tokens + admitted'[key]
            <= Capacity + Rate * (buckets'[key].last + regressed'[key])
      BY <1>5, <1>9, <1>11
    <3> QED BY <1>1, <1>4, <1>9, <2>1, <3>1, <3>2 DEF BucketCovered
  <2>2. CASE k # key
    BY <1>4, <1>10, <2>2 DEF LimiterInv, BucketCovered
  <2> QED BY <2>1, <2>2
<1>13. LimiterType'
  <2>1. buckets' \in [Roles -> Buckets \cup {None}]
    BY <1>0, <1>4, <1>5, <1>7 DEF LimiterType
  <2>2. admitted' \in [Roles -> Nat] /\ regressed' \in [Roles -> Nat]
    BY <1>0, <1>1, <1>2, <1>4, <1>6 DEF LimiterType
  <2>3. pc' \in [Requests -> Stages]
    BY <1>0, <1>4 DEF LimiterType, Stages
  <2> QED BY <1>0, <1>4, <2>1, <2>2, <2>3 DEF LimiterType
<1>14. SampledInTime'
  BY <1>0, <1>4 DEF SampledInTime, LimiterType, Key
<1> QED BY <1>12, <1>13, <1>14 DEF LimiterInv

LEMMA ArriveKeepsLimiter ==
    ASSUME LimiterInv, NEW r \in Requests, Arrive(r)
    PROVE  LimiterInv'
<1>1. /\ UNCHANGED << load, clock, buckets, admitted, regressed >>
      /\ \/ pc' = [pc EXCEPT ![r] = "admitted"] /\ sampled' = sampled
         \/ pc' = [pc EXCEPT ![r] = "answered"] /\ sampled' = sampled
         \/ /\ Key(r) \in Roles
            /\ pc' = [pc EXCEPT ![r] = "limited"]
            /\ sampled' = [sampled EXCEPT ![r] = clock]
  BY DEF Arrive, Goes, Answered
<1>2. LimiterType'
  BY <1>1 DEF LimiterInv, LimiterType, Stages
<1>3. SampledInTime'
  BY <1>1 DEF LimiterInv, LimiterType, SampledInTime, Key
<1>4. \A k \in Roles : BucketCovered(k)'
  BY <1>1 DEF LimiterInv, BucketCovered
<1> QED BY <1>2, <1>3, <1>4 DEF LimiterInv

LEMMA TickKeepsLimiter ==
    ASSUME LimiterInv, Tick
    PROVE  LimiterInv'
<1>1. /\ clock' = clock + 1 /\ clock \in Nat
      /\ UNCHANGED << load, pc, sampled, buckets, admitted, regressed >>
  BY DEF Tick, LimiterInv, LimiterType
<1>2. LimiterType'
  BY <1>1 DEF LimiterInv, LimiterType
<1>3. SampledInTime'
  BY <1>1 DEF LimiterInv, LimiterType, SampledInTime, Key
<1>4. \A k \in Roles : BucketCovered(k)'
  <2> SUFFICES ASSUME NEW k \in Roles PROVE BucketCovered(k)'
    OBVIOUS
  <2>1. BucketCovered(k) /\ buckets[k] \in Buckets \cup {None}
    BY DEF LimiterInv, LimiterType
  <2>2. buckets[k] # None => buckets[k].last <= clock + 1
    BY <1>1, <2>1 DEF BucketCovered, Buckets
  <2> QED BY <1>1, <2>1, <2>2 DEF BucketCovered
<1> QED BY <1>2, <1>3, <1>4 DEF LimiterInv

\* Every other step of a request moves it on, away from the limiter.
LEMMA MovesOn ==
    ASSUME NEW r \in Requests,
           \/ \E code : Answered(r, code)
           \/ \E to \in Stages \ {"limited"} : Goes(r, to)
    PROVE  \E to \in Stages \ {"limited"} : pc' = [pc EXCEPT ![r] = to]
BY DEF Answered, Goes, Stages

LEMMA StepLeavesLimiter ==
    ASSUME NEW r \in Requests, Step(r) \/ Timeout(r), ~Limit(r)
    PROVE  /\ load' = load /\ limiter' = limiter
           /\ \E to \in Stages \ {"limited"} : pc' = [pc EXCEPT ![r] = to]
<1>1. /\ load' = load /\ limiter' = limiter
      /\ \/ \E code : Answered(r, code)
         \/ \E to \in Stages \ {"limited"} : Goes(r, to)
  <2>1. CASE Begin(r)
    BY <2>1 DEF Begin, FirstAwait, Stages
  <2>2. CASE Reply(r)
    BY <2>2 DEF Reply, Stages
  <2>3. CASE Acquire(r)
    BY <2>3 DEF Acquire, Stages
  <2>4. CASE Run(r)
    BY <2>4 DEF Run, Stages
  <2>5. CASE RunFails(r)
    BY <2>5 DEF RunFails, Stages
  <2>6. CASE CheckBudget(r)
    BY <2>6 DEF CheckBudget, Stages
  <2>7. CASE RejectOverBudget(r)
    BY <2>7 DEF RejectOverBudget, Stages
  <2>8. CASE mark_maintenance_started(r)
    BY <2>8 DEF mark_maintenance_started, Stages
  <2>9. CASE mark_maintenance_finished(r)
    BY <2>9 DEF mark_maintenance_finished, Stages
  <2>10. CASE append_audit_event(r)
    BY <2>10 DEF append_audit_event, Stages
  <2>11. CASE AuditFails(r)
    BY <2>11 DEF AuditFails, Stages
  <2>12. CASE PruneReads(r)
    BY <2>12 DEF PruneReads, AfterAudit, Stages
  <2>13. CASE PruneTruncates(r)
    BY <2>13 DEF PruneTruncates, Stages
  <2>14. CASE PruneRewrites(r)
    BY <2>14 DEF PruneRewrites, AfterAudit, Stages
  <2>15. CASE Timeout(r)
    BY <2>15 DEF Timeout, Stages
  <2> QED BY <2>1, <2>2, <2>3, <2>4, <2>5, <2>6, <2>7,
             <2>8, <2>9, <2>10, <2>11, <2>12, <2>13, <2>14, <2>15 DEF Step
<1> QED BY <1>1, MovesOn

\* A key is let in at most as often as its bucket holds tokens and the clock,
\* with the time that late samples count twice, refills them, whatever the
\* order in which the threads sample the clock and reach the bucket.
THEOREM RateBoundedAlways == Spec => []RateBounded
<1>1. Init => LimiterInv
  BY ServiceAssumption
  DEF Init, LimiterInv, LimiterType, SampledInTime, BucketCovered, Stages
<1>2. LimiterInv /\ [Next]_vars => LimiterInv'
  <2> SUFFICES ASSUME LimiterInv, [Next]_vars PROVE LimiterInv'
    OBVIOUS
  <2>1. ASSUME NEW r \in Requests, Arrive(r) PROVE LimiterInv'
    BY <2>1, ArriveKeepsLimiter
  <2>2. ASSUME NEW r \in Requests, Step(r) \/ Timeout(r) PROVE LimiterInv'
    <3>1. CASE Limit(r)
      BY <3>1, LimitKeepsLimiter
    <3>2. CASE ~Limit(r)
      <4>1. load' = load /\ limiter' = limiter
        BY <2>2, <3>2, StepLeavesLimiter
      <4>2. PICK to \in Stages \ {"limited"} : pc' = [pc EXCEPT ![r] = to]
        BY <2>2, <3>2, StepLeavesLimiter
      <4> QED BY <4>1, <4>2, OthersKeepLimiter
    <3> QED BY <3>1, <3>2
  <2>3. CASE Tick
    BY <2>3, TickKeepsLimiter
  <2>4. CASE Signal \/ Close \/ UNCHANGED vars
    <3>1. UNCHANGED << load, pc, limiter >>
      BY <2>4 DEF Signal, Close, vars
    <3> QED
      BY <3>1 DEF LimiterInv, LimiterType, SampledInTime, BucketCovered, Key, limiter
  <2> QED BY <2>1, <2>2, <2>3, <2>4 DEF Next
<1>3. LimiterInv => RateBounded
  <2> SUFFICES ASSUME LimiterInv, NEW k \in Roles
               PROVE  admitted[k] <= Capacity + Rate * (clock + regressed[k])
    BY DEF RateBounded
  <2>1. /\ admitted[k] \in Nat /\ regressed[k] \in Nat /\ clock \in Nat
        /\ Capacity \in Nat /\ Rate \in Nat
    BY ServiceAssumption DEF LimiterInv, LimiterType
  <2>2. Rate * (clock + regressed[k]) \in Nat
    BY <2>1
  <2>3. CASE buckets[k] = None
    BY <2>1, <2>2, <2>3 DEF LimiterInv, BucketCovered
  <2>4. CASE buckets[k] # None
    <3> DEFINE last == buckets[k].last
               rest == clock - last
    <3>1. /\ last \in Nat /\ buckets[k].tokens \in Nat /\ last <= clock
          /\ buckets[k].tokens + admitted[k] <= Capacity + Rate * (last + regressed[k])
      BY <2>4 DEF LimiterInv, LimiterType, BucketCovered, Buckets
    <3>2. rest \in Nat /\ clock + regressed[k] = (last + regressed[k]) + rest
      BY <2>1, <3>1
    <3> HIDE DEF rest, last
    <3>3. Rate * ((last + regressed[k]) + rest)
            = Rate * (last + regressed[k]) + Rate * rest
      BY <2>1, <3>1, <3>2
    <3>4. Rate * rest \in Nat /\ Rate * (last + regressed[k]) \in Nat
      BY <2>1, <3>1, <3>2
    <3>5. Rate * (last + regressed[k]) <= Rate * (clock + regressed[k])
      BY <3>2, <3>3, <3>4
    <3> QED BY <2>1, <2>2, <3>1, <3>4, <3>5
  <2> QED BY <2>3, <2>4
<1> QED BY <1>1, <1>2, <1>3, PTL DEF Spec

-----------------------------------------------------------------------------
(* What the handlers have in common                                        *)

\* Every handler under the budget takes the lock and is audited; a handler that
\* adds nodes or edges changes the graph.
Regular(h) ==
    /\ h.budget => h.audited /\ h.access # "none"
    /\ h.adds # {} => h.changes

LEMMA HandlersRegular == \A h \in Handlers : Regular(h)
<1>1. Regular(health_handler) /\ Regular(readiness_handler) /\ Regular(metrics_handler)
  BY DEF Regular, Reading, health_handler, readiness_handler, metrics_handler
<1>2. /\ Regular(create_node_handler) /\ Regular(update_node_handler)
      /\ Regular(get_node_handler) /\ Regular(delete_node_handler)
  BY DEF Regular, Reading, Writing, create_node_handler,
         update_node_handler, get_node_handler, delete_node_handler
<1>3. /\ Regular(create_edge_handler) /\ Regular(update_edge_handler)
      /\ Regular(get_edge_handler) /\ Regular(delete_edge_handler)
      /\ Regular(query_handler) /\ Regular(query_stream_handler)
  BY DEF Regular, Reading, Writing, create_edge_handler,
         update_edge_handler, get_edge_handler, delete_edge_handler,
         query_handler, query_stream_handler
<1>4. /\ Regular(begin_transaction_handler) /\ Regular(list_transactions_handler)
      /\ Regular(transaction_summary_handler)
      /\ Regular(stage_transaction_operation_handler)
  BY DEF Regular, Reading, Writing, begin_transaction_handler,
         list_transactions_handler, transaction_summary_handler,
         stage_transaction_operation_handler
<1>5. /\ Regular(transaction_query_handler)
      /\ Regular(transaction_query_stream_handler)
      /\ Regular(commit_transaction_handler) /\ Regular(rollback_transaction_handler)
  BY DEF Regular, Reading, Writing, Kinds, transaction_query_handler,
         transaction_query_stream_handler, commit_transaction_handler,
         rollback_transaction_handler
<1>6. /\ Regular(compact_handler) /\ Regular(backup_handler)
      /\ Regular(restore_handler) /\ Regular(repair_handler)
      /\ Regular(rebuild_indexes_handler)
  BY DEF Regular, Reading, Maintaining, Kinds, compact_handler, backup_handler,
         restore_handler, repair_handler, rebuild_indexes_handler
<1>7. /\ Regular(maintenance_status_handler) /\ Regular(integrity_handler)
      /\ Regular(audit_export_handler) /\ Regular(replication_status_handler)
      /\ Regular(replication_history_handler) /\ Regular(cluster_topology_handler)
  BY DEF Regular, Reading, Inspecting, maintenance_status_handler,
         integrity_handler, audit_export_handler, replication_status_handler,
         replication_history_handler, cluster_topology_handler
<1>8. /\ Regular(configure_leader_handler) /\ Regular(configure_follower_handler)
      /\ Regular(register_replica_handler) /\ Regular(replica_ack_handler)
      /\ Regular(apply_replication_handler) /\ Regular(mark_node_health_handler)
      /\ Regular(promote_node_handler)
  BY DEF Regular, Reading, Writing, Administering, Kinds, configure_leader_handler,
         configure_follower_handler, register_replica_handler,
         replica_ack_handler, apply_replication_handler,
         mark_node_health_handler, promote_node_handler
<1> QED BY <1>1, <1>2, <1>3, <1>4, <1>5, <1>6, <1>7, <1>8 DEF Handlers

-----------------------------------------------------------------------------
(* Where a request is, and what it has done by then                        *)

\* Only maintenance passes through the budget check and the status updates.
BudgetStages ==
    {"check_wait", "checking", "rejecting", "starting", "failing", "finishing"}

\* The stages after the operation under the lock.
Done == {"failing", "audit", "pruning", "truncating", "rewriting", "finishing", "answered"}

\* A request takes effect once: afterwards it is done, and an answer ends it.
RequestInv ==
    /\ load \in Workloads
    /\ pc \in [Requests -> Stages]
    /\ answer \in [Requests -> Nat \cup {None}]
    /\ \A r \in Requests :
         /\ pc[r] \in BudgetStages => Handler(r).budget
         /\ answer[r] # None => pc[r] = "answered"
         /\ r \in applied => pc[r] \in Done

\* The status is right, and at most one operation is underway, as long as no
\* two operations overlapped and none was cut off.
StatusInv ==
    (~overlapped /\ ~abandoned) =>
        /\ in_progress <=> Marked # {}
        /\ \A a, b \in Marked : a = b

\* Between the check of its budget and the operation.
Pending(r) == Handler(r).budget /\ pc[r] \in {"starting", "wait", "running"}

\* A change of another request after the check of r may have added such.
GrownSince(r, k) ==
    \E o \in applied \ checked[r] : o # r /\ k \in Handler(o).adds

\* Between its check and the operation, what took effect before the check still
\* has, and of what there is too much a later change has added.
BudgetInv ==
    /\ size \in [Kinds -> 0 .. MaxSize]
    /\ DOMAIN checked = Requests
    /\ \A r \in Requests :
         Pending(r) => /\ checked[r] \subseteq applied
                       /\ \A k \in Exceeded : GrownSince(r, k)
    /\ ran_over \in [Requests -> SUBSET Kinds]
    /\ \A r \in Requests : \A k \in ran_over[r] :
         pc[r] \in Done /\ GrownSince(r, k)

\* Of the first n events, those of the last Retention that no prune took away
\* are in the lines s, each as close to the end as it is among the events.
Holds(s, n, events, lost) ==
    \A i \in 1 .. n :
        (n - i < Retention /\ events[i] \notin lost) =>
            \E j \in 1 .. Len(s) : s[j] = events[i] /\ Len(s) - j <= n - i

\* The same, as far as the lines reach.
HoldsTail(s, n, events, lost) ==
    \A i \in 1 .. n :
        (n - i < Retention /\ n - i < Len(s) /\ events[i] \notin lost) =>
            \E j \in 1 .. Len(s) : s[j] = events[i] /\ Len(s) - j <= n - i

\* A prune that rewrites the file has read all that it must keep.
Pruning(r) ==
    /\ lines[r].kept \in Seq(Requests) /\ lines[r].of \in Nat
    /\ Len(lines[r].kept) > Retention
    /\ lines[r].of <= Len(appended)
    /\ Holds(lines[r].kept, lines[r].of, appended, overwritten)

\* The audit log: the end of the file is what was appended last; all of it is
\* there while no prune has the file open; and a file that is too long has a
\* prune on the way or a failed one.
AuditInv ==
    /\ audit \in Seq(Requests) /\ appended \in Seq(Requests)
    /\ DOMAIN lines = Requests
    /\ HoldsTail(audit, Len(appended), appended, overwritten)
    /\ (\A r \in Requests : pc[r] # "rewriting") =>
         Holds(audit, Len(appended), appended, overwritten)
    /\ \A r \in Requests : pc[r] \in {"truncating", "rewriting"} => Pruning(r)
    /\ (Len(audit) > Retention /\ ~unpruned) =>
         \E r \in Requests : pc[r] \in {"pruning", "truncating"}

\* The handler of a request never changes.
LEMMA HandlerFixed ==
    ASSUME load' = load
    PROVE  \A r : Handler(r)' = Handler(r)
BY DEF Handler

LEMMA RequestRegular ==
    ASSUME load \in Workloads, NEW r \in Requests
    PROVE  Regular(Handler(r))
BY RouterAssumption, HandlersRegular DEF Handler

\* A step of one request, as the stages see it.
Moves(r, to) ==
    /\ load' = load
    /\ pc[r] # "answered" /\ pc' = [pc EXCEPT ![r] = to]
    /\ \/ answer' = answer
       \/ /\ to = "answered" /\ answer'[r] \in Nat
          /\ answer' = [answer EXCEPT ![r] = answer'[r]]
          /\ Timeout(r) \/ answer'[r] # 408
    /\ to \in BudgetStages => Handler(r).budget
    /\ \/ applied' = applied /\ (pc[r] \in Done => to \in Done)
       \/ applied' = applied \cup {r} /\ to \in Done

LEMMA MovesKeepRequests ==
    ASSUME RequestInv, NEW r \in Requests, NEW to \in Stages, Moves(r, to)
    PROVE  RequestInv'
<1>1. /\ load' \in Workloads /\ pc' \in [Requests -> Stages]
      /\ answer' \in [Requests -> Nat \cup {None}]
  BY DEF RequestInv, Moves
<1>2. ASSUME NEW o \in Requests, o # r
      PROVE  /\ pc'[o] = pc[o] /\ answer'[o] = answer[o] /\ Handler(o)' = Handler(o)
             /\ o \in applied' <=> o \in applied
  BY <1>2 DEF RequestInv, Moves, Handler
<1>3. pc'[r] = to /\ Handler(r)' = Handler(r)
  BY DEF RequestInv, Moves, Handler
<1>4. answer'[r] # None => to = "answered"
  BY DEF RequestInv, Moves
<1>5. r \in applied' => to \in Done
  BY DEF RequestInv, Moves
<1>6. to \in BudgetStages => Handler(r).budget
  BY DEF Moves
<1> QED BY <1>1, <1>2, <1>3, <1>4, <1>5, <1>6 DEF RequestInv

LEMMA LimitMoves ==
    ASSUME NEW r \in Requests, Limit(r)
    PROVE  /\ pc[r] = "limited"
           /\ \/ Goes(r, "admitted") \/ Answered(r, 429) \/ Answered(r, 403)
           /\ UNCHANGED << load, database, maintenance, audit_log >>
BY DEF Limit

LEMMA RequestMoves ==
    ASSUME RequestInv, NEW r \in Requests, Arrive(r) \/ Step(r) \/ Timeout(r)
    PROVE  \E to \in Stages : Moves(r, to)
<1> SUFFICES Moves(r, pc'[r]) /\ pc'[r] \in Stages
  OBVIOUS
<1> USE DEF Goes, Answered, RequestInv, Stages, BudgetStages, Done, Moves, database
<1>0. Regular(Handler(r))
  BY RequestRegular
<1>1. CASE Arrive(r)
  BY <1>1 DEF Arrive
<1>2. CASE Limit(r)
  BY <1>2, LimitMoves
<1>3. CASE Begin(r)
  BY <1>3 DEF Begin, FirstAwait
<1>4. CASE Reply(r)
  BY <1>4 DEF Reply
<1>5. CASE Acquire(r)
  BY <1>5 DEF Acquire
<1>6. CASE Run(r)
  BY <1>6, <1>0 DEF Run, Regular, Effect
<1>7. CASE RunFails(r)
  BY <1>7 DEF RunFails, Effect
<1>8. CASE CheckBudget(r)
  BY <1>8 DEF CheckBudget
<1>9. CASE RejectOverBudget(r)
  BY <1>9 DEF RejectOverBudget
<1>10. CASE mark_maintenance_started(r)
  BY <1>10 DEF mark_maintenance_started
<1>11. CASE mark_maintenance_finished(r)
  BY <1>11 DEF mark_maintenance_finished
<1>12. CASE append_audit_event(r)
  BY <1>12 DEF append_audit_event
<1>13. CASE AuditFails(r)
  BY <1>13 DEF AuditFails
<1>14. CASE PruneReads(r)
  BY <1>14 DEF PruneReads, AfterAudit
<1>15. CASE PruneTruncates(r)
  BY <1>15 DEF PruneTruncates
<1>16. CASE PruneRewrites(r)
  BY <1>16 DEF PruneRewrites, AfterAudit
<1>17. CASE Timeout(r)
  BY <1>17 DEF Timeout, MayTimeOut, AtStatus, LineWithout
<1> QED BY <1>1, <1>2, <1>3, <1>4, <1>5, <1>6, <1>7, <1>8, <1>9, <1>10, <1>11, <1>12, <1>13, <1>14, <1>15, <1>16, <1>17 DEF Step

\* The steps that are no step of a request.
LEMMA OthersKeepRequests ==
    ASSUME Tick \/ Signal \/ Close \/ UNCHANGED vars
    PROVE  UNCHANGED << load, pc, answer, size, applied, maintenance, audit_log >>
BY DEF Tick, Signal, Close, vars, database, maintenance, audit_log

LEMMA RequestInvStep == RequestInv /\ [Next]_vars => RequestInv'
<1> SUFFICES ASSUME RequestInv, [Next]_vars PROVE RequestInv'
  OBVIOUS
<1>1. ASSUME NEW r \in Requests, Arrive(r) \/ Step(r) \/ Timeout(r)
      PROVE  RequestInv'
  BY <1>1, RequestMoves, MovesKeepRequests
<1>2. CASE Tick \/ Signal \/ Close \/ UNCHANGED vars
  BY <1>2, OthersKeepRequests DEF RequestInv, Handler
<1> QED BY <1>1, <1>2 DEF Next

LEMMA RequestInvInit == Init => RequestInv
BY DEF Init, RequestInv, Stages, BudgetStages

\* Only the timeout answers 408, and never after a change.
LEMMA TimeoutChangesNothing ==
    ASSUME RequestInv, NEW r \in Requests, NEW to \in Stages, Moves(r, to),
           answer'[r] = 408, ~Handler(r).budget
    PROVE  r \notin applied'
<1>1. None # 408 /\ answer[r] # 408
  BY ServiceAssumption DEF RequestInv, Moves
<1>2. Timeout(r)
  BY <1>1 DEF Moves
<1>3. pc[r] \notin Done
  BY <1>2 DEF Timeout, MayTimeOut, AtStatus, RequestInv, BudgetStages, Done
<1> QED BY <1>2, <1>3 DEF Timeout, RequestInv

\* A request that timed out before its turn had no effect, in every
\* interleaving of handlers, lock grants and timeouts.
THEOREM TimedOutChangedNothingAlways == Spec => []TimedOutChangedNothing
<1>1. Init => TimedOutChangedNothing
  BY DEF Init, TimedOutChangedNothing
<1>2. RequestInv /\ TimedOutChangedNothing /\ [Next]_vars => TimedOutChangedNothing'
  <2> SUFFICES ASSUME RequestInv, TimedOutChangedNothing, [Next]_vars
               PROVE  TimedOutChangedNothing'
    OBVIOUS
  <2>1. ASSUME NEW r \in Requests, Arrive(r) \/ Step(r) \/ Timeout(r)
        PROVE  TimedOutChangedNothing'
    <3>1. PICK to \in Stages : Moves(r, to)
      BY <2>1, RequestMoves
    <3>2. ASSUME NEW o \in Requests, answer'[o] = 408, ~(Handler(o)').budget
          PROVE  o \notin applied'
      <4>1. Handler(o)' = Handler(o)
        BY <3>1 DEF Moves, Handler
      <4>2. CASE o = r
        BY <3>1, <3>2, <4>1, <4>2, TimeoutChangesNothing
      <4>3. CASE o # r
        BY <3>1, <3>2, <4>1, <4>3 DEF Moves, RequestInv, TimedOutChangedNothing
      <4> QED BY <4>2, <4>3
    <3> QED BY <3>2 DEF TimedOutChangedNothing
  <2>2. CASE Tick \/ Signal \/ Close \/ UNCHANGED vars
    BY <2>2, OthersKeepRequests DEF TimedOutChangedNothing, Handler
  <2> QED BY <2>1, <2>2 DEF Next
<1> QED BY <1>1, <1>2, RequestInvInit, RequestInvStep, PTL DEF Spec

-----------------------------------------------------------------------------
(* The maintenance status                                                  *)

LEMMA MarkedMoves ==
    ASSUME RequestInv, NEW r \in Requests, load' = load,
           pc' = [pc EXCEPT ![r] = pc'[r]]
    PROVE  Marked' = IF Handler(r).budget /\ pc'[r] \in Underway
                     THEN Marked \cup {r} ELSE Marked \ {r}
<1>1. \A o \in Requests : Handler(o)' = Handler(o) /\ (o # r => pc'[o] = pc[o])
  BY DEF RequestInv, Handler
<1> QED BY <1>1 DEF Marked

\* Steps that move a request between two stages on the same side of the status
\* updates.
LEMMA StatusUntouched ==
    ASSUME RequestInv, StatusInv, NEW r \in Requests, load' = load,
           pc' = [pc EXCEPT ![r] = pc'[r]],
           Handler(r).budget => (pc[r] \in Underway <=> pc'[r] \in Underway),
           UNCHANGED << in_progress, overlapped, abandoned >>
    PROVE  StatusInv'
<1>1. Marked' = Marked
  BY MarkedMoves DEF Marked
<1> QED BY <1>1 DEF StatusInv

LEMMA StatusStep ==
    ASSUME RequestInv, StatusInv, NEW r \in Requests,
           Arrive(r) \/ Step(r) \/ Timeout(r)
    PROVE  StatusInv'
<1> USE DEF Goes, Answered, maintenance
<1>0. /\ Regular(Handler(r)) /\ pc \in [Requests -> Stages]
      /\ load' = load /\ pc' = [pc EXCEPT ![r] = pc'[r]]
      /\ pc[r] \in BudgetStages => Handler(r).budget
  <2>1. PICK to \in Stages : Moves(r, to)
    BY RequestMoves
  <2> QED BY <2>1, RequestRegular DEF RequestInv, Moves
<1> DEFINE Same == Handler(r).budget => (pc[r] \in Underway <=> pc'[r] \in Underway)
<1>1. CASE Arrive(r) \/ Limit(r) \/ Begin(r) \/ Reply(r) \/ Acquire(r)
  <2>1. Same /\ UNCHANGED << in_progress, overlapped, abandoned >>
    <3>1. CASE Arrive(r)
      BY <1>0, <3>1 DEF Arrive, Underway
    <3>2. CASE Limit(r)
      BY <1>0, <3>2, LimitMoves DEF Underway
    <3>3. CASE Begin(r)
      BY <1>0, <3>3 DEF Begin, FirstAwait, Underway
    <3>4. CASE Reply(r)
      BY <1>0, <3>4 DEF Reply, Underway
    <3>5. CASE Acquire(r)
      BY <1>0, <3>5 DEF Acquire, Underway
    <3> QED BY <1>1, <3>1, <3>2, <3>3, <3>4, <3>5
  <2> QED BY <1>0, <2>1, StatusUntouched
<1>2. CASE Run(r) \/ RunFails(r) \/ CheckBudget(r)
  <2>1. Same /\ UNCHANGED << in_progress, overlapped, abandoned >>
    <3>1. CASE Run(r)
      BY <1>0, <3>1 DEF Run, Underway, Regular
    <3>2. CASE RunFails(r)
      BY <1>0, <3>2 DEF RunFails, Underway
    <3>3. CASE CheckBudget(r)
      BY <1>0, <3>3 DEF CheckBudget, Underway
    <3> QED BY <1>2, <3>1, <3>2, <3>3
  <2> QED BY <1>0, <2>1, StatusUntouched
<1>3. CASE \/ append_audit_event(r) \/ PruneReads(r) \/ PruneTruncates(r)
           \/ PruneRewrites(r)
  <2>1. Same /\ UNCHANGED << in_progress, overlapped, abandoned >>
    <3>1. CASE append_audit_event(r)
      BY <1>0, <3>1 DEF append_audit_event, Underway
    <3>2. CASE PruneReads(r)
      BY <1>0, <3>2 DEF PruneReads, AfterAudit, Underway
    <3>3. CASE PruneTruncates(r)
      BY <1>0, <3>3 DEF PruneTruncates, Underway
    <3>4. CASE PruneRewrites(r)
      BY <1>0, <3>4 DEF PruneRewrites, AfterAudit, Underway
    <3> QED BY <1>3, <3>1, <3>2, <3>3, <3>4
  <2> QED BY <1>0, <2>1, StatusUntouched
<1>4. CASE RejectOverBudget(r)
  <2>1. r \notin Marked
    BY <1>4 DEF RejectOverBudget, Marked, Underway
  <2>2. pc'[r] \notin Underway
    BY <1>0, <1>4 DEF RejectOverBudget, Underway
  <2>3. Marked' = Marked \ {r}
    BY <1>0, <2>2, MarkedMoves
  <2>4. Marked' = Marked
    BY <2>1, <2>3
  <2> QED BY <1>4, <2>4 DEF RejectOverBudget, StatusInv
<1>5. CASE mark_maintenance_started(r)
  <2>1. Handler(r).budget /\ pc'[r] = "wait"
    BY <1>0, <1>5 DEF mark_maintenance_started, BudgetStages
  <2>2. Marked' = Marked \cup {r}
    BY <1>0, <2>1, MarkedMoves DEF Underway
  <2> QED BY <1>5, <2>2 DEF mark_maintenance_started, StatusInv
<1>6. CASE mark_maintenance_finished(r)
  <2>1. r \in Marked
    BY <1>0, <1>6 DEF mark_maintenance_finished, Marked, BudgetStages, Underway
  <2>2. Marked' = Marked \ {r}
    BY <1>0, <1>6, MarkedMoves DEF mark_maintenance_finished, Underway
  <2> QED BY <1>6, <2>1, <2>2 DEF mark_maintenance_finished, StatusAfter, StatusInv
<1>7. CASE AuditFails(r)
  <2>1. CASE Handler(r).budget
    BY <1>7, <2>1 DEF AuditFails, StatusInv
  <2>2. CASE ~Handler(r).budget
    <3>1. Marked' = Marked
      BY <1>0, <2>2, MarkedMoves DEF Marked
    <3> QED BY <1>7, <2>2, <3>1 DEF AuditFails, StatusInv
  <2> QED BY <2>1, <2>2
<1>8. CASE Timeout(r)
  <2>1. CASE r \in Marked
    BY <1>8, <2>1 DEF Timeout, StatusInv
  <2>2. CASE r \notin Marked
    <3>1. pc'[r] \notin Underway
      BY <1>0, <1>8 DEF Timeout, Underway
    <3>2. Marked' = Marked \ {r}
      BY <1>0, <3>1, MarkedMoves
    <3>3. Marked' = Marked
      BY <2>2, <3>2
    <3> QED BY <1>8, <2>2, <3>3 DEF Timeout, StatusInv
  <2> QED BY <2>1, <2>2
<1> QED BY <1>1, <1>2, <1>3, <1>4, <1>5, <1>6, <1>7, <1>8 DEF Step

\* The maintenance status is right whenever no two operations overlapped and
\* none was cut off between its two updates, for any number of requests.
THEOREM StatusTruthfulAlways == Spec => []StatusTruthful
<1>1. Init => StatusInv
  BY DEF Init, StatusInv, Marked, Underway
<1>2. RequestInv /\ StatusInv /\ [Next]_vars => StatusInv'
  <2> SUFFICES ASSUME RequestInv, StatusInv, [Next]_vars PROVE StatusInv'
    OBVIOUS
  <2>1. ASSUME NEW r \in Requests, Arrive(r) \/ Step(r) \/ Timeout(r)
        PROVE  StatusInv'
    BY <2>1, StatusStep
  <2>2. CASE Tick \/ Signal \/ Close \/ UNCHANGED vars
    BY <2>2, OthersKeepRequests DEF StatusInv, Marked, Handler, maintenance
  <2> QED BY <2>1, <2>2 DEF Next
<1>3. StatusInv => StatusTruthful
  BY DEF StatusInv, StatusTruthful
<1> QED BY <1>1, <1>2, <1>3, RequestInvInit, RequestInvStep, PTL DEF Spec

-----------------------------------------------------------------------------
(* The maintenance budget                                                  *)

LEMMA GrownStays ==
    ASSUME load' = load, applied \subseteq applied',
           NEW r, checked'[r] = checked[r], NEW k, GrownSince(r, k)
    PROVE  GrownSince(r, k)'
BY DEF GrownSince, Handler

\* The check is passed exactly if there is neither too much of the one nor of
\* the other.
LEMMA NothingExceeded == OverBudget <=> Exceeded # {}
BY DEF OverBudget, Exceeded, Kinds

\* A step that neither checks the budget nor ends an operation.
LEMMA BudgetUntouched ==
    ASSUME RequestInv, BudgetInv, NEW r \in Requests, NEW to \in Stages, Moves(r, to),
           UNCHANGED << size, applied, checked, ran_over >>,
           Handler(r).budget /\ to \in {"starting", "wait", "running"} =>
               pc[r] \in {"starting", "wait", "running"},
           pc[r] \in Done => to \in Done
    PROVE  BudgetInv'
<1>1. \A o \in Requests : /\ Handler(o)' = Handler(o)
                          /\ o # r => pc'[o] = pc[o]
                          /\ Pending(o)' => Pending(o)
  BY DEF Moves, RequestInv, Handler, Pending
<1>2. pc'[r] = to
  BY DEF Moves, RequestInv
<1>3. \A o \in Requests : \A k : GrownSince(o, k) => GrownSince(o, k)'
  BY GrownStays DEF Moves
<1>4. \A o \in Requests : pc[o] \in Done => pc'[o] \in Done
  BY <1>1, <1>2
<1>5. Exceeded' = Exceeded
  BY DEF Exceeded
<1> QED BY <1>1, <1>3, <1>4, <1>5 DEF BudgetInv

\* enforce_maintenance_budget reads the counts and notes what they count.
LEMMA CheckKeepsBudget ==
    ASSUME RequestInv, BudgetInv, NEW r \in Requests, CheckBudget(r)
    PROVE  BudgetInv'
<1>1. /\ pc[r] = "checking" /\ load' = load
      /\ pc' = [pc EXCEPT ![r] = IF OverBudget THEN "rejecting" ELSE "starting"]
      /\ checked' = [checked EXCEPT ![r] = applied]
      /\ UNCHANGED << size, applied, ran_over >>
  BY DEF CheckBudget, Goes
<1>2. /\ pc'[r] = (IF OverBudget THEN "rejecting" ELSE "starting")
      /\ checked'[r] = applied /\ DOMAIN checked' = Requests
  BY <1>1 DEF RequestInv, BudgetInv
<1>3. ASSUME NEW o \in Requests, o # r
      PROVE  /\ pc'[o] = pc[o] /\ checked'[o] = checked[o]
             /\ Pending(o)' => Pending(o)
             /\ \A k : GrownSince(o, k) => GrownSince(o, k)'
  <2>1. pc'[o] = pc[o] /\ checked'[o] = checked[o]
    BY <1>1, <1>3 DEF RequestInv, BudgetInv
  <2> QED BY <1>1, <2>1, GrownStays DEF Pending, Handler
<1>4. Exceeded' = Exceeded
  BY <1>1 DEF Exceeded
<1>5. Pending(r)' => Exceeded = {}
  BY <1>2, NothingExceeded DEF Pending
<1>6. ran_over[r] = {}
  BY <1>1 DEF BudgetInv, Done
<1> QED BY <1>1, <1>2, <1>3, <1>4, <1>5, <1>6 DEF BudgetInv

\* The operation of a request, with success or with an error: what adds nodes
\* or edges is a change that no check has counted yet.
LEMMA OperationKeepsBudget ==
    ASSUME RequestInv, BudgetInv, NEW r \in Requests, pc[r] = "running",
           Effect(r) \/ UNCHANGED << size, applied >>, NotesOverrun(r),
           load' = load, checked' = checked,
           pc' = [pc EXCEPT ![r] = pc'[r]], pc'[r] \in Done
    PROVE  BudgetInv'
<1>1. pc'[r] \in Done /\ \A o \in Requests \ {r} : pc'[o] = pc[o]
  BY DEF RequestInv
<1>2. Handler(r).adds # {} => Handler(r).changes
  BY RequestRegular DEF RequestInv, Regular
<1>3. /\ size' \in [Kinds -> 0 .. MaxSize]
      /\ \A k \in Kinds : size'[k] > size[k] => k \in Handler(r).adds /\ r \in applied'
      /\ applied \subseteq applied'
  <2>1. CASE Effect(r)
    BY <1>2, <2>1 DEF Effect
  <2>2. CASE UNCHANGED << size, applied >>
    <3>1. size \in [Kinds -> 0 .. MaxSize] /\ MaxSize \in Nat
      BY ServiceAssumption DEF BudgetInv
    <3>2. \A k \in Kinds : size[k] \in Int
      BY <3>1
    <3> QED BY <2>2, <3>1, <3>2
  <2> QED BY <2>1, <2>2
<1>4. r \notin applied
  BY DEF RequestInv, Done
<1>5. \A o \in Requests : Handler(o)' = Handler(o)
  BY HandlerFixed
<1>6. \A o \in Requests : \A k : GrownSince(o, k) => GrownSince(o, k)'
  BY <1>3, GrownStays
<1>7. \A k \in Exceeded' : k \in Exceeded \/ (k \in Handler(r).adds /\ r \in applied')
  <2>1. MaxSize \in Nat /\ \A k \in Kinds : Budget[k] \in Nat
    BY ServiceAssumption DEF Kinds
  <2>2. \A k \in Kinds : size[k] \in Int /\ size'[k] \in Int
    BY <1>3, <2>1 DEF BudgetInv
  <2> QED BY <1>3, <2>1, <2>2 DEF Exceeded
<1>8. ASSUME NEW o \in Requests, Pending(o)'
      PROVE  checked'[o] \subseteq applied' /\ \A k \in Exceeded' : GrownSince(o, k)'
  <2>1. o # r
    BY <1>1, <1>8 DEF Pending, Done
  <2>2. Pending(o)
    BY <1>1, <1>5, <1>8, <2>1 DEF Pending
  <2>3. checked[o] \subseteq applied /\ \A k \in Exceeded : GrownSince(o, k)
    BY <2>2 DEF BudgetInv
  <2>4. ASSUME NEW k \in Handler(r).adds, r \in applied' PROVE GrownSince(o, k)'
    BY <1>4, <1>5, <2>1, <2>3, <2>4 DEF GrownSince
  <2> QED BY <1>3, <1>6, <1>7, <2>3, <2>4
<1>9. ran_over' = [ran_over EXCEPT ![r] = IF Handler(r).budget THEN Exceeded ELSE {}]
  BY DEF NotesOverrun
<1>10. ran_over' \in [Requests -> SUBSET Kinds]
  BY <1>9 DEF BudgetInv, Exceeded
<1>11. ASSUME NEW o \in Requests, NEW k \in ran_over'[o]
       PROVE  pc'[o] \in Done /\ GrownSince(o, k)'
  <2>1. CASE o = r
    <3>1. Pending(r) /\ k \in Exceeded
      BY <1>9, <1>11, <2>1 DEF BudgetInv, Pending
    <3> QED BY <1>1, <1>6, <2>1, <3>1 DEF BudgetInv
  <2>2. CASE o # r
    BY <1>1, <1>6, <1>9, <1>11, <2>2 DEF BudgetInv
  <2> QED BY <2>1, <2>2
<1>12. DOMAIN checked' = Requests
  BY DEF BudgetInv
<1> QED BY <1>3, <1>8, <1>10, <1>11, <1>12 DEF BudgetInv

LEMMA BudgetStep ==
    ASSUME RequestInv, BudgetInv, NEW r \in Requests,
           Arrive(r) \/ Step(r) \/ Timeout(r)
    PROVE  BudgetInv'
<1>1. CASE CheckBudget(r)
  BY <1>1, CheckKeepsBudget
<1>2. CASE Run(r) \/ RunFails(r)
  <2>1. /\ pc' = [pc EXCEPT ![r] = pc'[r]] /\ load' = load
    BY RequestMoves DEF Moves, RequestInv
  <2>2. /\ pc[r] = "running" /\ checked' = checked /\ pc'[r] \in Done
        /\ Effect(r) \/ UNCHANGED << size, applied >>
        /\ NotesOverrun(r)
    BY <1>2 DEF Run, RunFails, Goes, Answered, RequestInv, Done
  <2> QED BY <2>1, <2>2, OperationKeepsBudget
<1>3. CASE ~CheckBudget(r) /\ ~Run(r) /\ ~RunFails(r)
  <2> DEFINE ToRun == {"starting", "wait", "running"}
             Kept3 == /\ UNCHANGED << size, applied, checked, ran_over >>
                      /\ Handler(r).budget /\ pc'[r] \in ToRun => pc[r] \in ToRun
                      /\ pc[r] \in Done => pc'[r] \in Done
  <2>1. PICK to \in Stages : Moves(r, to)
    BY RequestMoves
  <2>2. pc'[r] = to /\ pc \in [Requests -> Stages]
    BY <2>1 DEF Moves, RequestInv
  <2>3. Kept3
    <3> USE <2>2 DEF Goes, Answered, Done, maintenance, database
    <3>1. CASE Arrive(r)
      BY <3>1 DEF Arrive
    <3>2. CASE Limit(r)
      BY <3>2, LimitMoves
    <3>3. CASE Begin(r)
      BY <3>3 DEF Begin, FirstAwait
    <3>4. CASE Reply(r)
      BY <3>4 DEF Reply
    <3>5. CASE Acquire(r)
      BY <3>5 DEF Acquire
    <3>7. CASE RejectOverBudget(r)
      BY <3>7 DEF RejectOverBudget
    <3>8. CASE mark_maintenance_started(r)
      BY <3>8 DEF mark_maintenance_started
    <3>9. CASE mark_maintenance_finished(r)
      BY <3>9 DEF mark_maintenance_finished
    <3>10. CASE append_audit_event(r)
      BY <3>10 DEF append_audit_event
    <3>11. CASE AuditFails(r)
      BY <3>11 DEF AuditFails
    <3>12. CASE PruneReads(r)
      BY <3>12 DEF PruneReads, AfterAudit
    <3>13. CASE PruneTruncates(r)
      BY <3>13 DEF PruneTruncates
    <3>14. CASE PruneRewrites(r)
      BY <3>14 DEF PruneRewrites, AfterAudit
    <3>15. CASE Timeout(r)
      BY <3>15 DEF Timeout
    <3> HIDE DEF Kept3
    <3> QED BY <1>3, <3>1, <3>2, <3>3, <3>4, <3>5, <3>7, <3>8, <3>9,
               <3>10, <3>11, <3>12, <3>13, <3>14, <3>15 DEF Step
  <2> QED BY <2>1, <2>2, <2>3, BudgetUntouched
<1> QED BY <1>1, <1>2, <1>3

\* An operation runs with more nodes or edges than its budget allows only if
\* another request that adds such slipped in after its check, whatever handlers
\* run beside it and whether they succeed or fail.
THEOREM WithinBudgetAlways == Spec => []WithinBudget
<1>1. Init => BudgetInv
  BY ServiceAssumption DEF Init, BudgetInv, Pending, Kinds
<1>2. RequestInv /\ BudgetInv /\ [Next]_vars => BudgetInv'
  <2> SUFFICES ASSUME RequestInv, BudgetInv, [Next]_vars PROVE BudgetInv'
    OBVIOUS
  <2>1. ASSUME NEW r \in Requests, Arrive(r) \/ Step(r) \/ Timeout(r)
        PROVE  BudgetInv'
    BY <2>1, BudgetStep
  <2>2. CASE Tick \/ Signal \/ Close \/ UNCHANGED vars
    <3>1. UNCHANGED << load, pc, size, applied, checked, ran_over >>
      BY <2>2, OthersKeepRequests DEF maintenance
    <3> QED
      BY <3>1 DEF BudgetInv, Pending, GrownSince, Exceeded, Handler
  <2> QED BY <2>1, <2>2 DEF Next
<1>3. BudgetInv => WithinBudget
  BY DEF BudgetInv, WithinBudget, GrownSince
<1> QED BY <1>1, <1>2, <1>3, RequestInvInit, RequestInvStep, PTL DEF Spec

-----------------------------------------------------------------------------
(* The audit log                                                           *)

\* More events after the first n, or more events lost, change nothing.
LEMMA HoldsMore ==
    ASSUME NEW s, NEW n \in Nat, NEW old, NEW new, NEW lost, NEW lost2,
           \A i \in 1 .. n : new[i] = old[i], lost \subseteq lost2
    PROVE  /\ Holds(s, n, old, lost) => Holds(s, n, new, lost2)
           /\ HoldsTail(s, n, old, lost) => HoldsTail(s, n, new, lost2)
BY DEF Holds, HoldsTail

LEMMA HoldsIsTail ==
    ASSUME NEW s, NEW n, NEW events, NEW lost, Holds(s, n, events, lost)
    PROVE  HoldsTail(s, n, events, lost)
BY DEF Holds, HoldsTail

\* A file longer than the retention has all that must be kept.
LEMMA LongHolds ==
    ASSUME NEW s \in Seq(Requests), NEW n \in Nat, NEW events, NEW lost,
           HoldsTail(s, n, events, lost), Len(s) > Retention
    PROVE  Holds(s, n, events, lost)
<1>1. \A i \in 1 .. n : n - i < Retention => n - i < Len(s)
  BY ServiceAssumption
<1> QED BY <1>1 DEF Holds, HoldsTail

\* append_audit_event: one line at the end of the file.
LEMMA AppendHolds ==
    ASSUME NEW s \in Seq(Requests), NEW events \in Seq(Requests), NEW lost,
           NEW r \in Requests
    PROVE  LET n == Len(events)
               s2 == Append(s, r)
               events2 == Append(events, r)
           IN  /\ Holds(s, n, events, lost) => Holds(s2, n + 1, events2, lost)
               /\ HoldsTail(s, n, events, lost) => HoldsTail(s2, n + 1, events2, lost)
<1> DEFINE n == Len(events)
           s2 == Append(s, r)
           events2 == Append(events, r)
           Found(i, t, k, e) == \E j \in 1 .. Len(t) : t[j] = e[i] /\ Len(t) - j <= k - i
<1>1. /\ n \in Nat /\ Len(s) \in Nat /\ Len(s2) = Len(s) + 1
      /\ \A i \in 1 .. n : events2[i] = events[i]
      /\ \A j \in 1 .. Len(s) : s2[j] = s[j]
      /\ events2[n + 1] = r /\ s2[Len(s) + 1] = r
  OBVIOUS
<1> HIDE DEF n, s2, events2
<1>2. \A i \in 1 .. n : Found(i, s, n, events) => Found(i, s2, n + 1, events2)
  <2> SUFFICES ASSUME NEW i \in 1 .. n, Found(i, s, n, events)
               PROVE  Found(i, s2, n + 1, events2)
    OBVIOUS
  <2>1. PICK j \in 1 .. Len(s) : s[j] = events[i] /\ Len(s) - j <= n - i
    OBVIOUS
  <2>2. /\ j \in 1 .. Len(s2) /\ s2[j] = events2[i]
        /\ Len(s2) - j <= (n + 1) - i
    BY <1>1, <2>1
  <2> QED BY <2>2
<1>3. Found(n + 1, s2, n + 1, events2)
  <2>1. /\ Len(s2) \in 1 .. Len(s2) /\ s2[Len(s2)] = events2[n + 1]
        /\ Len(s2) - Len(s2) <= (n + 1) - (n + 1)
    BY <1>1
  <2> QED BY <2>1
<1> HIDE DEF Found
<1>4. \A i \in 1 .. n + 1 :
        \/ i = n + 1
        \/ /\ i \in 1 .. n
           /\ (n + 1) - i < Retention => n - i < Retention
           /\ (n + 1) - i < Len(s2) => n - i < Len(s)
  BY <1>1, ServiceAssumption
<1>5. /\ Holds(s, n, events, lost) <=>
           \A i \in 1 .. n : (n - i < Retention /\ events[i] \notin lost)
                               => Found(i, s, n, events)
      /\ HoldsTail(s, n, events, lost) <=>
           \A i \in 1 .. n :
             (n - i < Retention /\ n - i < Len(s) /\ events[i] \notin lost)
               => Found(i, s, n, events)
  BY DEF Holds, HoldsTail, Found
<1>6. /\ Holds(s2, n + 1, events2, lost) <=>
           \A i \in 1 .. n + 1 : ((n + 1) - i < Retention /\ events2[i] \notin lost)
                                   => Found(i, s2, n + 1, events2)
      /\ HoldsTail(s2, n + 1, events2, lost) <=>
           \A i \in 1 .. n + 1 :
             (/\ (n + 1) - i < Retention /\ (n + 1) - i < Len(s2)
              /\ events2[i] \notin lost) => Found(i, s2, n + 1, events2)
  BY DEF Holds, HoldsTail, Found
<1> QED BY <1>1, <1>2, <1>3, <1>4, <1>5, <1>6 DEF n, s2, events2

\* prune_audit_log: the last Retention of the lines it read; what was appended
\* in the meantime is lost.
LEMMA KeptHolds ==
    ASSUME NEW s \in Seq(Requests), Len(s) > Retention,
           NEW events \in Seq(Requests), NEW m \in Nat, m <= Len(events),
           NEW lost, Holds(s, m, events, lost)
    PROVE  /\ Kept(s) \in Seq(Requests) /\ Len(Kept(s)) = Retention
           /\ Holds(Kept(s), Len(events), events,
                    lost \cup {events[i] : i \in m + 1 .. Len(events)})
<1> DEFINE n == Len(events)
           cut == Len(s) - Retention
           t == Kept(s)
<1>1. n \in Nat /\ Len(s) \in Nat /\ Retention \in Nat \ {0} /\ cut \in Nat
  BY ServiceAssumption
<1>2. /\ t \in Seq(Requests) /\ Len(t) = Retention
      /\ \A j \in 1 .. Retention : t[j] = s[cut + j]
  BY <1>1 DEF Kept
<1> HIDE DEF n, cut, t
<1>3. ASSUME NEW i \in 1 .. n, n - i < Retention,
             events[i] \notin lost \cup {events[k] : k \in m + 1 .. n}
      PROVE  \E j \in 1 .. Len(t) : t[j] = events[i] /\ Len(t) - j <= n - i
  <2>1. i \in 1 .. m /\ m - i < Retention /\ m <= n
    BY <1>1, <1>3 DEF n
  <2>2. PICK j \in 1 .. Len(s) : s[j] = events[i] /\ Len(s) - j <= m - i
    BY <1>3, <2>1 DEF Holds
  <2>3. j - cut \in 1 .. Retention /\ cut + (j - cut) = j
    BY <1>1, <2>1, <2>2 DEF cut
  <2>4. t[j - cut] = events[i] /\ Len(t) - (j - cut) <= n - i
    BY <1>1, <1>2, <2>1, <2>2, <2>3 DEF cut
  <2> QED BY <1>2, <2>3, <2>4
<1>4. Holds(t, n, events, lost \cup {events[k] : k \in m + 1 .. n})
  BY <1>3 DEF Holds
<1> QED BY <1>2, <1>4 DEF t, n

PruneStages == {"pruning", "truncating", "rewriting"}

\* A step that leaves the audit log alone, of a request that is not at it.
LEMMA AuditUntouched ==
    ASSUME RequestInv, AuditInv, NEW r \in Requests,
           pc' = [pc EXCEPT ![r] = pc'[r]], pc[r] \notin PruneStages,
           pc'[r] \notin PruneStages, UNCHANGED audit_log
    PROVE  AuditInv'
<1>1. \A o \in Requests : pc'[o] # pc[o] =>
         pc[o] \notin PruneStages /\ pc'[o] \notin PruneStages
  BY DEF RequestInv
<1>2. \A o \in Requests : Pruning(o)' <=> Pruning(o)
  BY DEF Pruning, audit_log
<1> QED BY <1>1, <1>2 DEF AuditInv, PruneStages, audit_log

LEMMA AppendKeepsAudit ==
    ASSUME RequestInv, AuditInv, NEW r \in Requests, append_audit_event(r)
    PROVE  AuditInv'
<1> DEFINE n == Len(appended)
<1>1. /\ pc[r] = "audit" /\ pc'[r] = "pruning"
      /\ \A o \in Requests \ {r} : pc'[o] = pc[o]
      /\ audit' = Append(audit, r) /\ appended' = Append(appended, r)
      /\ UNCHANGED << lines, overwritten, unpruned >>
  BY DEF append_audit_event, Goes, RequestInv
<1>2. /\ audit \in Seq(Requests) /\ appended \in Seq(Requests)
      /\ audit' \in Seq(Requests) /\ appended' \in Seq(Requests)
      /\ n \in Nat /\ Len(appended') = n + 1
      /\ \A i \in 1 .. n : appended'[i] = appended[i]
  BY <1>1 DEF AuditInv
<1>3. /\ HoldsTail(audit', n + 1, appended', overwritten)
      /\ Holds(audit, n, appended, overwritten) =>
           Holds(audit', n + 1, appended', overwritten)
  BY <1>1, <1>2, AppendHolds DEF AuditInv
<1>4. ASSUME NEW o \in Requests, pc'[o] \in {"truncating", "rewriting"}
      PROVE  Pruning(o)'
  <2>1. Pruning(o) /\ o # r
    BY <1>1, <1>4 DEF AuditInv
  <2>2. lines[o].of \in Nat /\ \A i \in 1 .. lines[o].of : appended'[i] = appended[i]
    BY <1>2, <2>1 DEF Pruning
  <2>3. Holds(lines[o].kept, lines[o].of, appended', overwritten)
    BY <2>1, <2>2, HoldsMore DEF Pruning
  <2> QED BY <1>1, <1>2, <2>1, <2>3 DEF Pruning
<1> QED BY <1>1, <1>2, <1>3, <1>4 DEF AuditInv

LEMMA ReadKeepsAudit ==
    ASSUME RequestInv, AuditInv, NEW r \in Requests, PruneReads(r)
    PROVE  AuditInv'
<1>1. /\ pc[r] = "pruning" /\ pc'[r] \notin {"pruning", "rewriting"}
      /\ TooLong <=> pc'[r] = "truncating"
      /\ \A o \in Requests \ {r} : pc'[o] = pc[o] /\ lines'[o] = lines[o]
      /\ DOMAIN lines' = Requests
      /\ lines'[r] = [kept |-> audit, of |-> Len(appended)]
      /\ UNCHANGED << audit, appended, overwritten, unpruned >>
  BY DEF PruneReads, AfterAudit, Goes, Answered, RequestInv, AuditInv
<1>2. Len(audit) \in Nat /\ Retention \in Nat /\ Len(appended) \in Nat
  BY ServiceAssumption DEF AuditInv
<1>3. TooLong => Holds(audit, Len(appended), appended, overwritten)
  BY <1>2, LongHolds DEF AuditInv, TooLong
<1>4. ASSUME NEW o \in Requests, pc'[o] \in {"truncating", "rewriting"}
      PROVE  Pruning(o)'
  <2>1. CASE o = r
    BY <1>1, <1>2, <1>3, <1>4, <2>1 DEF Pruning, AuditInv, TooLong
  <2>2. CASE o # r
    BY <1>1, <1>4, <2>2 DEF Pruning, AuditInv
  <2> QED BY <2>1, <2>2
<1>5. (Len(audit) > Retention /\ ~unpruned) =>
         \E o \in Requests : pc'[o] \in {"pruning", "truncating"}
  BY <1>1 DEF TooLong
<1>6. (\A o \in Requests : pc'[o] # "rewriting") =>
         \A o \in Requests : pc[o] # "rewriting"
  BY <1>1
<1> QED BY <1>1, <1>4, <1>5, <1>6 DEF AuditInv

LEMMA TruncateKeepsAudit ==
    ASSUME RequestInv, AuditInv, NEW r \in Requests, PruneTruncates(r)
    PROVE  AuditInv'
<1>1. /\ pc[r] = "truncating" /\ pc'[r] = "rewriting"
      /\ \A o \in Requests \ {r} : pc'[o] = pc[o]
      /\ audit' = << >> /\ UNCHANGED << lines, appended, overwritten, unpruned >>
  BY DEF PruneTruncates, Goes, RequestInv
<1>2. /\ audit' \in Seq(Requests) /\ Len(audit') = 0 /\ ~(Len(audit') > Retention)
  BY <1>1, ServiceAssumption
<1>3. HoldsTail(audit', Len(appended'), appended', overwritten')
  BY <1>2 DEF HoldsTail, AuditInv
<1>4. \A o \in Requests : pc'[o] \in {"truncating", "rewriting"} => Pruning(o)'
  BY <1>1 DEF Pruning, AuditInv
<1> QED BY <1>1, <1>2, <1>3, <1>4 DEF AuditInv

LEMMA RewriteKeepsAudit ==
    ASSUME RequestInv, AuditInv, NEW r \in Requests, PruneRewrites(r)
    PROVE  AuditInv'
<1> DEFINE n == Len(appended)
<1>1. /\ pc[r] = "rewriting" /\ pc'[r] \notin PruneStages
      /\ \A o \in Requests \ {r} : pc'[o] = pc[o]
      /\ audit' = Kept(lines[r].kept)
      /\ overwritten' = overwritten \cup {appended[i] : i \in lines[r].of + 1 .. n}
      /\ UNCHANGED << lines, appended >>
  BY DEF PruneRewrites, AfterAudit, Goes, Answered, RequestInv, PruneStages
<1>2. Pruning(r) /\ appended \in Seq(Requests)
  BY <1>1 DEF AuditInv
<1>3. /\ audit' \in Seq(Requests) /\ Len(audit') = Retention
      /\ Holds(audit', n, appended, overwritten')
  BY <1>1, <1>2, KeptHolds DEF Pruning
<1>4. HoldsTail(audit', n, appended, overwritten')
  BY <1>3, HoldsIsTail
<1>5. ASSUME NEW o \in Requests, pc'[o] \in {"truncating", "rewriting"}
      PROVE  Pruning(o)'
  <2>1. Pruning(o) /\ o # r
    BY <1>1, <1>5 DEF AuditInv, PruneStages
  <2>2. Holds(lines[o].kept, lines[o].of, appended, overwritten')
    <3>1. lines[o].of \in Nat /\ overwritten \subseteq overwritten'
      BY <1>1, <2>1 DEF Pruning
    <3> QED BY <2>1, <3>1, HoldsMore DEF Pruning
  <2> QED BY <1>1, <2>1, <2>2 DEF Pruning
<1>6. ~(Len(audit') > Retention)
  BY <1>3, ServiceAssumption
<1> QED BY <1>1, <1>2, <1>3, <1>4, <1>5, <1>6 DEF AuditInv

LEMMA FailKeepsAudit ==
    ASSUME RequestInv, AuditInv, NEW r \in Requests, AuditFails(r)
    PROVE  AuditInv'
<1> DEFINE n == Len(appended)
<1>1. /\ pc[r] \in PruneStages \cup {"audit"} /\ pc'[r] = "answered"
      /\ \A o \in Requests \ {r} : pc'[o] = pc[o]
      /\ unpruned' = (unpruned \/ pc[r] \in {"pruning", "truncating"})
      /\ overwritten' = IF pc[r] = "rewriting"
                        THEN {appended[i] : i \in DOMAIN appended} ELSE overwritten
      /\ UNCHANGED << audit, lines, appended >>
  BY DEF AuditFails, Answered, RequestInv, PruneStages
<1>2. appended \in Seq(Requests) /\ n \in Nat /\ DOMAIN appended = 1 .. n
  BY DEF AuditInv
<1>3. ASSUME NEW s, NEW m \in Nat, m <= n
      PROVE  /\ Holds(s, m, appended, overwritten) =>
                  Holds(s, m, appended, overwritten')
             /\ HoldsTail(s, m, appended, overwritten) =>
                  HoldsTail(s, m, appended, overwritten')
  BY <1>1, <1>2, <1>3 DEF Holds, HoldsTail
<1>4. ASSUME NEW o \in Requests, pc'[o] \in {"truncating", "rewriting"}
      PROVE  Pruning(o)'
  <2>1. Pruning(o)
    BY <1>1, <1>4 DEF AuditInv
  <2> QED BY <1>1, <1>3, <2>1 DEF Pruning
<1>5. pc[r] = "rewriting" => Holds(audit, n, appended, overwritten')
  BY <1>1, <1>2 DEF Holds
<1>6. (\A o \in Requests : pc'[o] # "rewriting") =>
         Holds(audit, n, appended, overwritten')
  BY <1>1, <1>2, <1>3, <1>5 DEF AuditInv
<1>7. HoldsTail(audit, n, appended, overwritten')
  BY <1>2, <1>3 DEF AuditInv
<1>8. (Len(audit) > Retention /\ ~unpruned') =>
         \E o \in Requests : pc'[o] \in {"pruning", "truncating"}
  BY <1>1 DEF AuditInv
<1> QED BY <1>1, <1>2, <1>4, <1>6, <1>7, <1>8 DEF AuditInv

LEMMA AuditStep ==
    ASSUME RequestInv, AuditInv, NEW r \in Requests,
           Arrive(r) \/ Step(r) \/ Timeout(r)
    PROVE  AuditInv'
<1>1. CASE append_audit_event(r)
  BY <1>1, AppendKeepsAudit
<1>2. CASE AuditFails(r)
  BY <1>2, FailKeepsAudit
<1>3. CASE PruneReads(r)
  BY <1>3, ReadKeepsAudit
<1>4. CASE PruneTruncates(r)
  BY <1>4, TruncateKeepsAudit
<1>5. CASE PruneRewrites(r)
  BY <1>5, RewriteKeepsAudit
<1>6. CASE \/ Arrive(r) \/ Limit(r) \/ Begin(r) \/ Reply(r) \/ Acquire(r)
           \/ Run(r) \/ RunFails(r) \/ CheckBudget(r) \/ RejectOverBudget(r)
           \/ mark_maintenance_started(r) \/ mark_maintenance_finished(r)
           \/ Timeout(r)
  <2> DEFINE Away == /\ pc[r] \notin PruneStages /\ pc'[r] \notin PruneStages
                     /\ UNCHANGED audit_log
  <2>1. pc \in [Requests -> Stages] /\ pc' = [pc EXCEPT ![r] = pc'[r]]
    <3>1. PICK to \in Stages : Moves(r, to)
      BY RequestMoves
    <3> QED BY <3>1 DEF Moves, RequestInv
  <2>2. Away
    <3> USE <2>1 DEF Goes, Answered, PruneStages
    <3>1. CASE Arrive(r)
      BY <3>1 DEF Arrive
    <3>2. CASE Limit(r)
      BY <3>2, LimitMoves
    <3>3. CASE Begin(r)
      BY <3>3 DEF Begin, FirstAwait
    <3>4. CASE Reply(r)
      BY <3>4 DEF Reply
    <3>5. CASE Acquire(r)
      BY <3>5 DEF Acquire
    <3>6. CASE Run(r)
      BY <3>6 DEF Run
    <3>7. CASE RunFails(r)
      BY <3>7 DEF RunFails
    <3>8. CASE CheckBudget(r)
      BY <3>8 DEF CheckBudget
    <3>9. CASE RejectOverBudget(r)
      BY <3>9 DEF RejectOverBudget
    <3>10. CASE mark_maintenance_started(r)
      BY <3>10 DEF mark_maintenance_started
    <3>11. CASE mark_maintenance_finished(r)
      BY <3>11 DEF mark_maintenance_finished
    <3>12. CASE Timeout(r)
      BY <3>12 DEF Timeout, MayTimeOut, AtStatus
    <3> HIDE DEF Away
    <3> QED BY <1>6, <3>1, <3>2, <3>3, <3>4, <3>5, <3>6, <3>7, <3>8, <3>9,
               <3>10, <3>11, <3>12
  <2> QED BY <2>1, <2>2, AuditUntouched
<1> QED BY <1>1, <1>2, <1>3, <1>4, <1>5, <1>6 DEF Step

\* The audit log keeps its retention and loses a recent event only to a prune
\* that had read the file before it, in every interleaving of appends and
\* prunes and for every retention.
THEOREM AuditSoundAlways == Spec => []AuditSound
<1>1. Init => AuditInv
  <2> SUFFICES ASSUME Init PROVE AuditInv
    OBVIOUS
  <2>1. /\ audit = << >> /\ appended = << >> /\ DOMAIN lines = Requests
        /\ \A r \in Requests : pc[r] = "new"
    BY DEF Init
  <2>2. Len(audit) = 0 /\ Len(appended) = 0 /\ ~(Len(audit) > Retention)
    BY <2>1, ServiceAssumption
  <2> QED BY <2>1, <2>2 DEF AuditInv, Holds, HoldsTail
<1>2. RequestInv /\ AuditInv /\ [Next]_vars => AuditInv'
  <2> SUFFICES ASSUME RequestInv, AuditInv, [Next]_vars PROVE AuditInv'
    OBVIOUS
  <2>1. ASSUME NEW r \in Requests, Arrive(r) \/ Step(r) \/ Timeout(r)
        PROVE  AuditInv'
    BY <2>1, AuditStep
  <2>2. CASE Tick \/ Signal \/ Close \/ UNCHANGED vars
    BY <2>2, OthersKeepRequests DEF AuditInv, Pruning, audit_log
  <2> QED BY <2>1, <2>2 DEF Next
<1>3. AuditInv => AuditSound
  <2> SUFFICES ASSUME AuditInv PROVE AuditRetained /\ AuditLostOnlyToPrune
    BY DEF AuditSound
  <2>1. /\ audit \in Seq(Requests) /\ appended \in Seq(Requests)
        /\ Retention \in Nat
    BY ServiceAssumption DEF AuditInv
  <2>2. AuditRetained
    BY <2>1 DEF AuditRetained, Auditing, AuditInv
  <2>3. AuditLostOnlyToPrune
    BY <2>1 DEF AuditLostOnlyToPrune, AuditInv, Holds
  <2> QED BY <2>2, <2>3
<1> QED BY <1>1, <1>2, <1>3, RequestInvInit, RequestInvStep, PTL DEF Spec
=============================================================================
