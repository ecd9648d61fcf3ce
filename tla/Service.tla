------------------------------- MODULE Service ------------------------------
(***************************************************************************)
(* The HTTP service (crates/api/src/lib.rs): concurrent requests on worker *)
(* threads, the rate limit and the roles, the database lock, the           *)
(* maintenance budget and status, the audit log, the request timeout, and  *)
(* the shutdown of the server.                                             *)
(*                                                                         *)
(* A handler runs without interruption between two awaits, except that     *)
(* handlers on other threads run beside it.  A request is dropped by its   *)
(* timeout only at an await that cannot go on: waiting for the database    *)
(* lock, or for the status lock when another request is at it.             *)
(***************************************************************************)
EXTENDS Integers, Sequences, FiniteSets

CONSTANTS
    Requests,
    None,
    Server,             \* the task that shuts the server down
    Workloads,          \* handler and API key of each request (key None: it is
                        \* not sent), ticks of the clock, whether a signal comes
    Capacity, Rate,     \* of a token bucket: its size, tokens per tick
    Budget,             \* max_node_count and max_edge_count of maintenance
    InitialSize,        \* nodes and edges in the store at the start
    MaxSize,            \* bound on either
    Retention,          \* lines of the audit log that are kept
    Faults              \* "operation", "audit_write", "timeout"

ASSUME ServiceAssumption ==
    /\ Capacity \in Nat /\ Rate \in Nat
    /\ Budget \in [{"nodes", "edges"} -> Nat] /\ Retention \in Nat \ {0}
    /\ MaxSize \in Nat /\ InitialSize \in [{"nodes", "edges"} -> 0 .. MaxSize]
    /\ Server \notin Requests /\ None \notin Requests
    /\ None \notin Nat /\ None \notin [tokens : Nat, last : Nat]

VARIABLES
    load,               \* the workload
    pc, answer,
    \* --- rate limit
    clock, sampled, buckets,
    \* --- the database
    waiting,            \* tasks in line for the lock, first come first served
    holders,            \* tasks that hold it
    size, applied,      \* nodes and edges; requests whose change took effect
    \* --- maintenance status, audit log, shutdown
    in_progress,
    audit, lines,       \* the file; what each prune has read of it
    ready, server,
    \* --- history
    admitted, regressed,    \* per key: requests let in; ticks taken back
    checked, ran_over,  \* applied at the budget check; what there
                        \* was too much of when the operation ran
    overlapped, abandoned,  \* maintenance side by side; cut off in progress
    appended, overwritten,  \* audit events in order; those a prune took away
    unpruned            \* the last prune failed before it wrote

limiter == << clock, sampled, buckets, admitted, regressed >>
database == << waiting, holders, size, applied >>
maintenance == << in_progress, checked, ran_over, overlapped, abandoned >>
audit_log == << audit, lines, appended, overwritten, unpruned >>
lifecycle == << ready, server >>
vars == << load, pc, answer, limiter, database, maintenance, audit_log,
           lifecycle >>

-----------------------------------------------------------------------------
(* Handlers: what each asks of the steps below                             *)

\* action: for the authorizer; parses: may refuse before any lock; access: to
\* the database; changes: the graph, the sessions or the roles; adds, removes:
\* what there may be more or fewer of after it; keeps: holds the lock while it
\* notes that the operation failed.
Kinds == {"nodes", "edges"}
Reading ==
    [action |-> "Read", parses |-> FALSE, budget |-> FALSE, access |-> "read",
     changes |-> FALSE, adds |-> {}, removes |-> {}, audited |-> FALSE,
     keeps |-> FALSE]
Writing == [Reading EXCEPT !.action = "Write", !.access = "write",
                           !.changes = TRUE, !.audited = TRUE]
Maintaining == [Reading EXCEPT !.action = "Maintain", !.access = "write",
                               !.budget = TRUE, !.audited = TRUE, !.keeps = TRUE]
Administering == [Writing EXCEPT !.action = "Maintain"]
Inspecting == [Reading EXCEPT !.action = "Maintain"]

health_handler == [Reading EXCEPT !.action = None, !.access = "none"]
readiness_handler == [Reading EXCEPT !.action = None, !.access = "none"]
metrics_handler == [Reading EXCEPT !.action = None, !.parses = TRUE]

create_node_handler == [Writing EXCEPT !.adds = {"nodes"}]
update_node_handler == [Writing EXCEPT !.parses = TRUE, !.adds = {"nodes"}]
get_node_handler == [Reading EXCEPT !.parses = TRUE]
delete_node_handler == [Writing EXCEPT !.parses = TRUE, !.removes = Kinds]
create_edge_handler == [Writing EXCEPT !.adds = {"edges"}]
update_edge_handler == [Writing EXCEPT !.parses = TRUE, !.adds = {"edges"}]
get_edge_handler == [Reading EXCEPT !.parses = TRUE]
delete_edge_handler == [Writing EXCEPT !.parses = TRUE, !.removes = {"edges"}]
query_handler == Reading
query_stream_handler == Reading

begin_transaction_handler == Writing
list_transactions_handler == Reading
transaction_summary_handler == [Reading EXCEPT !.parses = TRUE]
stage_transaction_operation_handler == [Writing EXCEPT !.parses = TRUE]
transaction_query_handler == [Reading EXCEPT !.parses = TRUE]
transaction_query_stream_handler == [Reading EXCEPT !.parses = TRUE]
commit_transaction_handler ==
    [Writing EXCEPT !.parses = TRUE, !.adds = Kinds, !.removes = Kinds]
rollback_transaction_handler == [Writing EXCEPT !.parses = TRUE]

compact_handler == Maintaining
backup_handler == [Maintaining EXCEPT !.access = "read", !.keeps = FALSE]
restore_handler ==
    [Maintaining EXCEPT !.changes = TRUE, !.adds = Kinds, !.removes = Kinds]
repair_handler == restore_handler
rebuild_indexes_handler == Maintaining

maintenance_status_handler == [Inspecting EXCEPT !.access = "none"]
integrity_handler == Inspecting
audit_export_handler ==
    [Inspecting EXCEPT !.access = "none", !.parses = TRUE, !.audited = TRUE]
replication_status_handler == Inspecting
replication_history_handler == Inspecting
configure_leader_handler == Administering
configure_follower_handler == Administering
register_replica_handler == Administering
replica_ack_handler == Administering
apply_replication_handler ==
    [Administering EXCEPT !.adds = Kinds, !.removes = Kinds]
cluster_topology_handler == Inspecting
mark_node_health_handler == Administering
promote_node_handler == Administering

\* The router: one handler for each route.
Handlers ==
    {health_handler, readiness_handler, metrics_handler, create_node_handler,
     update_node_handler, get_node_handler, delete_node_handler,
     create_edge_handler, update_edge_handler, get_edge_handler,
     delete_edge_handler, query_handler, query_stream_handler,
     begin_transaction_handler, list_transactions_handler,
     transaction_summary_handler, stage_transaction_operation_handler,
     transaction_query_handler, transaction_query_stream_handler,
     commit_transaction_handler, rollback_transaction_handler, compact_handler,
     backup_handler, restore_handler, repair_handler, rebuild_indexes_handler,
     maintenance_status_handler, integrity_handler, audit_export_handler,
     replication_status_handler, replication_history_handler,
     configure_leader_handler, configure_follower_handler,
     register_replica_handler, replica_ack_handler, apply_replication_handler,
     cluster_topology_handler, mark_node_health_handler, promote_node_handler}

\* A request is served by the handler of its route.
ASSUME RouterAssumption ==
    \A w \in Workloads, r \in Requests : w.asks[r].handler \in Handlers

Handler(r) == load.asks[r].handler
Key(r) == load.asks[r].key

-----------------------------------------------------------------------------
(* Admission                                                               *)

\* ApiKeyAuthenticator::authenticate: the keys of the three roles.
Roles == {"Reader", "Writer", "Admin"}

is_allowed(role, action) ==
    \/ role = "Admin"
    \/ role = "Writer" /\ action \in {"Read", "Write"}
    \/ role = "Reader" /\ action = "Read"

Answered(r, code) ==
    /\ pc' = [pc EXCEPT ![r] = "answered"]
    /\ answer' = [answer EXCEPT ![r] = code]
Goes(r, to) ==
    /\ pc' = [pc EXCEPT ![r] = to]
    /\ UNCHANGED answer

\* A request arrives; a handler that needs no key goes on, an unknown key is
\* refused, for the others the limiter reads the clock.
Arrive(r) ==
    /\ server # "closed"
    /\ pc[r] = "new"
    /\ Key(r) # None
    /\ IF Handler(r).action = None THEN Goes(r, "admitted") /\ UNCHANGED sampled
       ELSE IF Key(r) \notin Roles THEN Answered(r, 401) /\ UNCHANGED sampled
       ELSE Goes(r, "limited") /\ sampled' = [sampled EXCEPT ![r] = clock]
    /\ UNCHANGED << load, clock, buckets, admitted, regressed, waiting, holders,
                    size, applied, maintenance, audit_log, lifecycle >>

Least(m, n) == IF m < n THEN m ELSE n

\* Mutant: the time of the refill is not noted.
RefilledAgain(bucket, now) ==
    [bucket EXCEPT !.tokens = Least(@ + Rate * (IF now > bucket.last THEN now - bucket.last ELSE 0),
                                    Capacity)]

\* enforce_rate_limit: elapsed time saturates at 0, but the bucket takes the
\* caller's time even if it is the older one.
Refilled(bucket, now) ==
    LET elapsed == IF now > bucket.last THEN now - bucket.last ELSE 0
    IN  [tokens |-> Least(bucket.tokens + Rate * elapsed, Capacity), last |-> now]

\* enforce_rate_limit under the bucket's lock, then the role.
Limit(r) ==
    /\ pc[r] = "limited"
    /\ LET old == IF buckets[Key(r)] = None
                  THEN [tokens |-> Capacity, last |-> sampled[r]]
                  ELSE buckets[Key(r)]
           new == Refilled(old, sampled[r])
           back == IF old.last > sampled[r] THEN old.last - sampled[r] ELSE 0
       IN  /\ regressed' = [regressed EXCEPT ![Key(r)] = @ + back]
           /\ IF new.tokens < 1
              THEN /\ buckets' = [buckets EXCEPT ![Key(r)] = new]
                   /\ Answered(r, 429)
                   /\ UNCHANGED admitted
              ELSE /\ buckets' = [buckets EXCEPT ![Key(r)] =
                                    [new EXCEPT !.tokens = @ - 1]]
                   /\ admitted' = [admitted EXCEPT ![Key(r)] = @ + 1]
                   /\ IF is_allowed(Key(r), Handler(r).action)
                      THEN Goes(r, "admitted") ELSE Answered(r, 403)
    /\ UNCHANGED << load, clock, sampled, database, maintenance, audit_log,
                    lifecycle >>

Tick ==
    /\ clock < load.ticks
    /\ clock' = clock + 1
    /\ UNCHANGED << load, pc, answer, sampled, buckets, admitted, regressed,
                    database, maintenance, audit_log, lifecycle >>

-----------------------------------------------------------------------------
(* The database lock                                                       *)

\* What a task in line wants: the budget check only reads.
Access(t) ==
    IF t = Server THEN "write"
    ELSE IF pc[t] = "check_wait" THEN "read" ELSE Handler(t).access
HolderAccess(t) ==
    IF t = Server THEN "write"
    ELSE IF pc[t] = "checking" THEN "read" ELSE Handler(t).access

\* tokio's RwLock: the first in line, if it is compatible with the holders.
Grantable(t) ==
    /\ waiting # << >>
    /\ Head(waiting) = t
    /\ IF Access(t) = "write" THEN holders = {}
       ELSE \A h \in holders : HolderAccess(h) = "read"

FirstAwait(r) == IF Handler(r).budget THEN "check_wait"
            ELSE IF Handler(r).access # "none" THEN "wait"
            ELSE IF Handler(r).audited THEN "audit" ELSE "reply"

\* From the admission to the first await, or a refused parameter.
Begin(r) ==
    /\ pc[r] = "admitted"
    /\ \/ Handler(r).parses /\ Answered(r, 400) /\ UNCHANGED waiting
       \/ /\ Goes(r, FirstAwait(r))
          /\ waiting' = IF FirstAwait(r) \in {"check_wait", "wait"}
                        THEN Append(waiting, r) ELSE waiting
    /\ UNCHANGED << load, limiter, holders, size, applied,
                    maintenance, audit_log, lifecycle >>

Reply(r) ==
    /\ pc[r] = "reply"
    /\ Answered(r, 200)
    /\ UNCHANGED << load, limiter, database, maintenance, audit_log, lifecycle >>

Acquire(r) ==
    /\ pc[r] \in {"check_wait", "wait"}
    /\ Grantable(r)
    /\ waiting' = Tail(waiting)
    /\ holders' = holders \cup {r}
    /\ Goes(r, IF pc[r] = "check_wait" THEN "checking" ELSE "running")
    /\ UNCHANGED << load, limiter, size, applied, maintenance,
                    audit_log, lifecycle >>

\* Mutant: the failure of a maintenance operation leaves the lock taken.
HoldersAfterFailure(r) == IF pc[r] = "failing" THEN holders ELSE holders \ {r}

Released(r) == holders \ {r}

\* A change of the database: counts move only where the handler moves them.
Effect(r) ==
    /\ applied' = IF Handler(r).changes THEN applied \cup {r} ELSE applied
    /\ size' \in [Kinds -> 0 .. MaxSize]
    /\ \A k \in Kinds : /\ size'[k] > size[k] => k \in Handler(r).adds
                        /\ size'[k] < size[k] => k \in Handler(r).removes

\* What there is more of than maintenance allows.
Exceeded == {k \in Kinds : size[k] > Budget[k]}

NotesOverrun(r) ==
    ran_over' = [ran_over EXCEPT ![r] = IF Handler(r).budget THEN Exceeded ELSE {}]

\* The operation under the lock, with success.  The guard is dropped before
\* the audit.
Run(r) ==
    /\ pc[r] = "running"
    /\ Effect(r)
    /\ NotesOverrun(r)
    /\ holders' = Released(r)
    /\ IF Handler(r).audited THEN Goes(r, "audit") ELSE Answered(r, 200)
    /\ UNCHANGED << load, limiter, waiting, in_progress, checked,
                    overlapped, abandoned, audit_log, lifecycle >>

\* The operation returns an error, before it has changed anything or after the
\* engine has committed and the metadata file fails: a maintenance handler
\* notes it first, most of them with the guard still in hand.
RunFails(r) ==
    /\ "operation" \in Faults
    /\ pc[r] = "running"
    /\ Effect(r) \/ UNCHANGED << size, applied >>
    /\ NotesOverrun(r)
    /\ holders' = IF Handler(r).budget /\ Handler(r).keeps THEN holders
                  ELSE Released(r)
    /\ IF Handler(r).budget THEN Goes(r, "failing") ELSE Answered(r, 500)
    /\ UNCHANGED << load, limiter, waiting, in_progress, checked,
                    overlapped, abandoned, audit_log, lifecycle >>

-----------------------------------------------------------------------------
(* Maintenance                                                             *)

\* Between the two status updates.
Underway == {"wait", "running", "failing", "audit", "pruning", "truncating",
             "rewriting", "finishing"}
Marked == {r \in Requests : Handler(r).budget /\ pc[r] \in Underway}

\* Mutant: only the nodes are counted.
OverBudgetInNodes == size["nodes"] > Budget["nodes"]

OverBudget ==
    size["nodes"] > Budget["nodes"] \/ size["edges"] > Budget["edges"]

\* enforce_maintenance_budget, the part under the read lock.
CheckBudget(r) ==
    /\ pc[r] = "checking"
    /\ holders' = Released(r)
    /\ checked' = [checked EXCEPT ![r] = applied]
    /\ Goes(r, IF OverBudget THEN "rejecting" ELSE "starting")
    /\ UNCHANGED << load, limiter, waiting, size, applied,
                    in_progress, ran_over, overlapped, abandoned, audit_log,
                    lifecycle >>

\* The rejection overwrites the status like an operation that has ended.
RejectOverBudget(r) ==
    /\ pc[r] = "rejecting"
    /\ in_progress' = FALSE
    /\ overlapped' = (overlapped \/ Marked # {})
    /\ Answered(r, 422)
    /\ UNCHANGED << load, limiter, database, checked, ran_over, abandoned,
                    audit_log, lifecycle >>

mark_maintenance_started(r) ==
    /\ pc[r] = "starting"
    /\ in_progress' = TRUE
    /\ overlapped' = (overlapped \/ Marked # {})
    /\ Goes(r, "wait")
    /\ waiting' = Append(waiting, r)
    /\ UNCHANGED << load, limiter, holders, size, applied,
                    checked, ran_over, abandoned, audit_log, lifecycle >>

\* Mutant: a failed operation is never marked finished.
FinishedIfSuccessful(r) == IF pc[r] = "failing" THEN in_progress ELSE FALSE

StatusAfter(r) == FALSE

mark_maintenance_finished(r) ==
    /\ pc[r] \in {"failing", "finishing"}
    /\ in_progress' = StatusAfter(r)
    /\ holders' = Released(r)
    /\ Answered(r, IF pc[r] = "failing" THEN 500 ELSE 200)
    /\ UNCHANGED << load, limiter, waiting, size, applied,
                    checked, ran_over, overlapped, abandoned, audit_log,
                    lifecycle >>

-----------------------------------------------------------------------------
(* The audit log                                                           *)

\* append_audit_event.
append_audit_event(r) ==
    /\ pc[r] = "audit"
    /\ audit' = Append(audit, r)
    /\ appended' = Append(appended, r)
    /\ Goes(r, "pruning")
    /\ UNCHANGED << load, limiter, database, maintenance, lines, overwritten,
                    unpruned, lifecycle >>

\* The file cannot be written or read: the change stays, the caller sees an
\* error, and a maintenance status stays in progress.  A prune that fails
\* leaves the file as long as it is, or empty.
AuditFails(r) ==
    /\ "audit_write" \in Faults
    /\ pc[r] \in {"audit", "pruning", "truncating", "rewriting"}
    /\ abandoned' = (abandoned \/ Handler(r).budget)
    /\ unpruned' = (unpruned \/ pc[r] \in {"pruning", "truncating"})
    /\ overwritten' = IF pc[r] = "rewriting"
                      THEN {appended[i] : i \in DOMAIN appended} ELSE overwritten
    /\ Answered(r, 500)
    /\ UNCHANGED << load, limiter, database, in_progress, checked, ran_over,
                    overlapped, audit, lines, appended, lifecycle >>

AfterAudit(r) ==
    IF Handler(r).budget THEN Goes(r, "finishing") ELSE Answered(r, 200)

\* Mutant: one line more than the retention allows.
TooLongByTwo == Len(audit) > Retention + 1

TooLong == Len(audit) > Retention

\* prune_audit_log reads the file, and is done if it is short enough.
PruneReads(r) ==
    /\ pc[r] = "pruning"
    /\ lines' = [lines EXCEPT ![r] = [kept |-> audit, of |-> Len(appended)]]
    /\ IF TooLong THEN Goes(r, "truncating") ELSE AfterAudit(r)
    /\ UNCHANGED << load, limiter, database, maintenance, audit, appended,
                    overwritten, unpruned, lifecycle >>

\* fs::write opens the file empty, then writes the lines it has kept.
PruneTruncates(r) ==
    /\ pc[r] = "truncating"
    /\ audit' = << >>
    /\ Goes(r, "rewriting")
    /\ UNCHANGED << load, limiter, database, maintenance, lines, appended,
                    overwritten, unpruned, lifecycle >>

\* Mutant: the oldest lines are kept instead of the newest.
KeptOldest(s) == SubSeq(s, 1, Retention)

Kept(s) == SubSeq(s, Len(s) - Retention + 1, Len(s))

PruneRewrites(r) ==
    /\ pc[r] = "rewriting"
    /\ audit' = Kept(lines[r].kept)
    /\ overwritten' = overwritten \cup
         {appended[i] : i \in lines[r].of + 1 .. Len(appended)}
    /\ unpruned' = FALSE
    /\ AfterAudit(r)
    /\ UNCHANGED << load, limiter, database, maintenance, lines, appended,
                    lifecycle >>

-----------------------------------------------------------------------------
(* Timeout and shutdown                                                    *)

AtStatus(r) == pc[r] \in {"rejecting", "starting", "failing", "finishing"}

\* Mutant: the timeout also ends a handler that runs.
MayTimeOutAnywhere(r) == pc[r] \in {"check_wait", "wait", "running", "audit"}

\* An await that cannot go on at once.
MayTimeOut(r) ==
    \/ pc[r] \in {"check_wait", "wait"} /\ ~Grantable(r)
    \/ AtStatus(r) /\ \E o \in Requests \ {r} : AtStatus(o)

\* Mutant: a handler that is dropped stays in the line for the lock.
LineUnchanged(r) == waiting

LineWithout(r) == SelectSeq(waiting, LAMBDA t : t # r)

\* request_timeout_middleware: the handler is dropped with its place in the
\* line and its guards.
Timeout(r) ==
    /\ "timeout" \in Faults
    /\ MayTimeOut(r)
    /\ waiting' = LineWithout(r)
    /\ holders' = Released(r)
    /\ abandoned' = (abandoned \/ r \in Marked)
    /\ Answered(r, 408)
    /\ UNCHANGED << load, limiter, size, applied, in_progress,
                    checked, ran_over, overlapped, audit_log, lifecycle >>

\* shutdown_signal: readiness goes, the task waits for the lock; requests are
\* still accepted.
Signal ==
    /\ load.signal
    /\ server = "serving"
    /\ server' = "draining"
    /\ ready' = FALSE
    /\ waiting' = Append(waiting, Server)
    /\ UNCHANGED << load, pc, answer, limiter, holders, size, applied,
                    maintenance, audit_log >>

\* graceful_shutdown under the lock; after it no request is accepted.
Close ==
    /\ server = "draining"
    /\ Grantable(Server)
    /\ waiting' = Tail(waiting)
    /\ server' = "closed"
    /\ UNCHANGED << load, pc, answer, limiter, holders, size, applied,
                    maintenance, audit_log, ready >>

-----------------------------------------------------------------------------
Init ==
    /\ load \in Workloads
    /\ pc = [r \in Requests |-> "new"]
    /\ answer = [r \in Requests |-> None]
    /\ clock = 0
    /\ sampled = [r \in Requests |-> 0]
    /\ buckets = [k \in Roles |-> None]
    /\ waiting = << >>
    /\ holders = {}
    /\ size = InitialSize
    /\ applied = {}
    /\ in_progress = FALSE
    /\ audit = << >>
    /\ lines = [r \in Requests |-> None]
    /\ ready = TRUE
    /\ server = "serving"
    /\ admitted = [k \in Roles |-> 0]
    /\ regressed = [k \in Roles |-> 0]
    /\ checked = [r \in Requests |-> None]
    /\ ran_over = [r \in Requests |-> {}]
    /\ overlapped = FALSE
    /\ abandoned = FALSE
    /\ appended = << >>
    /\ overwritten = {}
    /\ unpruned = FALSE

\* What a request does once it is there.
Step(r) ==
    \/ Limit(r) \/ Begin(r) \/ Reply(r) \/ Acquire(r)
    \/ Run(r) \/ RunFails(r)
    \/ CheckBudget(r) \/ RejectOverBudget(r)
    \/ mark_maintenance_started(r) \/ mark_maintenance_finished(r)
    \/ append_audit_event(r) \/ AuditFails(r)
    \/ PruneReads(r) \/ PruneTruncates(r) \/ PruneRewrites(r)

Next ==
    \/ \E r \in Requests : Arrive(r) \/ Step(r) \/ Timeout(r)
    \/ Tick \/ Signal \/ Close

\* Worker threads run every handler that can go on; clients, the clock, the
\* timeout and the signal owe nothing.
Fairness == (\A r \in Requests : WF_vars(Step(r))) /\ WF_vars(Close)

Spec == Init /\ [][Next]_vars /\ Fairness

-----------------------------------------------------------------------------
(* Properties                                                              *)

\* A request that was answered with a timeout changed nothing, unless it is a
\* maintenance operation, which can be cut off after its work is done.
TimedOutChangedNothing ==
    \A r \in Requests :
        answer[r] = 408 /\ ~Handler(r).budget => r \notin applied

\* The maintenance status tells the truth: in progress exactly while an
\* operation is, unless two overlapped or one was cut off between its two
\* status updates.
StatusTruthful ==
    (~overlapped /\ ~abandoned) => (in_progress <=> Marked # {})

\* An operation runs with more nodes or edges than the maintenance budget allows
\* only if another request that adds such slipped in between its check and its
\* turn for the lock, be it answered with success or with an error.
WithinBudget ==
    \A r \in Requests : \A k \in ran_over[r] :
        \E o \in applied \ checked[r] : o # r /\ k \in Handler(o).adds

Auditing == {r \in Requests : pc[r] \in {"pruning", "truncating", "rewriting"}}

\* When no request is at it, the audit log is within its retention, unless the
\* last prune failed.
AuditRetained == (Auditing = {} /\ ~unpruned) => Len(audit) <= Retention

\* A recent event is missing only while a prune rewrites the file, because a
\* prune had read the file before the event was appended, or because a prune
\* failed with the file empty.
AuditLostOnlyToPrune ==
    (\A r \in Requests : pc[r] # "rewriting") =>
        \A i \in DOMAIN appended :
            (i > Len(appended) - Retention /\ appended[i] \notin overwritten) =>
                \E j \in DOMAIN audit : audit[j] = appended[i]

\* append_audit_event and prune_audit_log of concurrent requests keep the last
\* Retention events and no more.
AuditSound == AuditRetained /\ AuditLostOnlyToPrune

\* A key is never served more than its bucket and the time since allow, plus
\* the time that was counted twice because an older sample came last.
RateBounded ==
    \A k \in Roles :
        admitted[k] <= Capacity + Rate * (clock + regressed[k])

\* Every request is answered: no await waits for ever.
EveryRequestAnswered ==
    \A r \in Requests : (pc[r] # "new") ~> (pc[r] = "answered")

\* A shutdown signal closes the server.
ShutdownCompletes == (server = "draining") ~> (server = "closed")

\* Nobody waits for ever on the database lock, on the status lock or on a
\* handler that its timeout has dropped, the shutdown included.
Responsive == EveryRequestAnswered /\ ShutdownCompletes
=============================================================================
