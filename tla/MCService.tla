------------------------------ MODULE MCService -----------------------------
(* Workloads: every handler beside a write, and triples that compete for    *)
(* the lock, the status, the audit log, the tokens of a key or the shutdown. *)
EXTENDS Service

Ask(handler, key) == [handler |-> handler, key |-> key]
Nobody == Ask(health_handler, None)
Load(asks, ticks, signal) == [asks |-> asks, ticks |-> ticks, signal |-> signal]

\* One more node, or one more edge, is too many.
MCBudget == [k \in Kinds |-> 1]
MCInitialSize == MCBudget

MCWorkloads ==
    {Load(<<Ask(w, "Writer"), Ask(h, "Admin"), Nobody>>, 0, TRUE) :
        w \in {create_node_handler, commit_transaction_handler}, h \in Handlers}
    \cup
    {Load(<<Ask(query_handler, "Reader"), Ask(compact_handler, "Admin"),
            Ask(backup_handler, "Admin")>>, 1, FALSE),
     Load(<<Ask(restore_handler, "Admin"), Ask(backup_handler, "Admin"),
            Nobody>>, 1, FALSE),
     Load(<<Ask(create_node_handler, "Reader"), Ask(query_handler, "Reader"),
            Ask(query_handler, "Reader")>>, 2, FALSE),
     Load(<<Ask(create_node_handler, "Writer"), Ask(create_edge_handler, "Admin"),
            Ask(query_handler, "Reader")>>, 0, FALSE),
     Load(<<Ask(create_node_handler, "Writer"), Ask(query_handler, "unknown"),
            Nobody>>, 0, TRUE)}
=============================================================================
