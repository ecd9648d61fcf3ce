SPECIFICATION Spec
CONSTANTS
    a = a
    b = b
    e = e
    body = body
    none = none
    vec = vec
    NodeIds <- MCNodeIds
    EdgeIds = {e}
    Bodies = {body}
    Vectors = {none, vec}
    NoVectors = none
    Absent = Absent
    NamespaceOf <- MCNamespaceOf
    Batches <- MCBatches
    InitialGraphs <- MCInitialGraphs
    InitialRevision = 1
    MaxLsn = 2
    TransactionIds = {t1}
    MaxStaged = 3
    MaxCompactions = 1
    LogFailures = TRUE
INVARIANTS
    TransactionViewClosed
    NoDanglingEdges
    StagedBatchIsTheViewInOrder
