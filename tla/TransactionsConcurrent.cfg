SPECIFICATION Spec
CONSTANTS
    a = a
    b = b
    e = e
    body = body
    none = none
    vec = vec
    NodeIds <- MCNodeIds
    EdgeIds = {e}
    Bodies = {body}
    Vectors = {none, vec}
    NoVectors = none
    Absent = Absent
    NamespaceOf <- MCNamespaceOf
    Batches <- MCBatches
    InitialGraphs <- MCInitialGraphs
    InitialRevision = 1
    MaxLsn = 3
    TransactionIds = {t1, t2}
    MaxStaged = 1
    MaxCompactions = 0
    LogFailures = TRUE
INVARIANTS
    SnapshotStable
    DeltaComplete
PROPERTIES
    NoLostUpdate
SYMMETRY MCSymmetry
