SPECIFICATION MSpec
CONSTANTS
    a = a
    b = b
    e = e
    key = key
    none = none
    None = None
    NodeIds = {a, b}
    EdgeIds = {e}
    Bodies <- MCBodies
    Vectors = {none}
    NoVectors = none
    Absent = Absent
    NamespaceOf <- MCNamespaceOf
    NodeOrder <- MCNodeOrder
    MergeKeys <- MCMergeKeys
    Batches <- MCBatches
    Faults = {}
    SegmentFrames = 4
    MaxFrames = 4
    MaxReplayFrames = 3
    MaxCompactions = 1
    MaxWrites = 2
    MaxOperations = 2
INVARIANTS
    MaintenanceKeepsCommitted
    RefusedOnlyIfKnown
    ConsolidationReversible
CONSTRAINT Claimed
CHECK_DEADLOCK FALSE
