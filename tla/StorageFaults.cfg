SPECIFICATION Spec
CONSTANTS
    a = a
    b = b
    c = c
    e = e
    body = body
    none = none
    vec = vec
    NodeIds <- MCNodeIds
    EdgeIds = {e}
    Bodies = {body}
    Vectors = {none, vec}
    NoVectors = none
    Absent = Absent
    NamespaceOf <- MCNamespaceOf
    Batches <- MCNamespaceBatches
    Faults = {"append_write", "append_torn", "append_fsync", "delta_write", "manifest_write", "segment_write", "remove"}
    SegmentFrames = 2
    MaxFrames = 4
    MaxReplayFrames = 3
    MaxCompactions = 1
INVARIANTS
    TypeOK
    NamespaceIsolation
