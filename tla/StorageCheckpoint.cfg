SPECIFICATION Spec
CONSTANTS
    a = a
    b = b
    c = c
    e = e
    body = body
    none = none
    vec = vec
    NodeIds <- MCNodeIds
    EdgeIds = {e}
    Bodies = {body}
    Vectors = {none, vec}
    NoVectors = none
    Absent = Absent
    NamespaceOf <- MCNamespaceOf
    Batches <- MCBatches
    Faults = {"append_write", "manifest_write"}
    SegmentFrames = 2
    MaxFrames = 5
    MaxReplayFrames = 5
    MaxCompactions = 0
PROPERTIES
    ImplementsDurableGraph
    ReturnsToService
