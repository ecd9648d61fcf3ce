SPECIFICATION Spec
CONSTANTS
    a = a
    b = b
    c = c
    e = e
    body = body
    none = none
    vec = vec
    NodeIds <- MCNodeIds
    EdgeIds = {e}
    Bodies = {body}
    Vectors = {none, vec}
    NoVectors = none
    Absent = Absent
    NamespaceOf <- MCNamespaceOf
    Batches <- MCBatches
    Faults = {}
    SegmentFrames = 2
    MaxFrames = 4
    MaxReplayFrames = 4
    MaxCompactions = 1
INVARIANT AckedWritesSurvive
