SPECIFICATION Spec
CONSTANTS
    a = a
    b = b
    c = c
    e = e
    body = body
    none = none
    vec = vec
    NodeIds <- MCNodeIds
    EdgeIds = {e}
    Bodies = {body}
    Vectors = {none, vec}
    NoVectors = none
    Absent = Absent
    NamespaceOf <- MCNamespaceOf
    Batches <- MCDependentBatches
    Faults = {"append_write"}
    SegmentFrames = 2
    MaxFrames = 4
    MaxReplayFrames = 4
    MaxCompactions = 2
INVARIANTS
    SurviveUnlessShadowed
    RefusedOnlyIfShadowed
    NoDanglingEdges
