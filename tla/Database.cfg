SPECIFICATION Spec
CONSTANTS
    a = a  b = b  c = c  e = e  p = p  q = q  v2 = v2  w2 = w2  v3 = v3
    Absent = Absent
    NoVectors = NoVectors
    NodeIds = {a, b}
    EdgeIds = {e}
    Bodies = {p, q}
    Vectors = {NoVectors, v2, w2, v3}
    NamespaceOf <- MCNamespaceOf
    BucketsOf <- MCBucketsOf
    KeyOf <- MCKeyOf
    VectorNames <- MCVectorNames
    VectorOf <- MCVectorOf
    DimensionOf <- MCDimensionOf
    IdOrder <- MCIdOrder
    ExactFallbackThreshold = 0
    SidecarOf <- MCSidecarOf
    Refs = {1, 2}
    Batches <- MCBatches
    Faults = {"metadata_write", "sidecar_write", "vector_set"}
    MaxWrites = 2
    MaxRestarts = 2
    MaxRebuilds = 2
INVARIANTS
    PublishedIsEngine
    IndexIsRebuilt
    KeyLookup
    RuntimeIsCurrent
    PinnedSearchStable
    OverlayAgreesWithCommit
CHECK_DEADLOCK FALSE
