SPECIFICATION Spec
CONSTANTS
    a = a  e = e  p = p  n1 = n1  n2 = n2
    Absent = Absent
    NoVectors = NoVectors
    Torn = Torn
    NodeIds = {a}
    EdgeIds = {e}
    Bodies = {p}
    Vectors = {NoVectors}
    NamespaceOf <- MCNamespaceOf
    Nodes = {n1, n2}
    Batches <- MCBatches
    Faults = {"metadata_write"}
    MaxWrites = 3
    MaxDeliveries = 2
    MaxSteps = 2
    MaxOperations = 4
    MaxFailures = 1
SYMMETRY Symmetry
INVARIANTS
    HistoryIsTheGraph
    FollowerIsPrefix
    FreshDeliveryApplies
    AckedIsDurable
    OnePrimary
    RolesAgree
CHECK_DEADLOCK FALSE
