SPECIFICATION Spec
CONSTANTS
    NodeIds <- MCNodeIds
    EdgeIds <- MCEdgeIds
    None = None
    Cases <- MCCases
    MaxResultLimit = 6
    MaxResponseItems = 8
    MaxStreamItems = 16
INVARIANTS
    TraversalSound
    ShortestPathExact
    LookupExact
    SearchExact
    RefusedOnlyForLargeLimits
PROPERTY Terminates
CHECK_DEADLOCK FALSE
