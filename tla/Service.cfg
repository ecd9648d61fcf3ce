SPECIFICATION Spec
CONSTANTS
    Requests = {1, 2, 3}
    None = None
    Server = Server
    Workloads <- MCWorkloads
    Capacity = 1
    Rate = 1
    Budget <- MCBudget
    InitialSize <- MCInitialSize
    MaxSize = 2
    Retention = 1
    Faults = {"operation", "audit_write", "timeout"}
INVARIANTS
    TimedOutChangedNothing
    StatusTruthful
    WithinBudget
    AuditSound
    RateBounded
PROPERTY
    Responsive
CHECK_DEADLOCK FALSE
