CONSTANTS
    Root = root
    MaxChildren = 3
    Policies <- TightPolicies
    MaxCalls = 4
    MaxTasks = 2
CHECK_DEADLOCK FALSE
SPECIFICATION FairSupervisorSpec
INVARIANTS
    SupervisorTypeOK
    WorkUnderPermit
    AbortReachesChildren
    InterruptedNotCompleted
PROPERTY
    ImplementsPermitLine
    CallsReturn
