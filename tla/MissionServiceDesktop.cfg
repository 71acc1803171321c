CONSTANTS
    driver = driver
    user = user
    recovery = recovery
    Actors <- DriverAndUser
    Criteria = {c1}
    Required = {c1}
    MaxAttemptRows = 1
    MaxCalls <- ToCompletion
    MayCall <- CallsToCompletion
    AtomicCAS = FALSE
    RepoFaults = TRUE
SPECIFICATION ServiceSpec
INVARIANTS
    VerdictsBacked
    CompletedGated
CHECK_DEADLOCK FALSE
