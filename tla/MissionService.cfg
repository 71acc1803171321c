CONSTANTS
    driver = driver
    user = user
    recovery = recovery
    Actors <- ThreeActors
    Criteria = {c1}
    Required = {c1}
    MaxAttemptRows = 2
    MaxCalls <- ShortCalls
    MayCall <- CallsByActor
    AtomicCAS = TRUE
    RepoFaults = FALSE
SPECIFICATION ServiceSpec
INVARIANTS
    ServiceTypeOK
    TerminalEventTruthful
PROPERTIES
    TerminalIsFinal
    OneActiveRoot
    ImplementsLifecycle
CHECK_DEADLOCK FALSE
