CONSTANTS
    loopActor = loopActor
    user = user
    Actors <- LoopAndUser
    Loop = loopActor
    Criteria = {c1, c2}
    Required = {c1}
    MaxAttemptRows = 3
    MaxCalls <- TwoUserCalls
    MayCall <- UserPauses
    AtomicCAS = TRUE
    RepoFaults = FALSE
    MaxAttempts = 3
    MaxRepairs = 1
    TokenBudget = 2
    MaxUsage = 1
    Summaries = {s1, s2}
    WallClock = TRUE
SPECIFICATION LoopSpec
INVARIANTS
    LoopTypeOK
    ResultTruthful
    CompletedVerified
    DrivesCurrentAttempt
PROPERTIES
    LaunchWithinBudget
