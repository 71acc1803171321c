CONSTANTS
    loopActor = loopActor
    user = user
    Actors <- LoopAndUser
    Loop = loopActor
    Criteria = {c1}
    Required = {c1}
    MaxAttemptRows = 2
    MaxCalls <- OneUserCall
    MayCall <- UserCancels
    AtomicCAS = FALSE
    RepoFaults = TRUE
    MaxAttempts = 2
    MaxRepairs = 1
    TokenBudget = 0
    MaxUsage = 0
    Summaries = {s1}
    WallClock = TRUE
SPECIFICATION FairLoopSpec
INVARIANT
    LeaseReleased
PROPERTY
    Terminates
