CONSTANTS
    Threads = {t1}
    RunStates = {s1, s2, s3}
    Locks = {k1}
    MaxGeneration = 1
    None = None
    Runs = {a1, a2}
    Missions = {m1, m2}
    Kinds = {"plain", "loop"}
SPECIFICATION FairSpec
INVARIANTS
    OwnershipTypeOK
    OneRootPerThread
    NoStrandedSlot
    WorkingTurnRegistered
    StopReachesMission
PROPERTIES
    NoWorkAfterStop
    StopFreesThread
CHECK_DEADLOCK FALSE
