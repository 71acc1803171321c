CONSTANTS
    Threads = {t1}
    RunStates = {s1, s2, s3}
    Locks = {k1}
    MaxGeneration = 1
    None = None
    Runs = {a1, a2}
    Missions = {m1}
    Kinds = {"plain", "loop"}
SPECIFICATION Spec
INVARIANT
    SnapshotOwned
CHECK_DEADLOCK FALSE
