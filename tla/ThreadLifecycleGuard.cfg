CONSTANTS
    Threads = {t1, t2}
    RunStates = {r1, r2}
    Locks = {k1, k2}
    MaxGeneration = 2
    None = None
SPECIFICATION GuardSpec
INVARIANTS
    GuardTypeOK
    HolderKeepsSlot
    BusyHasHolder
PROPERTIES
    ImplementsSlot
