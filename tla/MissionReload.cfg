CONSTANTS
    c1 = c1
    c2 = c2
    m1 = m1
    m2 = m2
    Missions = {m1, m2}
    NoMission = NoMission
    Left <- SomeLeft
    MaxMishaps = 2
CHECK_DEADLOCK FALSE
SPECIFICATION FairReloadSpec
INVARIANTS
    ReloadTypeOK
    GateMeansSettled
PROPERTIES
    StoppedBeforeParked
    Converges
