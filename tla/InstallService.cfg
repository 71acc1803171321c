CONSTANTS
    k1 = k1
    k2 = k2
    p1 = p1
    p2 = p2
    s1 = s1
    Keys = {k1, k2}
    Packages = {p1, p2}
    Slugs = {s1}
    MaxImports = 2
    MaxConfirms = 2
    Uploads <- TwoImports
    MaxCrashes = 1
    MaxMishaps = 3
SPECIFICATION InstallSpec
INVARIANTS
    InstallTypeOK
    OwnResultStands
    FailedOwnsNothing
    FileHasRow
PROPERTIES
    TerminalStays
CHECK_DEADLOCK FALSE
