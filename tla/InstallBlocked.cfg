CONSTANTS
    k1 = k1
    k2 = k2
    p1 = p1
    p2 = p2
    s1 = s1
    Keys = {k1}
    Packages = {p1}
    Slugs = {s1}
    MaxImports = 2
    MaxConfirms = 1
    Uploads <- SameListing
    MaxCrashes = 1
    MaxMishaps = 1
SPECIFICATION InstallSpec
PROPERTY
    RefusedOnlyWhileHeld
CHECK_DEADLOCK FALSE
