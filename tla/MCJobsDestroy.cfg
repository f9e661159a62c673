SPECIFICATION Spec
CONSTANTS
    s1 = s1
    s2 = s2
    Sessions = {s1, s2}
    Unscoped = Unscoped
    StartScopes = {s1, s2}
    MaxJobs = 2
    MaxDestroys = 2
    MayClose = FALSE
    MayRebind = TRUE
    StallWarning = FALSE
SYMMETRY Symmetry
INVARIANTS
    DestroyingIsQuiet
    DestroyHandleCovers
CHECK_DEADLOCK FALSE
