SPECIFICATION FairSpec
CONSTANTS
    s1 = s1
    s2 = s2
    Sessions = {s1}
    Unscoped = Unscoped
    StartScopes = {s1}
    MaxJobs = 2
    MaxDestroys = 1
    MayClose = TRUE
    MayRebind = TRUE
    StallWarning = FALSE
PROPERTY TeardownEnds
CHECK_DEADLOCK FALSE
