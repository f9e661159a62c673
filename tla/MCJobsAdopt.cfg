SPECIFICATION Spec
CONSTANTS
    s1 = s1
    s2 = s2
    Sessions = {s1}
    Unscoped = Unscoped
    StartScopes = {Unscoped}
    MaxJobs = 2
    MaxDestroys = 1
    MayClose = FALSE
    MayRebind = FALSE
    StallWarning = TRUE
INVARIANTS
    NoteAccountedFor
PROPERTY TerminalIsFinal
CHECK_DEADLOCK FALSE
