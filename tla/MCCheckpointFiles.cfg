SPECIFICATION Spec
CONSTANTS
    f1 = f1
    f2 = f2
    Files = {f1}
    Scopes = {"code", "conversation", "both"}
    Serialised = TRUE
    Subagents = TRUE
    MaxTurns = 3
    MaxLog = 4
    MaxEdits = 2
    MaxFolds = 1
    MaxManual = 0
    MaxSummaries = 0
    MaxRewinds = 2
    MaxReloads = 1
INVARIANTS
    RestoreIsExact
    DiskIsMemory
    NoPromptLost
CHECK_DEADLOCK FALSE
