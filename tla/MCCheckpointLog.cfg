SPECIFICATION Spec
CONSTANTS
    f1 = f1
    f2 = f2
    Files = {f1}
    Scopes = {"conversation"}
    Serialised = TRUE
    Subagents = FALSE
    MaxTurns = 3
    MaxLog = 6
    MaxEdits = 0
    MaxFolds = 0
    MaxManual = 1
    MaxSummaries = 1
    MaxRewinds = 1
    MaxReloads = 1
INVARIANTS
    FreshBoundaryIsExact
    NumbersAreUnique
CHECK_DEADLOCK FALSE
