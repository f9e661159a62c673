SPECIFICATION FairSpec
CONSTANTS
    Batches <- MCBatches
    Errors <- MCErrors
    MaxSteps = 2
    MaxParallel = 2
    MaxRuns = 2
    MaxSteers = 1
INVARIANTS
    OrderKept
    DirectiveIsDue
PROPERTY RunEnds
CHECK_DEADLOCK FALSE
