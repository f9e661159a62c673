SPECIFICATION FairSpec
CONSTANTS
    g1 = g1
    g2 = g2
    r1 = r1
    r2 = r2
    NoGoal = NoGoal
    NoReason = NoReason
    Goals = {g1}
    Reasons = {r1, r2}
    MaxAutoTurns = 4
    MaxIdleTurns = 2
    MaxCommands = 2
    HooksBlock = TRUE
PROPERTIES
    CompletionWasEarned
    BlockedNeedsThree
    GoalLoopEnds
CHECK_DEADLOCK FALSE
