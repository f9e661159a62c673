SPECIFICATION Spec
CONSTANTS
    MaxTexts = 3
    MaxPrompts = 1
    MaxCommands = 1
    Commands = {"stop", "new", "yes"}
    MaxRequests = 3
    MaxAsks = 1
    MaxJobs = 1
    Kinds = {"prompt", "cancel", "model", "close", "delete", "load"}
    Alone = {"close", "load"}
    MayFail = {"build", "save", "mark"}
    WeekDays = 3
    WeekSets = {{0}, {1}, {0, 2}}
    YearMonths = 2
    SpringDay = 0
    MaxCreated = 1
    MayToggle = FALSE
    MaxSlots = 2
    MaxTopics = 3
    MaxEdits = 1
    MaxFileEdits = 1
    MaxTriggers = 0
    MaxTurns = 1
    MaxFailures = 1
INVARIANTS
    EachInTurn
    NothingForgotten
    DeletedStaysDeleted
    NoSwitchLeft
    EverythingClosed
    SlotsAreKept
    EditsKept
    RunsDoNotOverlap
PROPERTY FrontEndsProgress
CHECK_DEADLOCK FALSE
