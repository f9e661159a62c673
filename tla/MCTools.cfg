SPECIFICATION Spec
CONSTANTS
    Task = {0, 1, 2}
    MaxDup = 2
    Tab = {t1, t2}
    None = None
    Shared = TRUE
    Clicks = {t1}
    MaxConnect = 1
INVARIANTS
    ValidationIsExact
    DepsFirst
    ReportIsTrue
    OneServer
    NoEscape
    OffStaysOff
 
CHECK_DEADLOCK FALSE
