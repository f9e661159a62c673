SPECIFICATION FairSpec
CONSTANTS
    Scenarios = {{"crash"}, {"fail"}, {"rebuild"}, {"late"}, {"open"}, {"stuck"}}
    MaxFault = 1
    MaxOpen = 1
INVARIANTS
    NothingLost
    DeletedStaysIfSettled
PROPERTY DeleteEnds
CHECK_DEADLOCK FALSE
