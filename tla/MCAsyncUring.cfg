SPECIFICATION FairSpec
CONSTANTS
    r = r
    w = w
    Id <- MCId
    NoId = NoId
    SqSize = 2
    CqSize = 2
    Wrap = 4
    Room = 1
    Wanted <- MCWanted
    MaxTimers = 2
    Kernels = {TRUE, FALSE}
INVARIANTS TypeOK IovHeld
PROPERTIES ImplementsIface ReportedUnlessStuffed
CHECK_DEADLOCK FALSE
