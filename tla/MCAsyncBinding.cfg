SPECIFICATION BindSpec
CONSTANTS
    f1 = f1
    w1 = w1
    w2 = w2
    b1 = b1
    ur = ur
    uw = uw
    Fd <- MCFd
    WB <- MCWB
    RB <- MCRB
    Udata <- MCUdata
    Id <- MCId
    Other = Other
    NIL = NIL
    NoOp = NoOp
    Room = 2
    kMaxEvents = 2
    MaxLen = 2
    Status = {"success", "error"}
    Wanted <- MCNoRequests
    CancelFirst = TRUE
    MaxStack = 7
    Cap = 2
    MaxWrote = 2
    MaxReuse = 1
    MaxRequests <- MCOneBesides
    OneReadPerBuf = TRUE
    UdataFor <- MCAll
    CtlFails = TRUE
    Happens = {"in", "out"}
INVARIANTS BindTypeOK PinsHeld PinsAccounted WriteBufSound StreamInOrder
    WritesStayOnSocket ReadBufWithinCap
