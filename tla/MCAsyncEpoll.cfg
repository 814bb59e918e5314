SPECIFICATION FairSpec
CONSTANTS
    f1 = f1
    f2 = f2
    r = r
    s = s
    t = t
    w = w
    x = x
    y = y
    Fd <- MCFd
    Id <- MCId
    NoOp = NoOp
    Room = 2
    kMaxEvents = 2
    MaxLen = 1
    Status = {"success"}
    Wanted <- MCWanted
    CancelFirst = TRUE
INVARIANTS EventsAreRegistered NoBlockingOnQueued
PROPERTIES ImplementsIface ReadyIsServed
