SPECIFICATION FairSpec
CONSTANTS
    f1 = f1
    f2 = f2
    r = r
    p = p
    w = w
    x = x
    Fd <- MCFd
    Id <- MCId
    NoOp = NoOp
    Room = 2
    kMaxEvents = 3
    Wanted <- MCWanted
INVARIANTS UdataIsPending WaitingIsRegistered
PROPERTIES ImplementsIface ReadyIsServed
