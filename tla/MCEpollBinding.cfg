SPECIFICATION Spec
CONSTANTS
    f1 = f1
    f2 = f2
    s1 = s1
    s2 = s2
    u = u
    Fd <- MCFd
    Sock <- MCSock
    Value <- MCValue
    NoFd = NoFd
    Gone = Gone
    NIL = NIL
    MaxStack = 6
    Room = 2
    Platforms = {"linux", "osx"}
SYMMETRY MCSymmetry
INVARIANTS RegistrationsHeld NothingLeaks OwnValue StateAgrees
CHECK_DEADLOCK FALSE
