SPECIFICATION FairSpec
CONSTANTS
    s1 = s1
    s2 = s2
    o1 = o1
    o2 = o2
    Sock <- MCSock
    Obj <- MCObj
    Dir <- MCDir
    Masks <- MCMasks
    Freed = Freed
    NoObj = NoObj
    Room = 1
INVARIANTS ObjectsHeld NothingForgotten
PROPERTIES ReadyIsReported
CHECK_DEADLOCK FALSE
