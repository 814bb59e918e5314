SPECIFICATION Spec
CONSTANTS
    m = m
    w1 = w1
    w2 = w2
    c1 = c1
    c2 = c2
    n1 = n1
    b1 = b1
    b2 = b2
    Null = Null
    Main = m
    Worker <- MCWorker
    Chan <- MCChan
    Name <- MCName
    Block <- MCBlock
    MaxId = 3
INVARIANTS
    EachBlockOneOwner
    ReferencedAreAlive
    DistinctIds
    JoinedIsComplete
SYMMETRY MCSymmetry
CHECK_DEADLOCK FALSE
