SPECIFICATION Spec
CONSTANTS
    h1 = h1
    h2 = h2
    p1 = p1
    p2 = p2
    f0 = f0
    f1 = f1
    f2 = f2
    Zero = f0
    Null = Null
    Other = Other
    Handle <- MCHandle
    Pid <- MCPid
    Fd <- MCFd
    Code = {0, 1}
INVARIANTS
    ReapedByItsHandle
    SignalsReachTheChild
    DescriptorsClosedOnce
SYMMETRY MCSymmetry
CHECK_DEADLOCK FALSE
