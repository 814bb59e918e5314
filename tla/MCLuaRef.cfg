CONSTANTS
    NIL = NIL
    a = a
    b = b
    Value <- MCValue
    MaxStack = 8
SPECIFICATION Spec
INVARIANTS
    ReleasedIsGivenBack
PROPERTY
    ImplementsRefTable
