SPECIFICATION MapSpec
CONSTANTS
    Key <- MCKey
    Hash <- MCHash
    Mapped = {1, 2}
    NoKey = 0
    NoMapped = 0
    kMaxDistance = 4
    MinSize = 8
    Shifts = 4
    MaxSize = 12
INVARIANTS FarOnlyInCrowds
PROPERTIES ImplementsKeyMap
CHECK_DEADLOCK FALSE
