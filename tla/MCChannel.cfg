CONSTANTS
    NoMsg = NoMsg
    p1 = p1
    p2 = p2
    c1 = c1
    c2 = c2
    d1 = d1
    m1 = m1
    m2 = m2
    m3 = m3
    Producers <- MCProducers
    Consumers <- MCConsumers
    Destroyers = {d1}
    Msg <- MCMsg
SPECIFICATION FairSpec
INVARIANTS
    ReadableIffNonempty
    FirstInFirstOut
PROPERTY
    EverythingLeaves
