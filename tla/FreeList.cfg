SPECIFICATION FairSpec
CONSTANTS
    Thread = {t1, t2, t3}
    Node = {n1, n2}
    NULL = NULL
    SHOULD_BE_ON_FREELIST = 8
INVARIANTS
    AssertionHolds
    Exclusive
    NotStranded
PROPERTIES
    ImplementsPool
    LockFree
