SPECIFICATION Spec
CONSTANTS
    t1 = t1
    t2 = t2
    t3 = t3
    NoThread = NoThread
    Threads <- MCThreads
INVARIANTS
    TypeOK
    OwnOrShared
PROPERTIES
    Settled
