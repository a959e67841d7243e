SPECIFICATION Spec
CONSTANTS
    t1 = t1
    t2 = t2
    k1 = k1
    k2 = k2
    Threads <- MCThreads
    Keys <- MCKeys
    Tokens <- MCTokens
    Lifespan = 1
    FetchTime = 1
    MaxTime = 3
INVARIANTS
    PyJWTFailuresAreRemapped
