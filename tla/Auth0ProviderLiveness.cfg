SPECIFICATION Spec
CONSTANTS
    t1 = t1
    t2 = t2
    k1 = k1
    k2 = k2
    Threads <- MCThreads
    Keys <- MCKeys
    Tokens <- OneKey
    Lifespan = 0
    FetchTime = 0
    MaxTime = 1
PROPERTIES
    VerifyEnds
    ImplementsAuthProvider
    AskedTwiceAtMost
