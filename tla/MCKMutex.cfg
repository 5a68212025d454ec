CONSTANTS
    t1 = t1
    t2 = t2
    t3 = t3
    m1 = m1
    m2 = m2
    NULL = NULL
    Threads <- MCThreads
    Mutexes <- MCMutexes
    Program <- MCProgram
SPECIFICATION Spec
INVARIANTS
    TypeOK
    MutualExclusion
    WaitersHaveOwner
    NoLostWaiter
    HeldStackExact
PROPERTIES
    LockReturns
    
