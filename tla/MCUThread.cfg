CONSTANTS
    m = m
    a = a
    b = b
    NoTid = NoTid
    NoMx = NoMx
    Threads <- MCThreads2
    Main = m
    MainProg <- RwMain
    Funcs <- RwFuncs
    Mutexes <- MCMutexes
    CVs <- MCCVs
    MinTid = 32
    Top = 10
    StackPages = 1
    SemInit = 1
    UserFrames = 1
SPECIFICATION Spec
INVARIANTS TypeOK DescFound NoLostWaiter WaitersQueued SemExclusion
