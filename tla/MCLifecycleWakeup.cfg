CONSTANTS
    p0 = p0
    p1 = p1
    p2 = p2
    p3 = p3
    t0 = t0
    t1 = t1
    t2 = t2
    t3 = t3
    NULL = NULL
    Procs <- MCProcs2
    Threads <- MCThreads2
    InitProc = p0
    InitThread = t0
    Calls <- MCNoThreadFork
    NPages = 1
    StackPage = 1
    NFrames = 1
    Cap = 255
    Vals = {0}
SPECIFICATION Spec
PROPERTY WaitReturns
CHECK_DEADLOCK FALSE
