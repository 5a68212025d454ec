CONSTANTS
    p0 = p0
    p1 = p1
    p2 = p2
    p3 = p3
    t0 = t0
    t1 = t1
    t2 = t2
    t3 = t3
    NULL = NULL
    Procs <- MCProcs3
    Threads <- MCThreads3
    InitProc = p0
    InitThread = t0
    Calls <- MCMemCalls
    NPages = 2
    StackPage = 2
    NFrames = 2
    Cap = 3
    Vals = {0}
SPECIFICATION Spec
INVARIANTS WaitListExact FreeHintExact
SYMMETRY MCSymmetry3
CHECK_DEADLOCK FALSE
