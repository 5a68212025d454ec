CONSTANTS
    t1 = t1
    t2 = t2
    t3 = t3
    Idle = Idle
    NULL = NULL
    Threads <- MCThreads
    Calls <- MCCalls
    TickSpan = 3
    MaxSleep = 2
SPECIFICATION Spec
INVARIANTS
    TypeOK
    ListsMatchStates
    SleepSorted
PROPERTIES
    SleepersWake
