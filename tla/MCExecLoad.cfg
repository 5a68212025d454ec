CONSTANTS
    PageSize = 32
    NPages = 8
    Word = 4
    UserStart = 32
    Layouts <- MCLayouts
    ArgLists <- MCShortArgs
    OldImages <- MCOldImages
    FreeFrames = {16}
SPECIFICATION Spec
INVARIANT LoaderWritesMapped
CHECK_DEADLOCK FALSE
