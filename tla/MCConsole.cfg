SPECIFICATION Spec
CONSTANTS
    r1 = r1
    r2 = r2
    p = p
    none = none
    NoTid = none
    Threads <- MCThreads
    Prog <- MCProg
    Printable <- MCPrintable
    Colors <- MCColors
    ValidColors <- MCColors
    InitColor = "white_red"
    H = 2
    W = 2
    MaxLine = 4096
INVARIANT
    LineEdited
