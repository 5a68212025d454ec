CONSTANTS
    AddrBits = 7
    PageBits = 5
    Word = 4
    StrMax = 8
    MaxLine = 8
    FileLen = 5
    KernelPages = {0}
    Ops = {"readline", "print", "get_cursor_pos", "deschedule", "readfile", "swexn", "fault", "exception", "exec"}
    ArgsAt <- MCArgsAligned
    Sizes <- MCSizes
    UregWords = 3
    UserStart = 32
    StrArrMax = 8
    MaxArgs = 8
    ExecVecs <- MCExecVecs
    ExecNuls <- MCExecNuls
    ArgPtrs = {44}
    Ptrs <- MCPtrs
    NulAt <- MCNulAt
SPECIFICATION Spec
INVARIANTS CheckBufferExact CheckStringSafe
