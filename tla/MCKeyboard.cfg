\* Two readers from the boot state of keyboard.c (both indices at
\* KEY_BUFFER_SIZE); keystrokes land on a thread that does not use the
\* keyboard.
CONSTANTS
    NoTid = NoTid
    NoMx = NoMx
    Readers = {r1, r2}
    Other = o
    Victims = {o}
    Calls = 3
    N = 2
    Keys = 5
    Start = 2
    Nest = FALSE
SPECIFICATION Spec
INVARIANTS TypeOK ReadInTypedOrder
PROPERTIES DropsOnlyWhenFull
