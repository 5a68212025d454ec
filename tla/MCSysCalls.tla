----------------------------- MODULE MCSysCalls ------------------------------
(* A 128-byte address space of four 32-byte pages; page 0 is the kernel's *)
(* and USER_MEM_START is 32.  A ureg_t of 3 words keeps the handler frame   *)
(* (24 bytes) within a page, as its 92 bytes are within 4096.               *)
EXTENDS SysCalls

\* Sizes a program passes: negative, empty, short, a page, across pages.
MCSizes == {-1, 0, 1, 5, 32, 37}
\* Argument arrays on the stack: at the start of a page, and 4 bytes before
\* a page end, where two words straddle the page boundary.
MCArgsAligned == {64}
MCArgsAny == {64, 92}
\* Pointers into the kernel page, at the first user address, inside a page,
\* 2 bytes before a page end, and in the last page of memory.
MCPtrs == {3, 32, 44, 94, 124}
\* A NUL at the start of page 0, in the kernel page, near and far from a
\* pointer, across a page boundary and in the last page.
MCNulAt == {1, 6, 46, 70, 97, 126}
\* exec's argv: NULL, at a page start, 8 bytes before a page end, and
\* unaligned 2 bytes before one.
MCExecVecs == {0, 64, 88, 94}
\* Memory for exec: no NUL; one argument word (a NUL in its third byte)
\* then a NULL word at 68; from 94 two words (the first with a NUL in its
\* third byte, at 96) and a NULL word at 102; from 88 a word with a NUL low
\* byte, two more and a NULL word at 100.  All have the NULs after 3 and 44.
MCExecNuls == {{}, {6, 46, 66, 68, 69, 70, 71}, {6, 46, 96, 102, 103, 104, 105},
               {6, 46, 88, 100, 101, 102, 103}}
====
