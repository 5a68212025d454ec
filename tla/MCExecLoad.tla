----------------------------- MODULE MCExecLoad -----------------------------
EXTENDS ExecLoad

(* Programs laid out as ld's default script lays out a static executable *)
(* linked at USER_MEM_START: rodata right after text (4-byte aligned),    *)
(* data on the next page at the same offset (DATA_SEGMENT_ALIGN), bss     *)
(* right after data.                                                      *)
Align(a, n) == ((a + n - 1) \div n) * n
LayoutOf(tl, rl, dl, bl) ==
    LET rs == Align(UserStart + tl, 4)
        re == rs + rl
        ds == PAGE_ADDR(Align(re, PageSize)) + (re % PageSize)
        bs == Align(ds + dl, 4)
    IN [text |-> [start |-> UserStart, len |-> tl],
        rodata |-> [start |-> rs, len |-> rl],
        data |-> [start |-> ds, len |-> dl],
        bss |-> [start |-> bs, len |-> bl]]

MCLayouts == {LayoutOf(tl, rl, dl, bl) :
                tl \in {20, 32}, rl \in {0, 8}, dl \in {4, 24}, bl \in {0, 8}}

\* Arguments whose strings fit well within a page.
MCShortArgs == {<<>>, <<4>>, <<4, 2>>}
\* And a vector whose strings fill a page.
MCLongArgs == MCShortArgs \cup {<<4, 26>>}

\* The kernel page and an old program: text, data, bss, the stack and the
\* argument page.
MCOldImages == {[pg \in Pages |-> CASE pg = 0 -> "kernel"
                                    [] pg = 1 -> "text"
                                    [] pg = 2 -> "data"
                                    [] pg = 3 -> "bss"
                                    [] pg = TopPage - 1 -> "stack"
                                    [] pg = TopPage -> "rodata"
                                    [] OTHER -> "none"]}
====
