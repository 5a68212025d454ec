------------------------------ MODULE ExecLoad ------------------------------
(***************************************************************************)
(* The loading half of _exec (src/kern/syscall/lifecycle.c, from          *)
(* reset_paging to launch), after the arguments were checked and copied   *)
(* into the kernel.  It runs in one thread with nothing else touching its *)
(* page tables, so its steps follow one another: reset_paging, the        *)
(* argument pages and the stack page, the pushes of the argument strings  *)
(* and pointers, one step per iteration of the segment loop, and launch.  *)
(*                                                                         *)
(* Memory is a page table: page -> what maps it ("none", "kernel", or the *)
(* mem_type of create_page).  A kernel store to a page that is not mapped *)
(* is a kernel page fault.  Frames are a counter: create_page takes one   *)
(* for every type but BSS, which maps the shared zero frame.  Byte        *)
(* contents are not modelled: every store the loader makes lands on the   *)
(* page of its first byte, so only the pages matter.                      *)
(***************************************************************************)
EXTENDS Integers, Sequences, SequencesExt, FiniteSets

CONSTANTS
    PageSize,    \* PAGE_SIZE
    NPages,      \* pages of the address space
    Word,        \* sizeof(uint32_t)
    UserStart,   \* USER_MEM_START
    Layouts,     \* simple ELF headers: [text, data, rodata, bss |-> [start, len]]
    ArgLists,    \* argument vectors, as the sequence of their strlen
    OldImages,   \* page tables of the image exec replaces
    FreeFrames   \* frames free when exec starts

Mod == NPages * PageSize
Pages == 0 .. NPages - 1
PAGE_ADDR(a) == a - (a % PageSize)
PageOf(a) == (a % Mod) \div PageSize
TopPage == NPages - 1

\* The segments in the order of simple_elf_t and of the loop's type[].
Segs == <<"text", "data", "rodata", "bss">>

VARIABLES
    pt,      \* page -> "none", "kernel", "text", "data", "rodata", "bss", "stack"
    free,    \* frames left
    lay,     \* hdr: the program's layout
    args,    \* karg: the strlen of each argument
    pc,      \* "reset", "args", "push", "seg", "launch" or an end:
             \* "launched", "fault" (kernel page fault), "failed" (error return)
    i,       \* the segment loop's index
    copied   \* the while loop's counter

vars == <<pt, free, lay, args, pc, i, copied>>

Mapped(pg) == pt[pg] \notin {"none", "kernel"}

\* A kernel store: on to the next place when every page written is
\* mapped for the user, a kernel page fault otherwise.
KernelWrite(pages, next) ==
    pc' = IF \A pg \in pages : Mapped(pg) THEN next ELSE "fault"

\* create_page's checks: user address, not present, and a frame unless BSS.
CanCreate(pages, type) ==
    /\ \A pg \in pages : pg * PageSize >= UserStart /\ pt[pg] = "none"
    /\ type = "bss" \/ free >= Cardinality(pages)

\* create_page on each page: the entry, and the frame it takes.
Create(pages, type) ==
    /\ pt' = [pg \in Pages |-> IF pg \in pages THEN type ELSE pt[pg]]
    /\ free' = IF type = "bss" THEN free ELSE free - Cardinality(pages)

-----------------------------------------------------------------------------
(* reset_paging: in each user page table the frame of every present      *)
(* entry but a ZEROPAGE one is freed, and the table, which is not a       *)
(* kernel one (USER_MEM_START is a multiple of 4 MB), is unhooked from    *)
(* the directory: no user page is left.                                    *)
ResetPaging ==
    /\ pc = "reset"
    /\ pt' = [pg \in Pages |-> IF pt[pg] = "kernel" THEN "kernel" ELSE "none"]
    /\ free' = free + Cardinality({pg \in Pages : Mapped(pg) /\ pt[pg] # "bss"})
    /\ pc' = "args"
    /\ UNCHANGED <<lay, args, i, copied>>

\* total_arg_length: strlen + 1 + 1 for each argument.
total_arg_length == FoldLeft(LAMBDA acc, len : acc + len + 2, 0, args)

(* num_arg_pages as written: `a + (b) ? 0 : 1' is `(a + (b)) ? 0 : 1'.    *)
num_arg_pages ==
    IF total_arg_length \div PageSize + (IF total_arg_length % PageSize = 0
                                         THEN 1 ELSE 0) # 0
    THEN 0 ELSE 1

\* The argument zone: num_arg_pages pages down from PAGE_ADDR(-1).
ArgPages == {TopPage - k : k \in 0 .. num_arg_pages - 1}
bottom_argzone == (TopPage - (IF num_arg_pages > 0 THEN num_arg_pages - 1 ELSE 0))
                  * PageSize
esp3 == bottom_argzone - Word
StackPage == PageOf(esp3)

(* The argument pages (RODATA) and the stack page; a failing create_page   *)
(* returns ERR_SAVE_ARGS_FAIL or ERR_CREATE_USERSTACK_FAIL.                *)
SaveArgs ==
    /\ pc = "args"
    /\ IF CanCreate(ArgPages, "rodata") /\ free >= Cardinality(ArgPages) + 1
          /\ CanCreate({StackPage}, "stack")
       THEN /\ pt' = [pg \in Pages |-> IF pg \in ArgPages THEN "rodata"
                                      ELSE IF pg = StackPage THEN "stack"
                                      ELSE pt[pg]]
            /\ free' = free - Cardinality(ArgPages) - 1
            /\ pc' = "push"
       ELSE /\ pc' = "failed"
            /\ UNCHANGED <<pt, free>>
    /\ UNCHANGED <<lay, args, i, copied>>

\* The bytes the strings are copied to, from bottom_argzone up.
StringPages ==
    LET n == FoldLeft(LAMBDA acc, len : acc + len + 1, 0, args) IN
    {PageOf(bottom_argzone + k) : k \in 0 .. n - 1}

\* The argv pointers at esp3 - i and the four words from argbase + 1.
PointerPages ==
    LET n == Len(args)
        argbase == esp3 - (n + 4) * Word
    IN {PageOf(esp3 - k * Word) : k \in 0 .. n - 1}
       \cup {PageOf(argbase + k * Word) : k \in 1 .. 4}

\* The strncpy of each string into the zone and the pushes on the stack.
PushArgs ==
    /\ pc = "push"
    /\ KernelWrite(StringPages \cup PointerPages, "seg")
    /\ UNCHANGED <<pt, free, lay, args, i, copied>>

-----------------------------------------------------------------------------
Seg(k) == lay[Segs[k]]

(* Whether the loop creates the page of va: always for text and data;     *)
(* for rodata unless it is a text page, for bss unless it is a data page, *)
(* both tested against PAGE_ADDR(start + len).                             *)
NeedsPage(k, va) ==
    LET txt == lay.text
        dat == lay.data
    IN \/ Segs[k] \in {"text", "data"}
       \/ Segs[k] = "rodata" /\ (PAGE_ADDR(va) < PAGE_ADDR(txt.start)
                                 \/ PAGE_ADDR(va) > PAGE_ADDR(txt.start + txt.len))
       \/ Segs[k] = "bss" /\ (PAGE_ADDR(va) < PAGE_ADDR(dat.start)
                              \/ PAGE_ADDR(va) > PAGE_ADDR(dat.start + dat.len))

(* One iteration of the while loop: create the page when the test says so *)
(* (ERR_SEGMENT_PAGE_FAIL when create_page fails), then memcpy `space'     *)
(* bytes from the file, or for bss memset them when no page was created;  *)
(* copied += space.                                                        *)
SegStep ==
    LET va == (Seg(i).start + copied) % Mod
        space == PAGE_ADDR(va) + PageSize - va
        pg == PageOf(va)
        type == Segs[i]
        created == NeedsPage(i, va)
    IN
    /\ pc = "seg" /\ copied < Seg(i).len
    /\ IF created /\ ~CanCreate({pg}, type)
       THEN /\ pc' = "failed"
            /\ UNCHANGED <<pt, free, copied>>
       ELSE /\ IF created THEN Create({pg}, type) ELSE UNCHANGED <<pt, free>>
            /\ IF type = "bss" /\ created
               THEN pc' = "seg"
               ELSE pc' = IF created \/ Mapped(pg) THEN "seg" ELSE "fault"
            /\ copied' = copied + space
    /\ UNCHANGED <<lay, args, i>>

\* The for loop moves to the next segment, after bss to launch.
SegNext ==
    /\ pc = "seg" /\ copied >= Seg(i).len
    /\ IF i = Len(Segs) THEN pc' = "launch" /\ UNCHANGED i
       ELSE i' = i + 1 /\ UNCHANGED pc
    /\ copied' = 0
    /\ UNCHANGED <<pt, free, lay, args>>

\* set_idle / set_init when the name says so, and launch into the program.
Launch ==
    /\ pc = "launch"
    /\ pc' = "launched"
    /\ UNCHANGED <<pt, free, lay, args, i, copied>>

Init ==
    /\ lay \in Layouts
    /\ args \in ArgLists
    /\ pt \in OldImages
    /\ free \in FreeFrames
    /\ pc = "reset"
    /\ i = 1
    /\ copied = 0

Next == ResetPaging \/ SaveArgs \/ PushArgs \/ SegStep \/ SegNext \/ Launch

Spec == Init /\ [][Next]_vars

-----------------------------------------------------------------------------
\* Every store _exec makes while building the new image (strings, argv
\* pointers, the argbase words, memcpy and memset of the segments) goes to
\* a page that is mapped for the user: the kernel never faults in _exec.
LoaderWritesMapped == pc # "fault"

\* Once reset_paging has thrown the old image away _exec cannot return an
\* error, since there is no program left to return to: it fails only
\* before reset_paging or not at all.
NoErrorAfterReset == pc # "failed"
====
