------------------------------- MODULE Paging -------------------------------
(***************************************************************************)
(* User memory: the frame allocator of src/kern/vm/frame.c and the user    *)
(* page-table entries of src/kern/vm/page.c.  Each frame has an owner      *)
(* counter; next_available_frame is a hint to a frame nobody holds, -1     *)
(* when there is none.  A process maps the pages 1..NPages (in address     *)
(* order); an entry names a frame and its READWRITE and COPYONWRITE        *)
(* flags.  The frame contents and what each process has written to each    *)
(* of its pages (view, a history variable) are kept as values of Vals.     *)
(*                                                                         *)
(* The operators here are the memory part of the steps of Lifecycle,       *)
(* which adds the threads that perform them.  BSS pages (ZEROPAGE, the     *)
(* shared zero frame) are created only by _exec, which is not modelled,    *)
(* so no entry here is a zero page.                                        *)
(***************************************************************************)
EXTENDS Integers, Sequences, SequencesExt, FiniteSets

CONSTANTS
    Procs,       \* process control blocks
    InitProc,    \* the process create_god_process builds
    NPages,      \* user pages of an address space
    StackPage,   \* the user stack page create_god_process maps
    NFrames,     \* frames of user memory, ids 0..NFrames-1
    Cap,         \* (uint8_t) -1, the owner count _get_frame refuses to pass
    Vals         \* page contents

VARIABLES
    frames,      \* frame id -> number of owners
    nextfree,    \* next_available_frame
    pte,         \* process -> page -> entry
    mem,         \* frame id -> contents
    view,        \* process -> page -> what the process last stored there
    regions      \* process -> bases of its new_pages regions (memregions)

memvars == <<frames, nextfree, pte, mem, view, regions>>

Pages == 1..NPages
FrameIds == 0..(NFrames - 1)
NoFrame == -1

Unmapped == [f |-> NoFrame, rw |-> FALSE, cow |-> FALSE]
Present(e) == e.f # NoFrame
NoPages == [v \in Pages |-> Unmapped]

(* The allocator state threaded through a sequence of frame operations:    *)
(* counters, hint, contents, and the entries of a parent (pp) and of a     *)
(* child (pc) for copy_paging.                                             *)
AllocState(p) ==
    [fr |-> frames, nf |-> nextfree, mem |-> mem, pp |-> pte[p], pc |-> NoPages]

\* The loop of _get_frame: the first frame held by nobody, from f on,
\* wrapping around, or -1.
NextAvailable(fr, f) ==
    LET Off == {i \in 0..(NFrames - 1) : fr[(f + i) % NFrames] = 0}
    IN IF Off = {} THEN NoFrame ELSE (f + Min(Off)) % NFrames

\* _get_frame on a frame below Cap: one more owner, and a new hint when
\* the hint was taken.
_get_frame(s, f) ==
    LET fr == [s.fr EXCEPT ![f] = @ + 1]
    IN [s EXCEPT !.fr = fr,
                 !.nf = IF f = s.nf THEN NextAvailable(fr, f) ELSE s.nf]

\* _allocate_frame: the hinted frame; callers test s.nf # NoFrame first.
_allocate_frame(s) == _get_frame(s, s.nf)

\* Mutant: free_frame never takes the freed frame as the new hint.
free_frame_keep_hint(s, f) ==
    IF s.fr[f] = 0 THEN s ELSE [s EXCEPT !.fr[f] = @ - 1]

\* free_frame: ERR_FREE_OWNERLESS_FRAME on a frame nobody holds; the
\* freed frame becomes the hint only when there was none.
free_frame(s, f) ==
    IF s.fr[f] = 0 THEN s
    ELSE LET fr == [s.fr EXCEPT ![f] = @ - 1]
         IN [s EXCEPT !.fr = fr,
                      !.nf = IF fr[f] = 0 /\ s.nf = NoFrame THEN f ELSE s.nf]

\* Commit an allocator state for process p (and a child c).
Commit(s, p) ==
    /\ frames' = s.fr /\ nextfree' = s.nf /\ mem' = s.mem
    /\ pte' = [pte EXCEPT ![p] = s.pp]
CommitFork(s, p, c) ==
    /\ frames' = s.fr /\ nextfree' = s.nf /\ mem' = s.mem
    /\ pte' = [pte EXCEPT ![p] = s.pp, ![c] = s.pc]

-----------------------------------------------------------------------------
\* Mutant: the shared entry is copied without _get_frame.
copy_page_uncounted(s, v) ==
    LET e == s.pp[v] IN
    IF ~Present(e) THEN s
    ELSE LET e2 == IF e.rw THEN [e EXCEPT !.rw = FALSE, !.cow = TRUE] ELSE e
         IN [s EXCEPT !.pp[v] = e2, !.pc[v] = e2]

(* copy_paging, the body of its loop for one present page of the parent:  *)
(* _get_frame; on success both entries lose READWRITE for COPYONWRITE     *)
(* when the page was writable.  A saturated frame is replaced in the      *)
(* child by a fresh writable copy; when no frame is left the child keeps  *)
(* the parent's entry as copied, with no owner counted.                   *)
copy_page(s, v) ==
    LET e == s.pp[v] IN
    IF ~Present(e) THEN s
    ELSE IF s.fr[e.f] # Cap
    THEN LET e2 == IF e.rw THEN [e EXCEPT !.rw = FALSE, !.cow = TRUE] ELSE e
         IN [_get_frame(s, e.f) EXCEPT !.pp[v] = e2, !.pc[v] = e2]
    ELSE IF s.nf # NoFrame
    THEN LET g == s.nf
         IN [_allocate_frame(s) EXCEPT
                !.pc[v] = [f |-> g, rw |-> TRUE, cow |-> FALSE],
                !.mem[g] = s.mem[e.f]]
    ELSE [s EXCEPT !.pc[v] = e]

\* copy_paging(parent, child) over the pages in address order; the child
\* starts with an empty address space (create_process).
copy_paging(p, c) ==
    /\ CommitFork(FoldLeft(copy_page, AllocState(p), [i \in Pages |-> i]), p, c)
    /\ view' = [view EXCEPT ![c] = view[p]]
    /\ regions' = [regions EXCEPT ![c] = {}]

\* destroy_paging: every present page's frame freed, the tables emptied.
destroy_paging(c) ==
    LET rel(s, v) == IF Present(s.pp[v]) THEN free_frame(s, s.pp[v].f) ELSE s
        s1 == FoldLeft(rel, AllocState(c), [i \in Pages |-> i])
    IN /\ Commit([s1 EXCEPT !.pp = NoPages], c)
       /\ regions' = [regions EXCEPT ![c] = {}]
       /\ UNCHANGED view

-----------------------------------------------------------------------------
(* A store by process p to its writable page v.                           *)
UserWrite(p, v, x) ==
    /\ mem' = [mem EXCEPT ![pte[p][v].f] = x]
    /\ view' = [view EXCEPT ![p][v] = x]
    /\ UNCHANGED <<frames, nextfree, pte, regions>>

(* _page_fault_handler on a COPYONWRITE entry, before copy_on_write:      *)
(* the flag is cleared and READWRITE set on the shared frame.             *)
cow_flags(p, v) ==
    /\ pte' = [pte EXCEPT ![p][v] = [@ EXCEPT !.rw = TRUE, !.cow = FALSE]]
    /\ UNCHANGED <<frames, nextfree, mem, view, regions>>

(* copy_on_write, under fa_mutex: nothing to do for the sole owner (or a  *)
(* frame nobody holds); else a new frame with the old contents replaces   *)
(* the old one in the entry, and the old frame loses an owner.  When no   *)
(* frame is left it returns ERR_NO_FRAMES, which the fault handler        *)
(* ignores.  A page removed meanwhile is left alone.                      *)
copy_on_write(p, v) ==
    LET s == AllocState(p)
        old == pte[p][v].f
        g == nextfree
    IN
    IF ~Present(pte[p][v]) \/ frames[old] <= 1 \/ nextfree = NoFrame
    THEN UNCHANGED memvars
    ELSE /\ Commit([_allocate_frame(s) EXCEPT !.pp[v].f = g,
                                            !.mem[g] = mem[old],
                                            !.fr[old] = @ - 1], p)
         /\ UNCHANGED <<view, regions>>

-----------------------------------------------------------------------------
(* _new_pages for the one-page region at v: create_page(MEM_TYPE_USER)    *)
(* allocates a frame first (ERR_NO_FRAMES), frees it again when v is      *)
(* present (ERR_PAGE_ALREADY_PRESENT), else maps it writable; then the    *)
(* page is zeroed and the region recorded.                                *)
new_pages(p, v) ==
    LET s == _allocate_frame(AllocState(p))
        g == nextfree
    IN
    IF nextfree = NoFrame THEN UNCHANGED memvars
    ELSE IF Present(pte[p][v])
    THEN /\ Commit(free_frame(s, g), p)
         /\ UNCHANGED <<view, regions>>
    ELSE /\ Commit([s EXCEPT !.pp[v] = [f |-> g, rw |-> TRUE, cow |-> FALSE],
                             !.mem[g] = 0], p)
         /\ view' = [view EXCEPT ![p][v] = 0]
         /\ regions' = [regions EXCEPT ![p] = @ \cup {v}]

(* _remove_pages: -2 when no region starts at v, else destroy_page (the   *)
(* entry cleared, its frame freed) and the region entry cleared.          *)
remove_pages(p, v) ==
    IF v \notin regions[p] THEN UNCHANGED memvars
    ELSE /\ Commit([free_frame(AllocState(p), pte[p][v].f)
                        EXCEPT !.pp[v] = Unmapped], p)
         /\ regions' = [regions EXCEPT ![p] = @ \ {v}]
         /\ UNCHANGED view

(* create_god_process: init's user stack page, writable, in the first     *)
(* frame the allocator hands out; every other frame free.                 *)
MemInit ==
    /\ frames = [f \in FrameIds |-> IF f = 0 THEN 1 ELSE 0]
    /\ nextfree = IF NFrames > 1 THEN 1 ELSE NoFrame
    /\ pte = [p \in Procs |-> IF p = InitProc
                              THEN [NoPages EXCEPT ![StackPage] =
                                        [f |-> 0, rw |-> TRUE, cow |-> FALSE]]
                              ELSE NoPages]
    /\ mem = [f \in FrameIds |-> 0]
    /\ view = [p \in Procs |-> [v \in Pages |-> 0]]
    /\ regions = [p \in Procs |-> {}]

====
