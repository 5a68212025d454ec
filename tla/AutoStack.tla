----------------------------- MODULE AutoStack ------------------------------
(***************************************************************************)
(* The user autostack library (src/user/libautostack/autostack.c) over the *)
(* kernel's swexn delivery.  install_autostack registers swexn_handler on  *)
(* an exception stack of one page taken from the heap; a fault on an       *)
(* absent page is delivered to it (the kernel deregisters the handler and  *)
(* writes the ureg frame below esp3); the handler grows the stack by       *)
(* 2^(i-1) - 1 pages for the first i whose zone holds the faulting address *)
(* and whose new_pages succeeds, then registers again through swexn with   *)
(* newureg, which re-runs the instruction.  Other exceptions either panic  *)
(* or are ignored by re-registering and returning to the next instruction. *)
(*                                                                         *)
(* One thread, so the steps follow one another.  Addresses are unsigned    *)
(* and wrap modulo Mod; memory is the set of mapped pages.                 *)
(***************************************************************************)
EXTENDS Integers, FiniteSets

CONSTANTS
    PageSize,    \* PAGE_SIZE
    NPages,      \* pages of the address space
    Word,        \* sizeof(void *)
    UserStart,   \* USER_MEM_START
    FrameSize,   \* sizeof(ureg_t) + 3 words: what the kernel writes below esp3
    MaxPower,    \* MAX_ENLARGEMENT_POWER
    StackHigh,   \* the highest word of the stack
    StackLow,    \* its lowest byte
    ExcBase,     \* exception_stack, the page calloc returned
    Heap,        \* the heap pages mapped when the program starts
    Touches,     \* addresses the program touches
    Causes,      \* the other exceptions it may raise
    Frames       \* free frames when the program starts

Mod == NPages * PageSize
PageOf(a) == (a % Mod) \div PageSize
\* &exception_stack[STACK_SIZE_WORDS - 1], the handler's esp3.
ExcTop == ExcBase + PageSize - Word
\* The exceptions swexn_handler ignores: they go on at the next instruction.
Ignored == {"debug", "breakpoint", "overflow"}

VARIABLES
    mapped,  \* the pages present in the page table
    free,    \* frames left
    low,     \* stack_limits->stack_low
    esp,     \* the thread's swexn_esp, 0 when no handler is registered
    ureg,    \* cause and cr2 of the exception the handler is given
    frameAt, \* the esp3 below which the kernel last wrote a handler frame
    pc,      \* "boot", "user", "handler", or "dead" (the thread was killed)
    died     \* the exception that killed it

vars == <<mapped, free, low, esp, ureg, frameAt, pc, died>>

NoException == [cause |-> "none", cr2 |-> 0]

-----------------------------------------------------------------------------
(* new_pages(base, n pages): create_page on each page, which refuses one   *)
(* below USER_MEM_START or present, and needs a frame; a failure rolls the *)
(* created pages back.                                                      *)
NewPagesOk(base, n) ==
    LET ps == {PageOf(base + j * PageSize) : j \in 0 .. n - 1} IN
    /\ \A j \in 0 .. n - 1 : base + j * PageSize >= UserStart
    /\ ps \cap mapped = {}
    /\ free >= n

NewPages(base, n) ==
    /\ mapped' = mapped \cup {PageOf(base + j * PageSize) : j \in 0 .. n - 1}
    /\ free' = free - n

\* The i-th try of the handler's loop: k = 2^(i-1), k - 1 new pages below
\* stack_low, the unsigned subtraction wrapping.
NewStackPages(i) == 2 ^ (i - 1) - 1
NewStackLow(i) == (low - NewStackPages(i) * PageSize) % Mod
InZone(a, i) == a < low /\ a >= NewStackLow(i)
Grows(a, i) == InZone(a, i) /\ NewPagesOk(NewStackLow(i), NewStackPages(i))

\* check_array(esp3, (sizeof(ureg_t) + 3 words) / 4): that many bytes
\* upward from esp3 are on present pages.
FrameCheck(esp3) ==
    \A j \in 0 .. (FrameSize \div Word) - 1 : PageOf(esp3 + j) \in mapped

-----------------------------------------------------------------------------
(* install_autostack: calloc a page for the exception stack, malloc the    *)
(* limits, and swexn(&exception_stack[STACK_SIZE_WORDS - 1], ...).         *)
install_autostack ==
    /\ pc = "boot"
    /\ esp' = ExcTop
    /\ low' = StackLow
    /\ pc' = "user"
    /\ UNCHANGED <<mapped, free, ureg, frameAt, died>>

\* A thread with no handler, or one whose frame check fails, is killed.
Kill(e) ==
    /\ pc' = "dead" /\ died' = e
    /\ UNCHANGED <<esp, ureg, frameAt>>

(* _page_fault_handler for an absent page (neither zero-fill nor copy-on-  *)
(* write): with a handler and its check_array passing, deregister it,      *)
(* write the frame below esp3 and run the handler; else the thread dies.    *)
PageFault(a) ==
    LET e == [cause |-> "pagefault", cr2 |-> a] IN
    /\ pc = "user" /\ PageOf(a) \notin mapped
    /\ IF esp # 0 /\ FrameCheck(esp)
       THEN /\ esp' = 0 /\ ureg' = e /\ frameAt' = esp /\ pc' = "handler"
            /\ UNCHANGED died
       ELSE Kill(e)
    /\ UNCHANGED <<mapped, free, low>>

(* _exception_handler for any other fault: with a handler, deregister it   *)
(* and write the frame below esp3 with no check; else the thread dies.      *)
Exception(c) ==
    LET e == [cause |-> c, cr2 |-> 0] IN
    /\ pc = "user"
    /\ IF esp # 0
       THEN /\ esp' = 0 /\ ureg' = e /\ frameAt' = esp /\ pc' = "handler"
            /\ UNCHANGED died
       ELSE Kill(e)
    /\ UNCHANGED <<mapped, free, low>>

(* swexn_handler.  A page fault: assert the stack is whole pages, then for *)
(* i = 1 .. MAX_ENLARGEMENT_POWER the first zone holding cr2 whose         *)
(* new_pages succeeds becomes the stack, and swexn is called with          *)
(* exception_stack[STACK_SIZE_WORDS - 1], the word's value (calloc left    *)
(* it 0, and the kernel writes only below esp3), and newureg = ureg.       *)
(* Otherwise the switch: an ignored cause calls swexn(exception_stack,     *)
(* ...), the page's lowest address, and any other one panics.              *)
swexn_handler ==
    LET a == ureg.cr2
        tries == {i \in 1 .. MaxPower : Grows(a, i)}
        i == CHOOSE t \in tries : \A u \in tries : t <= u
    IN
    /\ pc = "handler"
    /\ IF ureg.cause = "pagefault" /\ (StackHigh - low + 4) % PageSize # 0
       THEN Kill(ureg) /\ UNCHANGED <<mapped, free, low>>
       ELSE IF ureg.cause = "pagefault" /\ tries # {}
       THEN /\ NewPages(NewStackLow(i), NewStackPages(i))
            /\ low' = NewStackLow(i)
            /\ esp' = 0
            /\ pc' = "user"
            /\ UNCHANGED <<ureg, frameAt, died>>
       ELSE IF ureg.cause \in Ignored
       THEN /\ esp' = ExcBase /\ pc' = "user"
            /\ UNCHANGED <<mapped, free, low, ureg, frameAt, died>>
       ELSE Kill(ureg) /\ UNCHANGED <<mapped, free, low>>

Init ==
    /\ mapped = Heap \cup {PageOf(a) : a \in StackLow .. StackHigh}
    /\ free = Frames
    /\ low = StackLow
    /\ esp = 0
    /\ ureg = NoException
    /\ frameAt = 0
    /\ pc = "boot"
    /\ died = NoException

Next ==
    \/ install_autostack
    \/ \E a \in Touches : PageFault(a)
    \/ \E c \in Causes : Exception(c)
    \/ swexn_handler

Spec == Init /\ [][Next]_vars

-----------------------------------------------------------------------------
\* The autostack promise: a page fault in the zone below stack_low that the
\* handler's loop can map (some 2^(i-1) - 1 pages hold it and new_pages
\* would succeed) never kills the program, however many growths came first.
GrowthFaultsHandled ==
    pc = "dead" /\ died.cause = "pagefault" =>
        ~\E i \in 1 .. MaxPower : Grows(died.cr2, i)

\* Every handler frame the kernel writes lies inside the exception stack
\* page install_autostack allocated: no delivery overwrites the heap.
FrameInExceptionStack ==
    frameAt # 0 =>
        /\ frameAt - FrameSize >= ExcBase
        /\ frameAt <= ExcBase + PageSize
====
