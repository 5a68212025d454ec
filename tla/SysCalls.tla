------------------------------ MODULE SysCalls -------------------------------
(***************************************************************************)
(* The argument checks of src/kern/syscall/syshelper.c (check_page,        *)
(* check_buffer, check_array, check_string) and the system-call shims      *)
(* that use them before touching user memory: _readline, _print and        *)
(* _get_cursor_pos (drivers.c), _deschedule (management.c), _readfile     *)
(* with getbytes (misc.c, syshelper.c) and the argument half of _exec      *)
(* with check_string_array and string_array_length (lifecycle.c).         *)
(*                                                                         *)
(* The address space is 2^AddrBits bytes in pages of 2^PageBits bytes;     *)
(* addresses, cursor, checked and the size_t lengths wrap modulo Mod as    *)
(* the 32-bit values do.  pt gives each page the flags of its entry        *)
(* (get_pte returning NULL is an entry that is not present).  The bytes   *)
(* of memory matter only as zero or not: a string check is given the set  *)
(* of NUL addresses.  Each step of a shim records the checks it ran (chk,  *)
(* with the code's verdict) and the user bytes its body touched (acc).     *)
(***************************************************************************)
EXTENDS Integers, FiniteSets

CONSTANTS
    AddrBits,    \* 32
    PageBits,    \* 12
    Word,        \* sizeof(void *)
    StrMax,      \* STR_MAX_LEN
    MaxLine,     \* MAX_LINE_LENGTH
    FileLen,     \* execlen of the file _readfile names
    KernelPages, \* the pages of the kernel's direct map
    Ops,         \* the system calls the user program makes
    ArgsAt,      \* where the program puts its argument arrays
    Ptrs,        \* the buffer, string and int pointers it passes
    NulAt,       \* where memory may hold a NUL byte
    Sizes,       \* sizes and counts it passes (as C ints)
    UregWords,   \* sizeof(ureg_t) / sizeof(void *)
    UserStart,   \* USER_MEM_START
    StrArrMax,   \* STRARR_MAX_SIZE
    MaxArgs,     \* MAX_ARGS
    ExecVecs,    \* the argvec pointers it passes to exec
    ExecNuls,    \* the NUL bytes of memory around them (sets of addresses)
    ArgPtrs      \* what the non-NULL words of an argvec point to

Mod == 2 ^ AddrBits
PageSize == 2 ^ PageBits
Addr == 0..(Mod - 1)
Pages == 0..(Mod \div PageSize - 1)
PageOf(a) == a \div PageSize
PAGE_ADDR(a) == a - (a % PageSize)
\* A C int passed where a size_t is expected.
SizeT(n) == n % Mod

NotPresent == [present |-> FALSE, user |-> FALSE, rw |-> FALSE]
Kernel     == [present |-> TRUE,  user |-> FALSE, rw |-> TRUE]
ReadOnly   == [present |-> TRUE,  user |-> TRUE,  rw |-> FALSE]
ReadWrite  == [present |-> TRUE,  user |-> TRUE,  rw |-> TRUE]
UserEntries == {NotPresent, ReadOnly, ReadWrite}

NoHandler == [esp |-> 0, eip |-> 0]
UregSize == UregWords * Word

VARIABLES
    pt,     \* page -> the flags of its page-table entry
    pc,     \* "idle", or "rf_copy" between the two steps of _readfile
    chk,    \* the checks the last step ran, with their verdicts
    acc,    \* the user bytes the last step read or wrote
    swexn   \* the thread's swexn_esp and swexn_eip (0 and 0: none)

vars == <<pt, pc, chk, acc, swexn>>

-----------------------------------------------------------------------------
(* check_page: the entry is present and, for a write, user and writable.  *)
check_page(a, write) ==
    LET e == pt[PageOf(a)] IN e.present /\ (write => e.user /\ e.rw)

(* The loop of check_buffer and check_array: from cursor, while checked < *)
(* len (unsigned), test the page and step to the next page, adding the    *)
(* bytes left in this one.  fuel bounds the laps; a loop that outlives it  *)
(* would spin for ever.                                                    *)
\* Mutant: the step adds a whole page, whatever the cursor's offset.
RECURSIVE PageWalk_nooffset(_, _, _, _, _)
PageWalk_nooffset(cursor, checked, len, write, fuel) ==
    IF ~(checked < len) THEN "accept"
    ELSE IF ~check_page(cursor, write) THEN "reject"
    ELSE IF fuel = 0 THEN "spin"
    ELSE PageWalk_nooffset((PAGE_ADDR(cursor) + PageSize) % Mod,
                           (checked + PageSize) % Mod, len, write, fuel - 1)

RECURSIVE PageWalk(_, _, _, _, _)
PageWalk(cursor, checked, len, write, fuel) ==
    IF ~(checked < len) THEN "accept"
    ELSE IF ~check_page(cursor, write) THEN "reject"
    ELSE IF fuel = 0 THEN "spin"
    ELSE PageWalk((PAGE_ADDR(cursor) + PageSize) % Mod,
                  (checked + PageSize - (cursor - PAGE_ADDR(cursor))) % Mod,
                  len, write, fuel - 1)

Laps == Cardinality(Pages) + 2

check_buffer(buf, len, write) == PageWalk(buf, 0, len, write, Laps)

\* check_array(array, len) is the same walk, read-only, over len bytes.
check_array(array, len) == PageWalk(array, 0, len, FALSE, Laps)

(* check_string: test the page of cursor, then scan its bytes while        *)
(* i < PAGE_ADDR(cursor) + PAGE_SIZE (unsigned, so 0 on the last page) and *)
(* checked < STR_MAX_LEN; a NUL accepts.                                   *)
\* Mutant: the pages after the first are scanned without check_page.
RECURSIVE StrWalk_nocheck(_, _, _, _)
StrWalk_nocheck(nul, cursor, checked, fuel) ==
    LET end == (PAGE_ADDR(cursor) + PageSize) % Mod
        n == IF cursor < end THEN IF end - cursor < StrMax - checked
                                  THEN end - cursor ELSE StrMax - checked
             ELSE 0
    IN IF ~(checked < StrMax) THEN "reject"
       ELSE IF checked = 0 /\ ~check_page(cursor, FALSE) THEN "reject"
       ELSE IF \E j \in 0..(n - 1) : cursor + j \in nul THEN "accept"
       ELSE IF fuel = 0 THEN "spin"
       ELSE StrWalk_nocheck(nul, end, checked + n, fuel - 1)

RECURSIVE StrWalk(_, _, _, _)
StrWalk(nul, cursor, checked, fuel) ==
    LET end == (PAGE_ADDR(cursor) + PageSize) % Mod
        n == IF cursor < end THEN IF end - cursor < StrMax - checked
                                  THEN end - cursor ELSE StrMax - checked
             ELSE 0
    IN IF ~(checked < StrMax) THEN "reject"
       ELSE IF ~check_page(cursor, FALSE) THEN "reject"
       ELSE IF \E j \in 0..(n - 1) : cursor + j \in nul THEN "accept"
       ELSE IF fuel = 0 THEN "spin"
       ELSE StrWalk(nul, end, checked + n, fuel - 1)

check_string(nul, str) ==
    StrWalk(nul, str, 0, StrMax + Cardinality(Pages))

StrCheck(nul, str) ==
    [op |-> "string", a |-> str, n |-> 0, w |-> FALSE, nul |-> nul,
     v |-> check_string(nul, str)]
BufCheck(buf, len, write) ==
    [op |-> "buffer", a |-> buf, n |-> len, w |-> write, nul |-> {},
     v |-> check_buffer(buf, len, write)]
ArrCheck(a, words) ==
    [op |-> "array", a |-> a, n |-> words, w |-> FALSE, nul |-> {},
     v |-> check_array(a, words)]
PageCheck(a, write) ==
    [op |-> "page", a |-> a, n |-> 1, w |-> write, nul |-> {},
     v |-> IF check_page(a, write) THEN "accept" ELSE "reject"]

Bytes(a, n) == {(a + k) % Mod : k \in 0..(n - 1)}
Reads(S) == {[a |-> x, w |-> FALSE] : x \in S}
Writes(S) == {[a |-> x, w |-> TRUE] : x \in S}

\* The args array of n words: check_array(args, n), then the words are read.
ArgsRead(args, n) ==
    IF check_array(args, n) = "accept" THEN Reads(Bytes(args, n * Word)) ELSE {}

-----------------------------------------------------------------------------
(* The first NUL at or after s, as a distance (there is one).             *)
NulDist(nul, s) ==
    CHOOSE k \in 0..(Mod - 1) :
        /\ (s + k) % Mod \in nul
        /\ \A j \in 0..(k - 1) : (s + j) % Mod \notin nul

Done(checks, touched) ==
    /\ chk' = checks /\ acc' = touched
    /\ UNCHANGED pt

(* _readline: check_array(args, 2), check_buffer(buf, size, TRUE), then   *)
(* 0 <= size <= MAX_LINE_LENGTH; the line is copied into at most size      *)
(* bytes of buf (strncpy after the keys are read).                         *)
Readline(args, size, buf) ==
    LET arr == ArrCheck(args, 2)
        bc == BufCheck(buf, SizeT(size), TRUE)
        ok == arr.v = "accept" /\ bc.v = "accept" /\ 0 <= size /\ size <= MaxLine
    IN /\ pc = "idle" /\ "readline" \in Ops
       /\ Done(IF arr.v = "accept" THEN {arr, bc} ELSE {arr},
               ArgsRead(args, 2) \cup
                   (IF ok THEN Writes(Bytes(buf, size)) ELSE {}))
       /\ UNCHANGED <<pc, swexn>>

(* _print: check_array(args, 2), check_buffer(buf, size, FALSE), then      *)
(* putbytes(buf, size) reads up to size bytes, fewer at a NUL (the model   *)
(* takes all size of them; none when size <= 0).                           *)
SysPrint(args, size, buf) ==
    LET arr == ArrCheck(args, 2)
        bc == BufCheck(buf, SizeT(size), FALSE)
    IN /\ pc = "idle" /\ "print" \in Ops
       /\ Done(IF arr.v = "accept" THEN {arr, bc} ELSE {arr},
               ArgsRead(args, 2) \cup
                   (IF arr.v = "accept" /\ bc.v = "accept" /\ size > 0
                    THEN Reads(Bytes(buf, size)) ELSE {}))
       /\ UNCHANGED <<pc, swexn>>

(* _get_cursor_pos: check_array(args, 2), check_page(row, TRUE) and        *)
(* check_page(col, TRUE); get_cursor then writes an int through each.      *)
GetCursorPos(args, row, col) ==
    LET arr == ArrCheck(args, 2)
        rc == PageCheck(row, TRUE)
        cc == PageCheck(col, TRUE)
        run == {arr} \cup (IF arr.v = "accept" THEN {rc} ELSE {})
                     \cup (IF arr.v = "accept" /\ rc.v = "accept" THEN {cc} ELSE {})
        ok == arr.v = "accept" /\ rc.v = "accept" /\ cc.v = "accept"
    IN /\ pc = "idle" /\ "get_cursor_pos" \in Ops
       /\ Done(run, ArgsRead(args, 2) \cup
                    (IF ok THEN Writes(Bytes(row, Word) \cup Bytes(col, Word))
                     ELSE {}))
       /\ UNCHANGED <<pc, swexn>>

(* _deschedule: check_page(flag, FALSE), then *flag is read.              *)
Deschedule(flag) ==
    LET fc == PageCheck(flag, FALSE) IN
    /\ pc = "idle" /\ "deschedule" \in Ops
    /\ Done({fc}, IF fc.v = "accept" THEN Reads(Bytes(flag, Word)) ELSE {})
    /\ UNCHANGED <<pc, swexn>>

(* _readfile, up to check_string(filename): check_array(args, 4) and the  *)
(* string check, over memory whose NULs are nul.  (The bytes strcmp reads *)
(* later are the ones check_string examined; they are not recorded.)       *)
RfName(args, filename, nul) ==
    LET arr == ArrCheck(args, 4)
        sc == StrCheck(nul, filename)
    IN /\ pc = "idle" /\ "readfile" \in Ops
       /\ pc' = IF arr.v = "accept" /\ sc.v = "accept" THEN "rf_copy" ELSE "idle"
       /\ Done(IF arr.v = "accept" THEN {arr, sc} ELSE {arr}, ArgsRead(args, 4))
       /\ UNCHANGED swexn

(* getbytes(filename, 0, size, buf): NULL and negative arguments are       *)
(* refused, exec2obj_entry finds the file or not (found), and the bytes    *)
(* are copied into buf while i < size and i < execlen (the stop at an EOF  *)
(* byte only shortens the copy): the bytes of buf it writes.               *)
getbytes(size, buf, found) ==
    IF buf = 0 \/ size < 0 \/ ~found THEN {}
    ELSE Bytes(buf, IF size < FileLen THEN size ELSE FileLen)

(* _readfile, the rest: count < 0 is refused; the result of               *)
(* check_buffer(buf, count, TRUE) is dropped (the if has an empty body);   *)
(* offset is 0; then getbytes.                                             *)
RfCopy(buf, count, found) ==
    /\ pc = "rf_copy"
    /\ pc' = "idle"
    /\ UNCHANGED swexn
    /\ Done(IF count < 0 THEN {} ELSE {BufCheck(buf, SizeT(count), TRUE)},
            IF count < 0 THEN {} ELSE Writes(getbytes(count, buf, found)))

FirstOf(S) == CHOOSE k \in S : \A j \in S : k <= j

(* check_string_array: from cursor = arr, while checked < STRARR_MAX_SIZE, *)
(* test the page, then take the words at i = cursor, cursor + 4, ... below *)
(* the page's end (none on the last page): a NUL first byte accepts, and  *)
(* check_string of the word itself, not of the string it points to, that  *)
(* fails rejects.  The next lap starts at the next page's first byte,     *)
(* whatever arr's alignment.  The verdict, with the words string-checked. *)
RECURSIVE ArrWalk(_, _, _, _)
ArrWalk(nul, cursor, checked, fuel) ==
    LET end == (PAGE_ADDR(cursor) + PageSize) % Mod
        n == IF cursor < end THEN (end - cursor + Word - 1) \div Word ELSE 0
        slot(k) == cursor + k * Word
        stops == {k \in 0..(n - 1) :
                    slot(k) \in nul \/ check_string(nul, slot(k)) # "accept"}
        first == FirstOf(stops)
    IN IF ~(checked < StrArrMax) \/ ~check_page(cursor, FALSE)
       THEN [v |-> "reject", strs |-> {}]
       ELSE IF stops # {}
       THEN [v |-> IF slot(first) \in nul THEN "accept" ELSE "reject",
             strs |-> {slot(k) : k \in {j \in 0..first : slot(j) \notin nul}}]
       ELSE IF fuel = 0 THEN [v |-> "spin", strs |-> {}]
       ELSE LET r == ArrWalk(nul, end, checked + n, fuel - 1)
            IN [r EXCEPT !.strs = @ \cup {slot(k) : k \in 0..(n - 1)}]

check_string_array(nul, arr) == ArrWalk(nul, arr, 0, Laps)

\* A word whose four bytes are NUL is a NULL pointer.
WordNull(nul, a) == Bytes(a, Word) \subseteq nul

(* string_array_length: 0 for NULL, else the index of the first NULL word *)
(* among the first MAX_ARGS + 1, else ERR_ARRAY_LENGTH.                   *)
string_array_length(nul, arr) ==
    LET nulls == {k \in 0..MaxArgs : WordNull(nul, (arr + k * Word) % Mod)} IN
    IF arr = 0 THEN 0 ELSE IF nulls = {} THEN -1 ELSE FirstOf(nulls)

\* The bytes strlen and strncpy read of a string at p: up to its NUL.
StrBytes(nul, p) == IF nul = {} THEN Addr ELSE Bytes(p, NulDist(nul, p) + 1)

(* _exec, the argument half: check_array(args, 2), check_string(execname) *)
(* and check_string_array(argvec); then, when the file is an ELF one      *)
(* (elf), string_array_length reads the words of argvec up to a NULL one  *)
(* and every argument is read by strlen and strncpy (a negative count     *)
(* copies none).  A non-NULL word holds a pointer the model does not     *)
(* spell in bytes: arg, one of ArgPtrs.  strcmp reads what check_string   *)
(* examined, as in _readfile; the load that follows is ExecLoad.          *)
Exec(args, execname, argvec, nul, arg, elf) ==
    LET arr == ArrCheck(args, 2)
        sc == StrCheck(nul, execname)
        aw == check_string_array(nul, argvec)
        ac == [op |-> "strarray", a |-> argvec, n |-> 0, w |-> FALSE,
               nul |-> nul, v |-> aw.v]
        n == string_array_length(nul, argvec)
        ok == arr.v = "accept" /\ sc.v = "accept" /\ aw.v = "accept" /\ elf
    IN /\ pc = "idle" /\ "exec" \in Ops
       /\ Done(IF arr.v # "accept" THEN {arr}
               ELSE IF sc.v # "accept" THEN {arr, sc}
               ELSE {arr, sc, ac} \cup {StrCheck(nul, x) : x \in aw.strs},
               ArgsRead(args, 2) \cup
                   (IF ok /\ argvec # 0
                    THEN Reads(Bytes(argvec, Word * (IF n >= 0 THEN n + 1
                                                     ELSE MaxArgs + 1)))
                         \cup (IF n > 0 THEN Reads(StrBytes(nul, arg)) ELSE {})
                    ELSE {}))
       /\ UNCHANGED <<pc, swexn>>

(* _swexn: check_array(args, 4); a non-NULL esp3 must pass               *)
(* check_page(esp3, TRUE), a non-NULL eip check_page(eip, FALSE) and lie   *)
(* at or above USER_MEM_START; a non-NULL newureg must pass               *)
(* check_array(newureg, sizeof(ureg_t) / 4 bytes), and its               *)
(* selectors and eflags, which the call reads, must be legal.  Then esp3   *)
(* or eip NULL deregisters, anything else registers, and newureg's         *)
(* registers are read again to be adopted.                                 *)
Swexn(args, esp3, eip, newureg, legal) ==
    LET arr == ArrCheck(args, 4)
        ec == PageCheck(esp3, TRUE)
        ic == PageCheck(eip, FALSE)
        uc == ArrCheck(newureg, UregWords)
        escOk == esp3 = 0 \/ ec.v = "accept"
        eipOk == eip = 0 \/ (ic.v = "accept" /\ eip >= UserStart)
        urgOk == newureg = 0 \/ uc.v = "accept"
        ok == escOk /\ eipOk /\ urgOk /\ (newureg = 0 \/ legal)
        run == {arr} \cup
               (IF arr.v = "accept" /\ esp3 # 0 THEN {ec} ELSE {}) \cup
               (IF arr.v = "accept" /\ escOk /\ eip # 0 THEN {ic} ELSE {}) \cup
               (IF arr.v = "accept" /\ escOk /\ eipOk /\ newureg # 0
                THEN {uc} ELSE {})
    IN /\ pc = "idle" /\ "swexn" \in Ops
       /\ swexn' = IF arr.v = "accept" /\ ok
                   THEN IF esp3 = 0 \/ eip = 0 THEN NoHandler
                        ELSE [esp |-> esp3, eip |-> eip]
                   ELSE swexn
       /\ Done(run, ArgsRead(args, 4) \cup
                    (IF arr.v = "accept" /\ escOk /\ eipOk /\ urgOk /\ newureg # 0
                     THEN Reads(Bytes(newureg, UregSize)) ELSE {}))
       /\ UNCHANGED pc

\* The handler's frame below esp3: the ureg_t at esp3 - sizeof(ureg_t) and,
\* under it, the return address, arg and the ureg pointer.
HandlerFrame(esp3) ==
    Bytes((esp3 - UregSize - 3 * Word) % Mod, UregSize + 3 * Word)

Registered == swexn.esp # 0 /\ swexn.eip # 0

(* _page_fault_handler, for a fault on a page that is neither zero-fill    *)
(* nor copy-on-write: with a handler registered, check_array(esp3,         *)
(* (sizeof(ureg_t) + 3 words) / 4 bytes), then deregister, write         *)
(* the ureg and the arguments below esp3 and launch the handler.  Without  *)
(* a handler, or when the check fails, panic: the thread vanishes (the     *)
(* next thread of the model starts with none, as create_thread sets).     *)
PageFault ==
    LET fc == ArrCheck(swexn.esp, (UregSize + 3 * Word) \div Word) IN
    /\ pc = "idle" /\ "fault" \in Ops
    /\ \E p \in Pages : ~pt[p].present
    /\ swexn' = NoHandler
    /\ Done(IF Registered THEN {fc} ELSE {},
            IF Registered /\ fc.v = "accept"
            THEN Writes(HandlerFrame(swexn.esp)) ELSE {})
    /\ UNCHANGED pc

(* _exception_handler, for any other fault the user caused: with a        *)
(* handler registered, deregister it and write the ureg and the arguments  *)
(* below esp3 with no check (the check_region call is commented out);     *)
(* otherwise panic, and the thread vanishes.                               *)
Exception ==
    /\ pc = "idle" /\ "exception" \in Ops
    /\ swexn' = NoHandler
    /\ Done({}, IF Registered THEN Writes(HandlerFrame(swexn.esp)) ELSE {})
    /\ UNCHANGED pc

Next ==
    \/ \E a \in ArgsAt, s \in Sizes, b \in Ptrs : Readline(a, s, b) \/ SysPrint(a, s, b)
    \/ \E a \in ArgsAt, r, c \in Ptrs : GetCursorPos(a, r, c)
    \/ \E f \in Ptrs : Deschedule(f)
    \/ \E a \in ArgsAt, f \in Ptrs, z \in {{}} \cup {{x} : x \in NulAt} :
           RfName(a, f, z)
    \/ \E b \in Ptrs, s \in Sizes, found \in BOOLEAN : RfCopy(b, s, found)
    \/ \E a \in ArgsAt, e, i, u \in {0} \cup Ptrs, legal \in BOOLEAN :
           Swexn(a, e, i, u, legal)
    \/ \E a \in ArgsAt, f \in Ptrs, v \in ExecVecs, z \in ExecNuls, x \in ArgPtrs,
          elf \in BOOLEAN : Exec(a, f, v, z, x, elf)
    \/ PageFault
    \/ Exception

(* A process's address space: the kernel's pages and user pages that are   *)
(* absent, read-only (text, copy-on-write) or writable.  Physical memory  *)
(* is far smaller than the address space, so some page is always absent.   *)
Init ==
    /\ pt \in {f \in [Pages -> {Kernel} \cup UserEntries] :
                 /\ \A p \in Pages : (f[p] = Kernel) <=> (p \in KernelPages)
                 /\ \E p \in Pages : ~f[p].present}
    /\ pc = "idle"
    /\ chk = {} /\ acc = {}
    /\ swexn = NoHandler

Spec == Init /\ [][Next]_vars

-----------------------------------------------------------------------------
(* check_buffer(buf, len) (documented in bytes), walking page by page     *)
(* with the offset arithmetic of its loop and the int/size_t comparison    *)
(* of its signed len, ends and accepts exactly the ranges whose every byte *)
(* passes check_page.  check_array, documented in words, is AccessesChecked.*)
CheckBufferExact ==
    \A c \in chk : c.op = "buffer" =>
        c.v = IF \A x \in Bytes(c.a, c.n) : check_page(x, c.w)
              THEN "accept" ELSE "reject"

(* A string check_string accepts can be read up to its NUL without a      *)
(* fault, although the scan skips the bytes of the last page of memory.    *)
CheckStringSafe ==
    \A c \in chk : c.op = "string" /\ c.v = "accept" =>
        /\ c.nul # {}
        /\ \A k \in 0..NulDist(c.nul, c.a) : check_page((c.a + k) % Mod, FALSE)

(* Spec: strings are checked up to the STR_MAX_LEN ceiling: an accepted    *)
(* string has its NUL within STR_MAX_LEN bytes.                            *)
CheckStringBounded ==
    \A c \in chk : c.op = "string" /\ c.v = "accept" =>
        c.nul # {} /\ NulDist(c.nul, c.a) < StrMax

(* The bytes a system call touches pass the checks its shim made: the      *)
(* kernel never faults on a user address.                                  *)
AccessesChecked == \A x \in acc : check_page(x.a, x.w)

(* Spec: user pointers are checked against the page table for Present and  *)
(* User, and ReadWrite when written: a system call touches no kernel page  *)
(* and writes no read-only one.                                            *)
UserAccessOnly ==
    \A x \in acc : LET e == pt[PageOf(x.a)] IN e.present /\ e.user /\ (x.w => e.rw)

(* The kernel writes for the user only into user pages that are present   *)
(* and writable: a system call or a fault delivery never overwrites kernel *)
(* memory or a read-only page.                                             *)
UserWritesOnly ==
    \A x \in acc : x.w => pt[PageOf(x.a)].user /\ pt[PageOf(x.a)].rw

====
