------------------------------ MODULE Console -------------------------------
(***************************************************************************)
(* The console syscalls of src/kern/syscall/drivers.c over the console     *)
(* driver of src/kern/drivers/console.c.  _print, _set_cursor_pos,         *)
(* _get_cursor_pos and _set_term_color run under output_mutex; _readline   *)
(* runs under input_mutex and echoes every key with putbyte, which takes   *)
(* no lock at all.  The kernel is preemptible here (the driver runs with   *)
(* interrupts on), so putbyte's steps interleave with those of other       *)
(* threads: it copies cursor_row/cursor_col into locals, draws, and only   *)
(* then moves the cursor.                                                  *)
(*                                                                         *)
(* Data is abstracted: a character is a string from a small set, NL, BS    *)
(* and NUL stand for '\n', '\b' and '\0', Junk for a byte smalloc left     *)
(* uninitialised; the screen holds only the characters (the attribute      *)
(* bytes matter to nothing checked); scroll and next_cursor are one step   *)
(* each.  readchar is the keyboard driver (Keyboard): here it returns an   *)
(* arbitrary key of Keys, and keys records every key it returned, in       *)
(* order.  Each thread makes the calls of Prog[t] in turn.                 *)
(***************************************************************************)
EXTENDS Integers, SequencesExt

CONSTANTS
    Threads,        \* kernel threads making console calls
    Prog,           \* thread -> its sequence of calls
    H, W,           \* CONSOLE_HEIGHT, CONSOLE_WIDTH
    Printable,      \* characters isprint accepts
    Colors,         \* colours a caller may pass to set_term_color
    ValidColors,    \* the colours check_term_color accepts (0x00..0xFF)
    InitColor,      \* FGND_WHITE | BGND_RED
    MaxLine,        \* MAX_LINE_LENGTH
    NoTid           \* no owner

NL == "NL"
BS == "BS"
NUL == "NUL"
Junk == "junk"
Blank == " "
Keys == Printable \cup {NL, BS}
IM == "input_mutex"
OM == "output_mutex"
Mutexes == {IM, OM}
ERR_INVALID_ARG == -1
ERR_MALLOC_FAIL == -2
Cells == (0..(H - 1)) \X (0..(W - 1))

VARIABLES
    screen,     \* cell -> character shown
    crow, ccol, \* cursor_row, cursor_col
    tcolor,     \* term_color
    owner,      \* mutex -> owner
    waitq,      \* mutex -> waiting list
    pc,         \* thread -> label
    k,          \* thread -> index in Prog[t] of the current call
    pos,        \* thread -> putbytes' index in the string
    pb,         \* thread -> putbyte's [ch, row, col, ret]
    rl,         \* thread -> _readline's [i, cursor, line, done, c]
    keys,       \* every key readchar returned, in order
    mine,       \* thread -> indices in keys of the current _readline's keys
    ubuf,       \* thread -> what _readline copied into the user's buffer
    rv,         \* thread -> value returned by the last call
    ovf,        \* a byte was written past the end of line_buf
    panic       \* "none" or the kernel_panic that halted the kernel

convars == <<screen, crow, ccol, tcolor>>
thrvars == <<pc, k, pos, pb, rl, mine, ubuf, rv>>
vars == <<convars, owner, waitq, thrvars, keys, ovf, panic>>

Call(t) == Prog[t][k[t]]
Halted == panic # "none"
\* check_cursor_position
OnScreen(row, col) == row \in 0..(H - 1) /\ col \in 0..(W - 1)
\* scroll: every row moves one up and the last row is cleared.
Scrolled(s) == [c \in Cells |-> IF c[1] = H - 1 THEN Blank ELSE s[<<c[1] + 1, c[2]>>]]
\* The call is over: back to the dispatcher for the next one.
Finish(t, v) ==
    /\ pc' = [pc EXCEPT ![t] = "next"]
    /\ k' = [k EXCEPT ![t] = @ + 1]
    /\ rv' = [rv EXCEPT ![t] = v]

-----------------------------------------------------------------------------
(* Kernel mutex_lock, one step: a free mutex is taken and the mutex        *)
(* unlock handed to t lets it go on; anybody else joins the waiting list   *)
(* and stays blocked until it is handed the mutex.  The acquired_lock      *)
(* stack and its panics are left out: these calls hold one mutex at a     *)
(* time (Keyboard and KMutex model the stack).                             *)
mutex_lock(t, m, l) ==
    IF owner[m] \in {NoTid, t}
    THEN /\ owner' = [owner EXCEPT ![m] = t]
         /\ pc' = [pc EXCEPT ![t] = l]
         /\ UNCHANGED waitq
    ELSE /\ t \notin ToSet(waitq[m])
         /\ waitq' = [waitq EXCEPT ![m] = Append(@, t)]
         /\ UNCHANGED <<owner, pc>>

LockGate(t, m) == owner[m] \in {NoTid, t} \/ t \notin ToSet(waitq[m])

(* Kernel mutex_unlock: the head of the waiting list, or nobody, owns it.  *)
mutex_unlock(m) ==
    /\ owner' = [owner EXCEPT ![m] = IF waitq[m] = <<>> THEN NoTid ELSE Head(waitq[m])]
    /\ waitq' = [waitq EXCEPT ![m] = IF @ = <<>> THEN @ ELSE Tail(@)]

(* set_cursor: a position off the screen is ignored (-1); else the cursor *)
(* moves there (send_curpos only shows it).                                *)
set_cursor(row, col) ==
    IF OnScreen(row, col) THEN crow' = row /\ ccol' = col ELSE UNCHANGED <<crow, ccol>>

(* check_term_color(color) tests term_color, not its argument.            *)
check_term_color(color) == tcolor \in ValidColors

(* get_cursor passes (cursor_col, cursor_row) to check_cursor_position,    *)
(* swapped, and kernel_panics when that fails.                             *)
get_cursor_fails == ~OnScreen(ccol, crow)

-----------------------------------------------------------------------------
(* putbyte(ch): panic unless the stored cursor is on screen and term_color *)
(* is valid; copy the cursor into row and col, then by character: '\n'     *)
(* goes to the next row, scrolling on the last; '\b' steps back one cell,  *)
(* onto the end of the row above at column 0, and nothing at the origin;   *)
(* a printable character is drawn; anything else is ignored.               *)
PbRead(t) ==
    LET ch == pb[t].ch  row == crow  col == ccol IN
    /\ pc[t] = "pb_read" /\ ~Halted
    /\ CASE ~OnScreen(crow, ccol) ->
              panic' = "cursor" /\ UNCHANGED <<pc, pb>>
         [] ~check_term_color(tcolor) ->
              panic' = "color" /\ UNCHANGED <<pc, pb>>
         [] ch = NL /\ row < H - 1 ->
              /\ pb' = [pb EXCEPT ![t].row = row + 1, ![t].col = 0]
              /\ pc' = [pc EXCEPT ![t] = "pb_set"] /\ UNCHANGED panic
         [] ch = NL ->
              /\ pb' = [pb EXCEPT ![t].row = row, ![t].col = 0]
              /\ pc' = [pc EXCEPT ![t] = "pb_scroll"] /\ UNCHANGED panic
         [] ch = BS /\ row = 0 /\ col = 0 ->
              pc' = [pc EXCEPT ![t] = pb[t].ret] /\ UNCHANGED <<pb, panic>>
         [] ch = BS ->
              /\ pb' = [pb EXCEPT ![t].row = IF col = 0 THEN row - 1 ELSE row,
                                  ![t].col = IF col = 0 THEN W - 1 ELSE col - 1]
              /\ pc' = [pc EXCEPT ![t] = "pb_erase"] /\ UNCHANGED panic
         [] ch \in Printable ->
              /\ pb' = [pb EXCEPT ![t].row = row, ![t].col = col]
              /\ pc' = [pc EXCEPT ![t] = "pb_draw"] /\ UNCHANGED panic
         [] OTHER -> pc' = [pc EXCEPT ![t] = pb[t].ret] /\ UNCHANGED <<pb, panic>>
    /\ UNCHANGED <<convars, owner, waitq, k, pos, rl, keys, mine, ubuf, rv, ovf>>

(* '\n' on the last row: scroll().                                         *)
PbScroll(t) ==
    /\ pc[t] = "pb_scroll" /\ ~Halted
    /\ screen' = Scrolled(screen)
    /\ pc' = [pc EXCEPT ![t] = "pb_set"]
    /\ UNCHANGED <<crow, ccol, tcolor, owner, waitq, k, pos, pb, rl, keys, mine, ubuf, rv, ovf, panic>>

(* '\b': draw_char(row, col, ' ', -1).                                     *)
PbErase(t) ==
    /\ pc[t] = "pb_erase" /\ ~Halted
    /\ screen' = [screen EXCEPT ![<<pb[t].row, pb[t].col>>] = Blank]
    /\ pc' = [pc EXCEPT ![t] = "pb_set"]
    /\ UNCHANGED <<crow, ccol, tcolor, owner, waitq, k, pos, pb, rl, keys, mine, ubuf, rv, ovf, panic>>

(* set_cursor(row, col) with putbyte's locals; putbyte returns.            *)
PbSet(t) ==
    /\ pc[t] = "pb_set" /\ ~Halted
    /\ set_cursor(pb[t].row, pb[t].col)
    /\ pc' = [pc EXCEPT ![t] = pb[t].ret]
    /\ UNCHANGED <<screen, tcolor, owner, waitq, k, pos, pb, rl, keys, mine, ubuf, rv, ovf, panic>>

(* A printable character: draw_char(row, col, ch, color).                  *)
PbDraw(t) ==
    /\ pc[t] = "pb_draw" /\ ~Halted
    /\ screen' = [screen EXCEPT ![<<pb[t].row, pb[t].col>>] = pb[t].ch]
    /\ pc' = [pc EXCEPT ![t] = "pb_next"]
    /\ UNCHANGED <<crow, ccol, tcolor, owner, waitq, k, pos, pb, rl, keys, mine, ubuf, rv, ovf, panic>>

(* next_cursor: from the stored cursor (read again), the next cell, the    *)
(* start of the next row, or, on the last cell, scroll and the start of    *)
(* the last row; putbyte returns.                                          *)
PbNext(t) ==
    /\ pc[t] = "pb_next" /\ ~Halted
    /\ IF ~OnScreen(crow, ccol)
       THEN panic' = "cursor" /\ UNCHANGED <<screen, crow, ccol, pc>>
       ELSE /\ CASE ccol < W - 1 -> ccol' = ccol + 1 /\ UNCHANGED <<screen, crow>>
                 [] crow < H - 1 -> crow' = crow + 1 /\ ccol' = 0 /\ UNCHANGED screen
                 [] OTHER -> screen' = Scrolled(screen) /\ ccol' = 0 /\ UNCHANGED crow
            /\ pc' = [pc EXCEPT ![t] = pb[t].ret]
            /\ UNCHANGED panic
    /\ UNCHANGED <<tcolor, owner, waitq, k, pos, pb, rl, keys, mine, ubuf, rv, ovf>>

-----------------------------------------------------------------------------
(* The dispatcher: the thread makes its next call, if it has one.  A       *)
(* _readline whose size is negative or above MAX_LINE_LENGTH returns       *)
(* ERR_INVALID_ARG; else smalloc gives it an uninitialised line_buf of     *)
(* size bytes and it queues on input_mutex.  The output calls queue on     *)
(* output_mutex.                                                           *)
Dispatch(t) ==
    /\ pc[t] = "next" /\ k[t] <= Len(Prog[t]) /\ ~Halted
    /\ CASE Call(t).op = "readline" /\ (Call(t).size < 0 \/ Call(t).size > MaxLine) ->
              Finish(t, ERR_INVALID_ARG) /\ UNCHANGED <<pos, rl, mine>>
         [] Call(t).op = "readline" ->
              /\ rl' = [rl EXCEPT ![t] = [i |-> 0, cursor |-> 0, done |-> FALSE, c |-> NUL,
                                          line |-> [j \in 1..Call(t).size |-> Junk]]]
              /\ mine' = [mine EXCEPT ![t] = <<>>]
              /\ pc' = [pc EXCEPT ![t] = "rl_alloc"] /\ UNCHANGED <<k, rv, pos>>
         [] Call(t).op = "print" ->
              /\ pos' = [pos EXCEPT ![t] = 1]
              /\ pc' = [pc EXCEPT ![t] = "o_lock"] /\ UNCHANGED <<k, rv, rl, mine>>
         [] OTHER -> pc' = [pc EXCEPT ![t] = "o_lock"] /\ UNCHANGED <<k, rv, pos, rl, mine>>
    /\ UNCHANGED <<convars, owner, waitq, pb, keys, ubuf, ovf, panic>>

(* smalloc of line_buf fails: _readline returns ERR_MALLOC_FAIL.           *)
ReadlineNoMem(t) ==
    /\ pc[t] = "rl_alloc" /\ ~Halted
    /\ Finish(t, ERR_MALLOC_FAIL)
    /\ UNCHANGED <<convars, owner, waitq, pos, pb, rl, keys, mine, ubuf, ovf, panic>>

(* mutex_lock(&output_mutex) in _print and the cursor and colour calls.   *)
OutLock(t) ==
    /\ pc[t] = "o_lock" /\ ~Halted /\ LockGate(t, OM)
    /\ mutex_lock(t, OM, IF Call(t).op = "print" THEN "pr_loop" ELSE "o_body")
    /\ UNCHANGED <<convars, k, pos, pb, rl, keys, mine, ubuf, rv, ovf, panic>>

(* putbytes(buf, size): putbyte each character until size of them or a    *)
(* '\0'.                                                                   *)
PrintLoop(t) ==
    LET s == Call(t).s IN
    /\ pc[t] = "pr_loop" /\ ~Halted
    /\ IF pos[t] <= Len(s) /\ s[pos[t]] # NUL
       THEN /\ pb' = [pb EXCEPT ![t] = [ch |-> s[pos[t]], row |-> 0, col |-> 0, ret |-> "pr_loop"]]
            /\ pos' = [pos EXCEPT ![t] = @ + 1]
            /\ pc' = [pc EXCEPT ![t] = "pb_read"]
       ELSE pc' = [pc EXCEPT ![t] = "o_unlock"] /\ UNCHANGED <<pb, pos>>
    /\ UNCHANGED <<convars, owner, waitq, k, rl, keys, mine, ubuf, rv, ovf, panic>>

(* The body of _set_cursor_pos, _get_cursor_pos and _set_term_color.       *)
OutBody(t) ==
    LET c == Call(t) IN
    /\ pc[t] = "o_body" /\ ~Halted
    /\ CASE c.op = "set_cursor" ->
              /\ set_cursor(c.row, c.col)
              /\ rv' = [rv EXCEPT ![t] = IF OnScreen(c.row, c.col) THEN 0 ELSE -1]
              /\ UNCHANGED <<tcolor, panic>>
         [] c.op = "get_cursor" /\ get_cursor_fails ->
              panic' = "get_cursor" /\ UNCHANGED <<crow, ccol, tcolor, rv>>
         [] c.op = "get_cursor" ->
              rv' = [rv EXCEPT ![t] = 0] /\ UNCHANGED <<crow, ccol, tcolor, panic>>
         [] c.op = "set_color" ->
              /\ tcolor' = IF check_term_color(c.color) THEN c.color ELSE tcolor
              /\ rv' = [rv EXCEPT ![t] = IF check_term_color(c.color) THEN 0 ELSE -1]
              /\ UNCHANGED <<crow, ccol, panic>>
    /\ pc' = [pc EXCEPT ![t] = "o_unlock"]
    /\ UNCHANGED <<screen, owner, waitq, k, pos, pb, rl, keys, mine, ubuf, ovf>>

(* mutex_unlock(&output_mutex); _print returns 0, the others what their    *)
(* body returned.                                                          *)
OutUnlock(t) ==
    /\ pc[t] = "o_unlock" /\ ~Halted
    /\ mutex_unlock(OM)
    /\ Finish(t, IF Call(t).op = "print" THEN 0 ELSE rv[t])
    /\ UNCHANGED <<convars, pos, pb, rl, keys, mine, ubuf, ovf, panic>>

-----------------------------------------------------------------------------
(* line_buf[j] = v, j counted from 0; a write at size or beyond lands     *)
(* past the smalloc'd block.                                               *)
Store(line, j, v) == IF j + 1 \in DOMAIN line THEN [line EXCEPT ![j + 1] = v] ELSE line
Outside(line, j) == j + 1 \notin DOMAIN line
\* strncpy(buf, line_buf, n): n bytes, NUL from the first NUL on.
StrNCopy(line, n) == [j \in 1..n |-> IF \E x \in 1..j : line[x] = NUL THEN NUL ELSE line[j]]

(* _readline, line_buf allocated: mutex_lock(&input_mutex).                *)
RlAlloc(t) ==
    /\ pc[t] = "rl_alloc" /\ ~Halted
    /\ pc' = [pc EXCEPT ![t] = "rl_lock"]
    /\ UNCHANGED <<convars, owner, waitq, k, pos, pb, rl, keys, mine, ubuf, rv, ovf, panic>>

RlLock(t) ==
    /\ pc[t] = "rl_lock" /\ ~Halted /\ LockGate(t, IM)
    /\ mutex_lock(t, IM, IF Call(t).size > 0 THEN "rl_read" ELSE "rl_unlock")
    /\ UNCHANGED <<convars, k, pos, pb, rl, keys, mine, ubuf, rv, ovf, panic>>

(* c = readchar(); putbyte(c) unless c is '\b' with cursor at 0.           *)
RlRead(t) ==
    /\ pc[t] = "rl_read" /\ ~Halted
    /\ \E c \in Keys :
         /\ keys' = Append(keys, c)
         /\ mine' = [mine EXCEPT ![t] = Append(@, Len(keys) + 1)]
         /\ rl' = [rl EXCEPT ![t].c = c]
         /\ IF c # BS \/ rl[t].cursor # 0
            THEN /\ pb' = [pb EXCEPT ![t] = [ch |-> c, row |-> 0, col |-> 0, ret |-> "rl_edit"]]
                 /\ pc' = [pc EXCEPT ![t] = "pb_read"]
            ELSE pc' = [pc EXCEPT ![t] = "rl_edit"] /\ UNCHANGED pb
    /\ UNCHANGED <<convars, owner, waitq, k, pos, ubuf, rv, ovf, panic>>

(* The switch on c and ++i.  '\n' stores it, strncpy's i + 1 bytes to the  *)
(* user and sets done, then falls through into '\b': line_buf[cursor--] =  *)
(* 0 when cursor > 0.  Any other key is stored at cursor++.  The loop goes *)
(* on while i < size and not done.                                          *)
RlEdit(t) ==
    LET r == rl[t]
        nl == Store(r.line, r.cursor, NL)
        \* the '\b' arm, reached from '\n' too
        Back(line, cur) == IF cur > 0
                           THEN [line |-> Store(line, cur, NUL), cursor |-> cur - 1,
                                 out |-> Outside(line, cur)]
                           ELSE [line |-> line, cursor |-> cur, out |-> FALSE]
        new == CASE r.c = NL -> Back(nl, r.cursor + 1)
                 [] r.c = BS -> Back(r.line, r.cursor)
                 [] OTHER -> [line |-> Store(r.line, r.cursor, r.c),
                              cursor |-> r.cursor + 1, out |-> FALSE]
        done == r.c = NL
    IN
    /\ pc[t] = "rl_edit" /\ ~Halted
    /\ rl' = [rl EXCEPT ![t] = [r EXCEPT !.line = new.line, !.cursor = new.cursor,
                                         !.done = done, !.i = r.i + 1]]
    /\ ubuf' = IF done THEN [ubuf EXCEPT ![t] = StrNCopy(nl, r.i + 1)] ELSE ubuf
    /\ ovf' = (ovf \/ new.out)
    /\ pc' = [pc EXCEPT ![t] = IF r.i + 1 < Call(t).size /\ ~done THEN "rl_read" ELSE "rl_unlock"]
    /\ UNCHANGED <<convars, owner, waitq, k, pos, pb, keys, mine, rv, panic>>

(* mutex_unlock(&input_mutex); sfree(line_buf); return i.                  *)
RlUnlock(t) ==
    /\ pc[t] = "rl_unlock" /\ ~Halted
    /\ mutex_unlock(IM)
    /\ Finish(t, rl[t].i)
    /\ UNCHANGED <<convars, pos, pb, rl, keys, mine, ubuf, ovf, panic>>

-----------------------------------------------------------------------------
Step(t) ==
    \/ Dispatch(t) \/ ReadlineNoMem(t)
    \/ OutLock(t) \/ PrintLoop(t) \/ OutBody(t) \/ OutUnlock(t)
    \/ PbRead(t) \/ PbScroll(t) \/ PbErase(t) \/ PbSet(t) \/ PbDraw(t) \/ PbNext(t)
    \/ RlAlloc(t) \/ RlLock(t) \/ RlRead(t) \/ RlEdit(t) \/ RlUnlock(t)

(* init_console and init_syscall_mutexes: a blank screen, the cursor at    *)
(* the origin, white on red, both mutexes free.                            *)
Init ==
    /\ screen = [c \in Cells |-> Blank]
    /\ crow = 0 /\ ccol = 0 /\ tcolor = InitColor
    /\ owner = [m \in Mutexes |-> NoTid]
    /\ waitq = [m \in Mutexes |-> <<>>]
    /\ pc = [t \in Threads |-> "next"]
    /\ k = [t \in Threads |-> 1]
    /\ pos = [t \in Threads |-> 1]
    /\ pb = [t \in Threads |-> [ch |-> NUL, row |-> 0, col |-> 0, ret |-> "next"]]
    /\ rl = [t \in Threads |-> [i |-> 0, cursor |-> 0, done |-> FALSE, c |-> NUL, line |-> <<>>]]
    /\ keys = <<>>
    /\ mine = [t \in Threads |-> <<>>]
    /\ ubuf = [t \in Threads |-> <<>>]
    /\ rv = [t \in Threads |-> 0]
    /\ ovf = FALSE
    /\ panic = "none"

\* Every thread has made all its calls.
Terminated == \A t \in Threads : pc[t] = "next" /\ k[t] > Len(Prog[t])

Next ==
    \/ \E t \in Threads : Step(t)
    \/ (Terminated \/ Halted) /\ UNCHANGED vars

Spec == Init /\ [][Next]_vars

-----------------------------------------------------------------------------
TypeOK ==
    /\ screen \in [Cells -> Printable \cup {Blank}]
    /\ crow \in Int /\ ccol \in Int /\ tcolor \in Colors
    /\ \A m \in Mutexes : owner[m] \in Threads \cup {NoTid}
    /\ \A t \in Threads : k[t] \in 1..(Len(Prog[t]) + 1)

\* The C string in a buffer: the bytes before the first NUL.
CStr(b) == LET z == SelectInSeq(b, LAMBDA x : x = NUL)
           IN IF z = 0 THEN b ELSE SubSeq(b, 1, z - 1)
\* The line a user typing ks sees: '\b' takes back the last key, if any.
EditKey(line, c) == IF c = BS THEN (IF line = <<>> THEN <<>> ELSE Front(line))
                    ELSE Append(line, c)
Edit(ks) == FoldLeft(EditKey, <<>>, ks)
\* The keys the current _readline of t has read.
KeysOf(t) == [j \in 1..Len(mine[t]) |-> keys[mine[t][j]]]

(* A _readline ended by '\n' leaves in the user's buffer exactly the line  *)
(* typed, with each '\b' taking back the key before it and the '\n' kept:  *)
(* line_buf's cursor, the zero written by the '\b' arm (also reached from  *)
(* '\n' by falling through) and strncpy's i + 1 bytes agree.               *)
LineEdited ==
    \A t \in Threads :
        pc[t] = "rl_unlock" /\ rl[t].done => CStr(ubuf[t]) = Edit(KeysOf(t))

(* _readline writes only inside line_buf: the '\n' arm's fall-through     *)
(* into '\b' writes line_buf[cursor] after cursor++, which is size when    *)
(* the line fills the buffer.                                              *)
LineInBounds == ~ovf

====
