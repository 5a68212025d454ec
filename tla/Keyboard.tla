------------------------------ MODULE Keyboard ------------------------------
(***************************************************************************)
(* The keyboard driver of src/kern/drivers/keyboard.c: keyboard_handler,   *)
(* run by the keyboard interrupt on the stack of whichever thread was      *)
(* running, stores the scancode in a ring of KEY_BUFFER_SIZE (N) slots and *)
(* signals new_key; readchar takes keys out under keyboard_mutex and waits *)
(* on new_key when there is none.  Both go through the kernel mutex        *)
(* (mutex.c) and condition variable (condvar.c), whose calls are one step  *)
(* each here (KMutex and CondVar split them further).                      *)
(*                                                                         *)
(* A thread is a stack of frames: its own code at the bottom and, above    *)
(* it, the handler frames of the interrupts it has taken.  Keystrokes are  *)
(* numbered 1, 2, ... in the order typed, and every scancode is taken to   *)
(* carry a character, so each readchar returns after one key.  The         *)
(* history variables stored and got list the keys the handler put in the  *)
(* ring and the keys readchar took out.  The kernel mutex keeps each      *)
(* thread's acquired_lock stack (held, most recent first): locking a mutex *)
(* that is already the top of it panics ("Relock!"), unlocking one that is *)
(* not kernel_panics; either ends the behaviour (panic).                   *)
(***************************************************************************)
EXTENDS Integers, SequencesExt

CONSTANTS
    Readers,    \* threads that call readchar
    Other,      \* a thread that never uses the keyboard (idle, a busy process)
    Calls,      \* readchar calls each reader makes
    N,          \* KEY_BUFFER_SIZE
    Keys,       \* keystrokes typed in a behaviour
    Start,      \* last_entered and last_processed at the start
    Victims,    \* threads a keyboard interrupt may land on
    Nest,       \* may a keystroke interrupt a handler that has acknowledged?
    NoTid,      \* NULL: no owner
    NoMx        \* not waiting for a mutex

Threads == Readers \cup {Other}
KM == "keyboard_mutex"
CVM == "new_key_mutex"
Mutexes == {KM, CVM}

VARIABLES
    ctx,        \* thread -> frames [pc, k], innermost last
    rc,         \* reader -> readchar calls left
    held,       \* thread -> acquired_lock stack, most recent first
    owner,      \* mutex -> owner
    waitq,      \* mutex -> waiting list
    wmx,        \* thread -> the mutex it waits to be handed, or NoMx
    cvq,        \* new_key's waiting list
    desched,    \* thread -> blocked in _deschedule
    aw,         \* thread -> the waiter its cond_signal is making runnable
    buf,        \* keyboard_buffer
    le, lp,     \* last_entered, last_processed
    full,       \* is_buffer_full
    typed,      \* keystrokes so far
    acked,      \* the last keyboard interrupt has been acknowledged
    stored,     \* keys put in the ring, in order
    got,        \* keys readchar returned, in order
    panic       \* "none", "relock" (panic) or "lost" (kernel_panic)

mxvars == <<owner, waitq, wmx, held>>
cvvars == <<cvq, desched, aw>>
kbvars == <<buf, le, lp, full, typed, acked, stored, got>>
vars == <<ctx, rc, mxvars, cvvars, kbvars, panic>>

Frame(l) == [pc |-> l, k |-> 0]
Top(t) == Last(ctx[t])
Goto(t, l) == ctx' = [ctx EXCEPT ![t][Len(ctx[t])].pc = l]
\* The handler returns to the code it interrupted.
Return(t) == ctx' = [ctx EXCEPT ![t] = Front(@)]
\* The CPU can run t: not blocked, and nothing has panicked.
Runs(t) == ~desched[t] /\ panic = "none"
At(t, l) == Top(t).pc = l /\ Runs(t) /\ wmx[t] = NoMx

-----------------------------------------------------------------------------
(* mutex_lock(m), one step: a free mutex is taken; its owner skips the     *)
(* wait loop and panics when m is already its most recent lock; anybody    *)
(* else joins the waiting list and spins until unlock hands m over.  The   *)
(* caller then pushes m on its acquired_lock stack and goes on to l.       *)
mutex_lock(t, m, l) ==
    /\ wmx[t] \in {NoMx, m}
    /\ CASE owner[m] = NoTid \/ wmx[t] = m ->
              /\ owner[m] # NoTid => owner[m] = t
              /\ owner' = [owner EXCEPT ![m] = t]
              /\ held' = [held EXCEPT ![t] = <<m>> \o @]
              /\ wmx' = [wmx EXCEPT ![t] = NoMx]
              /\ Goto(t, l) /\ UNCHANGED <<waitq, panic>>
         [] owner[m] = t /\ held[t] # <<>> /\ Head(held[t]) = m ->
              /\ panic' = "relock"
              /\ UNCHANGED <<ctx, owner, waitq, wmx, held>>
         [] owner[m] = t ->
              /\ held' = [held EXCEPT ![t] = <<m>> \o @]
              /\ Goto(t, l) /\ UNCHANGED <<owner, waitq, wmx, panic>>
         [] OTHER ->
              /\ waitq' = [waitq EXCEPT ![m] = Append(@, t)]
              /\ wmx' = [wmx EXCEPT ![t] = m]
              /\ UNCHANGED <<ctx, owner, held, panic>>

(* mutex_unlock(m): kernel_panic unless m is the caller's most recent     *)
(* lock; pop it; nothing more on a free mutex, else the head of the        *)
(* waiting list (NULL when empty) becomes the owner.                       *)
mutex_unlock(t, m) ==
    IF held[t] = <<>> \/ Head(held[t]) # m
    THEN panic' = "lost" /\ UNCHANGED <<owner, waitq, wmx, held>>
    ELSE /\ held' = [held EXCEPT ![t] = Tail(@)]
         /\ IF owner[m] = NoTid \/ waitq[m] = <<>>
            THEN owner' = [owner EXCEPT ![m] = NoTid] /\ UNCHANGED waitq
            ELSE /\ owner' = [owner EXCEPT ![m] = Head(waitq[m])]
                 /\ waitq' = [waitq EXCEPT ![m] = Tail(@)]
         /\ UNCHANGED <<wmx, panic>>

-----------------------------------------------------------------------------
(* A keystroke: the keyboard interrupt lands on a thread the CPU runs and  *)
(* pushes a handler frame for key typed + 1.  The PIC delivers no other    *)
(* keyboard interrupt until this one is acknowledged.                      *)
Interrupt(t) ==
    /\ t \in Victims /\ Runs(t) /\ wmx[t] = NoMx
    /\ acked /\ typed < Keys
    /\ Nest \/ \A s \in Threads : Len(ctx[s]) = 1
    /\ ctx' = [ctx EXCEPT ![t] = Append(@, [pc |-> "h_lock", k |-> typed + 1])]
    /\ typed' = typed + 1
    /\ acked' = FALSE
    /\ UNCHANGED <<rc, buf, le, lp, full, stored, got, mxvars, cvvars, panic>>

(* keyboard_handler: mutex_lock(&keyboard_mutex).                          *)
HandlerLock(t) ==
    /\ Top(t).pc = "h_lock" /\ Runs(t)
    /\ mutex_lock(t, KM, "h_store")
    /\ UNCHANGED <<rc, kbvars, cvvars>>

\* Mutant: the next slot is computed without wrapping around.
handler_store_nomod(t) ==
    LET i == le + 1 IN
    /\ At(t, "h_store")
    /\ IF ~full
       THEN /\ buf' = [j \in DOMAIN buf |-> IF j = i THEN Top(t).k ELSE buf[j]]
            /\ le' = i
            /\ full' = (i = lp)
            /\ stored' = Append(stored, Top(t).k)
       ELSE UNCHANGED <<buf, le, full, stored>>
    /\ Goto(t, "h_unlock")
    /\ UNCHANGED <<rc, lp, typed, acked, got, mxvars, cvvars, panic>>

\* Mutant: the ring is taken to be full one key early.
handler_store_early(t) ==
    LET i == (le + 1) % N IN
    /\ At(t, "h_store")
    /\ IF ~full
       THEN /\ buf' = [buf EXCEPT ![i] = Top(t).k]
            /\ le' = i
            /\ full' = ((i + 1) % N = lp)
            /\ stored' = Append(stored, Top(t).k)
       ELSE UNCHANGED <<buf, le, full, stored>>
    /\ Goto(t, "h_unlock")
    /\ UNCHANGED <<rc, lp, typed, acked, got, mxvars, cvvars, panic>>

(* The key goes in the slot after last_entered unless the ring is full,   *)
(* which it is when last_entered catches up with last_processed; a key     *)
(* typed into a full ring is dropped.                                      *)
HandlerStore(t) ==
    LET i == (le + 1) % N IN
    /\ At(t, "h_store")
    /\ IF ~full
       THEN /\ buf' = [buf EXCEPT ![i] = Top(t).k]
            /\ le' = i
            /\ full' = (i = lp)
            /\ stored' = Append(stored, Top(t).k)
       ELSE UNCHANGED <<buf, le, full, stored>>
    /\ Goto(t, "h_unlock")
    /\ UNCHANGED <<rc, lp, typed, acked, got, mxvars, cvvars, panic>>

\* Mutant: the handler acknowledges the interrupt and returns unsignalled.
handler_unlock_nosignal(t) ==
    /\ At(t, "h_unlock")
    /\ mutex_unlock(t, KM) /\ Return(t)
    /\ acked' = TRUE
    /\ UNCHANGED <<rc, buf, le, lp, full, typed, stored, got, cvvars>>

(* mutex_unlock(&keyboard_mutex); ack_interrupt; then cond_signal.         *)
HandlerUnlock(t) ==
    /\ At(t, "h_unlock")
    /\ mutex_unlock(t, KM) /\ Goto(t, "h_siglock")
    /\ acked' = TRUE
    /\ UNCHANGED <<rc, buf, le, lp, full, typed, stored, got, cvvars>>

(* cond_signal(&new_key): mutex_lock(&cv->mutex); awaken_first_thread     *)
(* takes the head of the list, NULL when it is empty, and calls            *)
(* _make_runnable on it, yielding to it, until it has descheduled itself;  *)
(* mutex_unlock(&cv->mutex); the handler returns.                          *)
SigLock(t) ==
    /\ Top(t).pc = "h_siglock" /\ Runs(t)
    /\ mutex_lock(t, CVM, "h_pop")
    /\ UNCHANGED <<rc, kbvars, cvvars>>

SigPop(t) ==
    /\ At(t, "h_pop")
    /\ IF cvq = <<>>
       THEN Goto(t, "h_sigunlock") /\ UNCHANGED <<cvq, aw>>
       ELSE /\ aw' = [aw EXCEPT ![t] = Head(cvq)]
            /\ cvq' = Tail(cvq)
            /\ Goto(t, "h_wake")
    /\ UNCHANGED <<rc, desched, kbvars, mxvars, panic>>

SigWake(t) ==
    /\ At(t, "h_wake")
    /\ desched[aw[t]]
    /\ desched' = [desched EXCEPT ![aw[t]] = FALSE]
    /\ aw' = [aw EXCEPT ![t] = NoTid]
    /\ Goto(t, "h_sigunlock")
    /\ UNCHANGED <<rc, cvq, kbvars, mxvars, panic>>

SigUnlock(t) ==
    /\ At(t, "h_sigunlock")
    /\ mutex_unlock(t, CVM) /\ Return(t)
    /\ UNCHANGED <<rc, kbvars, cvvars>>

-----------------------------------------------------------------------------
(* readchar: mutex_lock(&keyboard_mutex); while no key is in the ring      *)
(* (last_processed = last_entered and not full) cond_wait(&new_key,        *)
(* &keyboard_mutex); take the key after last_processed; unlock.            *)
ReadLock(t) ==
    /\ Top(t).pc = "r_lock" /\ Runs(t) /\ rc[t] > 0
    /\ mutex_lock(t, KM, "r_test")
    /\ UNCHANGED <<rc, kbvars, cvvars>>

\* Mutant: the key is read but last_processed is not moved past it.
read_test_keep(t) ==
    LET i == (lp + 1) % N IN
    /\ At(t, "r_test")
    /\ IF lp # le \/ full
       THEN /\ got' = Append(got, buf[i])
            /\ full' = FALSE
            /\ Goto(t, "r_unlock")
       ELSE Goto(t, "w_lockcv") /\ UNCHANGED <<got, full>>
    /\ UNCHANGED <<rc, buf, le, lp, typed, acked, stored, mxvars, cvvars, panic>>

ReadTest(t) ==
    LET i == (lp + 1) % N IN
    /\ At(t, "r_test")
    /\ IF lp # le \/ full
       THEN /\ got' = Append(got, buf[i])
            /\ lp' = i
            /\ full' = FALSE
            /\ Goto(t, "r_unlock")
       ELSE Goto(t, "w_lockcv") /\ UNCHANGED <<got, lp, full>>
    /\ UNCHANGED <<rc, buf, le, typed, acked, stored, mxvars, cvvars, panic>>

ReadUnlock(t) ==
    /\ At(t, "r_unlock")
    /\ mutex_unlock(t, KM) /\ Goto(t, "r_lock")
    /\ rc' = [rc EXCEPT ![t] = @ - 1]
    /\ UNCHANGED <<kbvars, cvvars>>

(* cond_wait(&new_key, &keyboard_mutex): lock cv->mutex; append the       *)
(* caller to the list; unlock cv->mutex, then mp; _deschedule with reject *)
(* = 0; lock mp again and test the ring again.                             *)
WaitLockCv(t) ==
    /\ Top(t).pc = "w_lockcv" /\ Runs(t)
    /\ mutex_lock(t, CVM, "w_add")
    /\ UNCHANGED <<rc, kbvars, cvvars>>

WaitAdd(t) ==
    /\ At(t, "w_add")
    /\ cvq' = Append(cvq, t)
    /\ Goto(t, "w_unlockcv")
    /\ UNCHANGED <<rc, desched, aw, kbvars, mxvars, panic>>

WaitUnlockCv(t) ==
    /\ At(t, "w_unlockcv")
    /\ mutex_unlock(t, CVM) /\ Goto(t, "w_unlockmp")
    /\ UNCHANGED <<rc, kbvars, cvvars>>

WaitUnlockMp(t) ==
    /\ At(t, "w_unlockmp")
    /\ mutex_unlock(t, KM) /\ Goto(t, "w_desched")
    /\ UNCHANGED <<rc, kbvars, cvvars>>

WaitDeschedule(t) ==
    /\ At(t, "w_desched")
    /\ desched' = [desched EXCEPT ![t] = TRUE]
    /\ Goto(t, "w_relock")
    /\ UNCHANGED <<rc, cvq, aw, kbvars, mxvars, panic>>

WaitRelock(t) ==
    /\ Top(t).pc = "w_relock" /\ Runs(t)
    /\ mutex_lock(t, KM, "r_test")
    /\ UNCHANGED <<rc, kbvars, cvvars>>

-----------------------------------------------------------------------------
Step(t) ==
    \/ HandlerLock(t) \/ HandlerStore(t) \/ HandlerUnlock(t)
    \/ SigLock(t) \/ SigPop(t) \/ SigWake(t) \/ SigUnlock(t)
    \/ ReadLock(t) \/ ReadTest(t) \/ ReadUnlock(t)
    \/ WaitLockCv(t) \/ WaitAdd(t) \/ WaitUnlockCv(t) \/ WaitUnlockMp(t)
    \/ WaitDeschedule(t) \/ WaitRelock(t)

(* init_keyboard: both indices at Start, nothing stored, the mutexes and   *)
(* the condition free.                                                     *)
Init ==
    /\ ctx = [t \in Threads |-> <<Frame(IF t \in Readers THEN "r_lock"
                                                      ELSE "run")>>]
    /\ rc = [t \in Threads |-> IF t \in Readers THEN Calls ELSE 0]
    /\ held = [t \in Threads |-> <<>>]
    /\ owner = [m \in Mutexes |-> NoTid]
    /\ waitq = [m \in Mutexes |-> <<>>]
    /\ wmx = [t \in Threads |-> NoMx]
    /\ cvq = <<>>
    /\ desched = [t \in Threads |-> FALSE]
    /\ aw = [t \in Threads |-> NoTid]
    /\ buf = [i \in 0..(N - 1) |-> 0]
    /\ le = Start /\ lp = Start /\ full = FALSE
    /\ typed = 0 /\ acked = TRUE
    /\ stored = <<>> /\ got = <<>>
    /\ panic = "none"

\* Every key typed, no key left in the ring, each reader done or waiting.
Quiet ==
    /\ panic = "none" /\ typed = Keys
    /\ lp = le /\ ~full
    /\ \A t \in Threads : Len(ctx[t]) = 1
    /\ \A r \in Readers : rc[r] = 0 \/ desched[r]

Next ==
    \/ \E t \in Threads : Interrupt(t) \/ Step(t)
    \/ Quiet /\ UNCHANGED vars

Spec == Init /\ [][Next]_vars /\ \A t \in Threads : WF_vars(Step(t))

-----------------------------------------------------------------------------
TypeOK ==
    /\ le \in 0..N /\ lp \in 0..N
    /\ buf \in [0..(N - 1) -> 0..Keys]
    /\ typed \in 0..Keys
    /\ \A m \in Mutexes : owner[m] \in Threads \cup {NoTid}

(* readchar returns the stored keys in the order the handler stored them, *)
(* each once: what it has returned is a prefix of what was stored.         *)
KeysInOrder == IsPrefix(got, stored)

(* The keys readchar returns, over all readers, come in the order they    *)
(* were typed and none twice, whatever interleaving of handler runs and   *)
(* readchar calls, from the boot indices on.                               *)
ReadInTypedOrder == \A i \in 1..Len(got) - 1 : got[i] < got[i + 1]

(* keyboard_handler drops a key only when the ring really holds N keys    *)
(* that readchar has not taken.                                            *)
DropsOnlyWhenFull ==
    [][\A t \in Threads :
         (At(t, "h_store") /\ Top(t)' = [Top(t) EXCEPT !.pc = "h_unlock"]
                           /\ stored' = stored)
            => Len(stored) - Len(got) = N]_vars

(* Every key the handler stores is eventually returned by a readchar,     *)
(* unless the readers have no calls left: new_key's signal reaches a       *)
(* reader even when it races with the reader's cond_wait.                  *)
StoredKeysRead ==
    \A n \in 1..Keys :
        Len(stored) >= n ~> (Len(got) >= n \/ \A r \in Readers : rc[r] = 0)

(* No thread ever locks a mutex that is already its most recent lock.     *)
NoRelockPanic == panic # "relock"

====
