------------------------------- MODULE RWLock -------------------------------
(***************************************************************************)
(* The kernel readers/writers lock of src/kern/lock/rwlock.c.  Every field *)
(* is read and written under rwlock->mutex, so each stretch of code        *)
(* between taking the mutex and releasing it (or waiting on a condition   *)
(* variable) is one step.  The two condition variables no_threads_in and  *)
(* no_writers_in are FIFO queues: cond_wait appends the caller and        *)
(* releases the mutex, cond_signal removes the head, cond_broadcast all    *)
(* of them, and a removed thread takes the mutex again before cond_wait    *)
(* returns (CondVar checks this behaviour of condvar.c).                  *)
(*                                                                         *)
(* Readers loop on lock(READ)/unlock; writers loop on lock(WRITE) and then *)
(* either unlock or downgrade and unlock as readers.  mode is the part of  *)
(* the lock each thread holds, as its caller sees it.                      *)
(***************************************************************************)
EXTENDS Integers, Sequences, FiniteSets

CONSTANTS Readers, Writers, NULL

Threads == Readers \cup Writers

VARIABLES
    mtx,              \* holder of rwlock->mutex, or NULL
    writer_in, readers_in, writers_waiting, readers_waiting,
    no_threads_in,    \* threads waiting on the condvar, in order
    no_writers_in,
    pc,
    mode              \* thread -> "none", "read" or "write"

vars == <<mtx, writer_in, readers_in, writers_waiting, readers_waiting,
          no_threads_in, no_writers_in, pc, mode>>

Goto(t, l) == pc' = [pc EXCEPT ![t] = l]
Hold(t, m) == mode' = [mode EXCEPT ![t] = m]

InQueue(t, q) == \E i \in 1..Len(q) : q[i] = t

\* cond_signal and cond_broadcast on a queue.
Signal(q) == IF q = <<>> THEN q ELSE Tail(q)
Broadcast(q) == <<>>

\* mutex_lock(&rwlock->mutex), from the place `from` to the place `to`.
LockMutex(t, from, to) ==
    /\ pc[t] = from /\ mtx = NULL
    /\ mtx' = t
    /\ Goto(t, to)
    /\ UNCHANGED <<writer_in, readers_in, writers_waiting, readers_waiting,
                   no_threads_in, no_writers_in, mode>>

-----------------------------------------------------------------------------
(* rwlock_lock(RWLOCK_READ), with the mutex held: wait while a writer is   *)
(* in or waiting, else enter.                                              *)
ReadCheck(t) ==
    /\ pc[t] = "r_check"
    /\ mtx' = NULL
    /\ IF writer_in \/ writers_waiting > 0
       THEN /\ readers_waiting' = readers_waiting + 1
            /\ no_writers_in' = Append(no_writers_in, t)
            /\ Goto(t, "r_wait")
            /\ UNCHANGED <<readers_in, mode>>
       ELSE /\ readers_in' = readers_in + 1
            /\ Hold(t, "read")
            /\ Goto(t, "inside")
            /\ UNCHANGED <<readers_waiting, no_writers_in>>
    /\ UNCHANGED <<writer_in, writers_waiting, no_threads_in>>

\* Mutant: the reader's loop forgets --readers_waiting.
ReadWokenNoDecrement(t) ==
    /\ pc[t] = "r_wait" /\ ~InQueue(t, no_writers_in) /\ mtx = NULL
    /\ mtx' = t
    /\ Goto(t, "r_check")
    /\ UNCHANGED <<writer_in, readers_in, writers_waiting, readers_waiting,
                   no_threads_in, no_writers_in, mode>>

\* cond_wait returns once woken and the mutex is taken again; the loop
\* goes back to its test.
ReadWoken(t) ==
    /\ pc[t] = "r_wait" /\ ~InQueue(t, no_writers_in) /\ mtx = NULL
    /\ mtx' = t
    /\ readers_waiting' = readers_waiting - 1
    /\ Goto(t, "r_check")
    /\ UNCHANGED <<writer_in, readers_in, writers_waiting, no_threads_in,
                   no_writers_in, mode>>

\* Mutant: the writer's test forgets the readers inside.
WriteCheckNoReaders(t) ==
    /\ pc[t] = "w_check"
    /\ mtx' = NULL
    /\ IF writer_in
       THEN /\ writers_waiting' = writers_waiting + 1
            /\ no_threads_in' = Append(no_threads_in, t)
            /\ Goto(t, "w_wait")
            /\ UNCHANGED <<writer_in, mode>>
       ELSE /\ writer_in' = TRUE
            /\ Hold(t, "write")
            /\ Goto(t, "inside")
            /\ UNCHANGED <<writers_waiting, no_threads_in>>
    /\ UNCHANGED <<readers_in, readers_waiting, no_writers_in>>

(* rwlock_lock(RWLOCK_WRITE), with the mutex held: wait once if anybody is *)
(* in, then set writer_in.                                                  *)
WriteCheck(t) ==
    /\ pc[t] = "w_check"
    /\ mtx' = NULL
    /\ IF writer_in \/ readers_in > 0
       THEN /\ writers_waiting' = writers_waiting + 1
            /\ no_threads_in' = Append(no_threads_in, t)
            /\ Goto(t, "w_wait")
            /\ UNCHANGED <<writer_in, mode>>
       ELSE /\ writer_in' = TRUE
            /\ Hold(t, "write")
            /\ Goto(t, "inside")
            /\ UNCHANGED <<writers_waiting, no_threads_in>>
    /\ UNCHANGED <<readers_in, readers_waiting, no_writers_in>>

\* After cond_wait the writer does not test again: it sets writer_in.
WriteWoken(t) ==
    /\ pc[t] = "w_wait" /\ ~InQueue(t, no_threads_in) /\ mtx = NULL
    /\ writers_waiting' = writers_waiting - 1
    /\ writer_in' = TRUE
    /\ Hold(t, "write")
    /\ Goto(t, "inside")
    /\ UNCHANGED <<mtx, readers_in, readers_waiting, no_threads_in,
                   no_writers_in>>

-----------------------------------------------------------------------------
\* Mutant: the last reader tests readers_in == 0 before decrementing it.
UnlockBodyTestFirst(t) ==
    /\ pc[t] = "u_body"
    /\ mtx' = NULL
    /\ IF writer_in
       THEN IF writers_waiting > 0
            THEN /\ no_threads_in' = Signal(no_threads_in)
                 /\ UNCHANGED <<writer_in, readers_in, no_writers_in>>
            ELSE /\ writer_in' = FALSE
                 /\ no_writers_in' = Broadcast(no_writers_in)
                 /\ UNCHANGED <<readers_in, no_threads_in>>
       ELSE /\ readers_in' = readers_in - 1
            /\ no_threads_in' = IF readers_in = 0 /\ writers_waiting > 0
                                THEN Signal(no_threads_in) ELSE no_threads_in
            /\ UNCHANGED <<writer_in, no_writers_in>>
    /\ Hold(t, "none")
    /\ Goto(t, "idle")
    /\ UNCHANGED <<writers_waiting, readers_waiting>>

(* rwlock_unlock, with the mutex held.  Whether the caller was a writer is *)
(* read from writer_in, not from the caller.                               *)
UnlockBody(t) ==
    /\ pc[t] = "u_body"
    /\ mtx' = NULL
    /\ IF writer_in
       THEN IF writers_waiting > 0
            THEN /\ no_threads_in' = Signal(no_threads_in)
                 /\ UNCHANGED <<writer_in, readers_in, no_writers_in>>
            ELSE /\ writer_in' = FALSE
                 /\ no_writers_in' = Broadcast(no_writers_in)
                 /\ UNCHANGED <<readers_in, no_threads_in>>
       ELSE /\ readers_in' = readers_in - 1
            /\ no_threads_in' = IF readers_in - 1 = 0 /\ writers_waiting > 0
                                THEN Signal(no_threads_in) ELSE no_threads_in
            /\ UNCHANGED <<writer_in, no_writers_in>>
    /\ Hold(t, "none")
    /\ Goto(t, "idle")
    /\ UNCHANGED <<writers_waiting, readers_waiting>>

\* rwlock_downgrade, with the mutex held.
DowngradeBody(t) ==
    /\ pc[t] = "d_body"
    /\ mtx' = NULL
    /\ writer_in' = FALSE
    /\ readers_in' = readers_in + 1
    /\ no_writers_in' = Broadcast(no_writers_in)
    /\ Hold(t, "read")
    /\ Goto(t, "inside")
    /\ UNCHANGED <<writers_waiting, readers_waiting, no_threads_in>>

-----------------------------------------------------------------------------
Step(t) ==
    \/ LockMutex(t, "idle", IF t \in Readers THEN "r_check" ELSE "w_check")
    \/ ReadCheck(t) \/ ReadWoken(t) \/ WriteCheck(t) \/ WriteWoken(t)
    \/ LockMutex(t, "inside", "u_body")
    \/ mode[t] = "write" /\ LockMutex(t, "inside", "d_body")
    \/ UnlockBody(t) \/ DowngradeBody(t)

\* rwlock_init.
Init ==
    /\ mtx = NULL
    /\ writer_in = FALSE /\ readers_in = 0
    /\ writers_waiting = 0 /\ readers_waiting = 0
    /\ no_threads_in = <<>> /\ no_writers_in = <<>>
    /\ pc = [t \in Threads |-> "idle"]
    /\ mode = [t \in Threads |-> "none"]

Next == \E t \in Threads : Step(t)

Fairness == \A t \in Threads : SF_vars(Step(t))

Spec == Init /\ [][Next]_vars /\ Fairness

-----------------------------------------------------------------------------
\* The lock as its callers see it (rwlock.h): the abstract lock of
\* RWLockSpec, with the part each thread holds as its state.
Abstract == INSTANCE RWLockSpec WITH mode <- mode

\* rwlock_lock, rwlock_unlock and rwlock_downgrade together implement a
\* readers/writers lock: every step either leaves the holders alone or
\* is a step of RWLockSpec (readers share, a writer is alone, a
\* downgrade lets no writer in).
RWImplementsSpec == Abstract!Spec

\* On the counters of rwlock.c updated across cond_wait: readers_in
\* counts the threads holding the lock for reading, readers_waiting and
\* writers_waiting the threads inside the wait loops.
CountsExact ==
    /\ readers_in = Cardinality({t \in Threads : mode[t] = "read"})
    /\ readers_waiting = Cardinality({t \in Threads : pc[t] = "r_wait"})
    /\ writers_waiting = Cardinality({t \in Threads : pc[t] = "w_wait"})

\* The writer hand-off of rwlock_unlock: a writer that waits on
\* no_threads_in is eventually signalled and gets the lock.  (Readers
\* can starve, as the file's header says.)
WriterEnters == \A t \in Writers : pc[t] = "w_wait" ~> mode[t] = "write"

=============================================================================
