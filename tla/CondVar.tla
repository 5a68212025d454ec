------------------------------- MODULE CondVar -------------------------------
(***************************************************************************)
(* The kernel condition variable of src/kern/lock/condvar.c.  The wait     *)
(* list is kept as the code keeps it: cv->first_waiting, cv->last_waiting  *)
(* and each thread's cond_nextwait pointer.  The cv's internal mutex and   *)
(* the caller's mutex are kernel mutexes, taken when free (KMutex checks   *)
(* their internals); _deschedule and _make_runnable are atomic steps on    *)
(* the thread state (Sched checks how they are made atomic).  Threads      *)
(* interleave freely: a yield is a step that changes nothing.              *)
(*                                                                         *)
(* Waiters run Rounds times: lock mp; cond_wait(cv, mp); unlock mp.        *)
(* Signallers loop for ever on cond_signal, broadcasters on                *)
(* cond_broadcast.                                                          *)
(***************************************************************************)
EXTENDS Integers, Sequences, SequencesExt

CONSTANTS Waiters, Signallers, Broadcasters, NULL, Rounds

Threads == Waiters \cup Signallers \cup Broadcasters

VARIABLES
    cvm,      \* holder of cv->mutex, or NULL
    mtx,      \* holder of the caller's mutex mp, or NULL
    first,    \* cv->first_waiting
    last,     \* cv->last_waiting
    nextw,    \* thread -> cond_nextwait
    st,       \* thread -> THR_RUNNING or THR_BLOCKED
    pc,       \* thread -> place in its loop
    aw,       \* signaller -> the thread awaken_first_thread removed
    rnd       \* waiter -> finished rounds

vars == <<cvm, mtx, first, last, nextw, st, pc, aw, rnd>>

Goto(t, l) == pc' = [pc EXCEPT ![t] = l]

\* mutex_lock on a mutex held by nobody; mutex_unlock.
Acquire(m, t) == m = NULL /\ m' = t
Release(m) == m' = NULL

-----------------------------------------------------------------------------
\* Mutant: addLast that always takes the empty-list branch.
cond_waitlist_addLast_overwrite(thr) ==
    first' = thr /\ last' = thr /\ UNCHANGED nextw

\* cond_waitlist_addLast
cond_waitlist_addLast(thr) ==
    IF last = NULL
    THEN /\ first' = thr /\ last' = thr /\ UNCHANGED nextw
    ELSE /\ nextw' = [nextw EXCEPT ![last] = thr] /\ last' = thr
         /\ UNCHANGED first

\* cond_waitlist_removeHead, as <<removed, first', last'>>.  The removed
\* thread's cond_nextwait is left as it was.
cond_waitlist_removeHead ==
    IF first = NULL THEN <<NULL, first, last>>
    ELSE <<first, nextw[first], IF last = first THEN NULL ELSE last>>

-----------------------------------------------------------------------------
(* A waiter: mutex_lock(mp) before calling cond_wait.                      *)
WaitLockMp(t) ==
    /\ pc[t] = "w_lockmp" /\ rnd[t] < Rounds
    /\ Acquire(mtx, t)
    /\ Goto(t, "w_lockcv")
    /\ UNCHANGED <<cvm, first, last, nextw, st, aw, rnd>>

\* cond_wait: mutex_lock(&cv->mutex).
WaitLockCv(t) ==
    /\ pc[t] = "w_lockcv"
    /\ Acquire(cvm, t)
    /\ Goto(t, "w_add")
    /\ UNCHANGED <<mtx, first, last, nextw, st, aw, rnd>>

\* cond_wait: cond_waitlist_addLast(cv, get_running()).
WaitAdd(t) ==
    /\ pc[t] = "w_add"
    /\ cond_waitlist_addLast(t)
    /\ Goto(t, "w_unlockcv")
    /\ UNCHANGED <<cvm, mtx, st, aw, rnd>>

\* cond_wait: mutex_unlock(&cv->mutex).
WaitUnlockCv(t) ==
    /\ pc[t] = "w_unlockcv"
    /\ Release(cvm)
    /\ Goto(t, "w_unlockmp")
    /\ UNCHANGED <<mtx, first, last, nextw, st, aw, rnd>>

\* cond_wait: mutex_unlock(mp).
WaitUnlockMp(t) ==
    /\ pc[t] = "w_unlockmp"
    /\ Release(mtx)
    /\ Goto(t, "w_desched")
    /\ UNCHANGED <<cvm, first, last, nextw, st, aw, rnd>>

\* Mutant: cond_wait passing a non-zero reject, so _deschedule returns.
WaitDescheduleRejected(t) ==
    /\ pc[t] = "w_desched"
    /\ Goto(t, "w_relock")
    /\ UNCHANGED <<cvm, mtx, first, last, nextw, st, aw, rnd>>

\* cond_wait: _deschedule(&reject) with reject == 0 blocks the caller.
WaitDeschedule(t) ==
    /\ pc[t] = "w_desched"
    /\ st' = [st EXCEPT ![t] = "BLOCKED"]
    /\ Goto(t, "w_relock")
    /\ UNCHANGED <<cvm, mtx, first, last, nextw, aw, rnd>>

\* cond_wait: mutex_lock(mp) once made runnable again.
WaitRelock(t) ==
    /\ pc[t] = "w_relock" /\ st[t] = "RUNNING"
    /\ Acquire(mtx, t)
    /\ Goto(t, "w_unlock")
    /\ UNCHANGED <<cvm, first, last, nextw, st, aw, rnd>>

\* The caller's mutex_unlock(mp) after cond_wait returned.
WaitUnlock(t) ==
    /\ pc[t] = "w_unlock"
    /\ Release(mtx)
    /\ Goto(t, "w_lockmp")
    /\ rnd' = [rnd EXCEPT ![t] = @ + 1]
    /\ UNCHANGED <<cvm, first, last, nextw, st, aw>>

Waiter(t) ==
    \/ WaitLockMp(t) \/ WaitLockCv(t) \/ WaitAdd(t) \/ WaitUnlockCv(t)
    \/ WaitUnlockMp(t) \/ WaitDeschedule(t) \/ WaitRelock(t) \/ WaitUnlock(t)

-----------------------------------------------------------------------------
(* cond_signal and cond_broadcast share awaken_first_thread.              *)

\* mutex_lock(&cv->mutex).
SigLock(t) ==
    /\ pc[t] = "s_lock"
    /\ Acquire(cvm, t)
    /\ Goto(t, "s_pop")
    /\ UNCHANGED <<mtx, first, last, nextw, st, aw, rnd>>

\* awaken_first_thread: remove the head; -1 when there is none, which
\* ends cond_signal and the loop of cond_broadcast.
AwakenPop(t) ==
    LET r == cond_waitlist_removeHead IN
    /\ pc[t] = "s_pop"
    /\ first' = r[2] /\ last' = r[3]
    /\ aw' = [aw EXCEPT ![t] = r[1]]
    /\ Goto(t, IF r[1] = NULL THEN "s_unlock" ELSE "s_mr")
    /\ UNCHANGED <<cvm, mtx, nextw, st, rnd>>

\* Mutant: a single _make_runnable, its failure ignored.
AwakenOnce(t) ==
    LET x == aw[t] IN
    /\ pc[t] = "s_mr"
    /\ st' = [st EXCEPT ![x] = IF @ = "BLOCKED" THEN "RUNNING" ELSE @]
    /\ Goto(t, IF t \in Broadcasters THEN "s_pop" ELSE "s_unlock")
    /\ UNCHANGED <<cvm, mtx, first, last, nextw, aw, rnd>>

\* awaken_first_thread: while (_make_runnable(tid) != 0) _yield(tid).
\* _make_runnable succeeds only on a THR_BLOCKED thread; on success
\* cond_signal goes on to unlock, cond_broadcast to the next head.
AwakenRetry(t) ==
    LET x == aw[t] IN
    /\ pc[t] = "s_mr"
    /\ IF st[x] = "BLOCKED"
       THEN /\ st' = [st EXCEPT ![x] = "RUNNING"]
            /\ Goto(t, IF t \in Broadcasters THEN "s_pop" ELSE "s_unlock")
       ELSE UNCHANGED <<st, pc>>
    /\ UNCHANGED <<cvm, mtx, first, last, nextw, aw, rnd>>

\* mutex_unlock(&cv->mutex).
SigUnlock(t) ==
    /\ pc[t] = "s_unlock"
    /\ Release(cvm)
    /\ Goto(t, "s_lock")
    /\ UNCHANGED <<mtx, first, last, nextw, st, aw, rnd>>

Signaller(t) == SigLock(t) \/ AwakenPop(t) \/ AwakenRetry(t) \/ SigUnlock(t)

-----------------------------------------------------------------------------
\* Threads are created with calloc: every pointer NULL, every thread
\* THR_RUNNING; cond_init empties the list and the mutex.
Init ==
    /\ cvm = NULL /\ mtx = NULL
    /\ first = NULL /\ last = NULL
    /\ nextw = [t \in Threads |-> NULL]
    /\ st = [t \in Threads |-> "RUNNING"]
    /\ pc = [t \in Threads |-> IF t \in Waiters THEN "w_lockmp" ELSE "s_lock"]
    /\ aw = [t \in Threads |-> NULL]
    /\ rnd = [t \in Threads |-> 0]

Next == \/ \E t \in Waiters : Waiter(t)
        \/ \E t \in Signallers \cup Broadcasters : Signaller(t)

\* Mutexes hand over in FIFO order (KMutex, LockReturns), so a thread
\* that keeps being able to take one eventually does.
Fairness == /\ \A t \in Waiters : SF_vars(Waiter(t))
            /\ \A t \in Signallers \cup Broadcasters : SF_vars(Signaller(t))

Spec == Init /\ [][Next]_vars /\ Fairness

-----------------------------------------------------------------------------
\* The list as the code walks it: from first_waiting along cond_nextwait,
\* stopping at last_waiting (k bounds the walk).
RECURSIVE ListSeq(_, _)
ListSeq(p, k) ==
    IF p = NULL \/ k = 0 THEN <<>>
    ELSE <<p>> \o (IF p = last THEN <<>> ELSE ListSeq(nextw[p], k - 1))

\* A waiter is registered from its addLast until it is made runnable.
Registered(t) ==
    \/ pc[t] \in {"w_unlockcv", "w_unlockmp", "w_desched"}
    \/ pc[t] = "w_relock" /\ st[t] = "BLOCKED"

Targeted(t) == \E s \in Signallers \cup Broadcasters : pc[s] = "s_mr" /\ aw[s] = t

\* On cond_waitlist_addLast/removeHead across repeated waits: the list
\* the code walks holds, once each and ending at last_waiting, exactly
\* the registered waiters no signaller has removed yet.
WaitListExact ==
    LET L == ListSeq(first, Cardinality(Threads)) IN
    /\ (first = NULL) = (last = NULL)
    /\ IsInjective(L)
    /\ L # <<>> => L[Len(L)] = last
    /\ ToSet(L) = {t \in Waiters : Registered(t) /\ ~Targeted(t)}

\* No lost wake-up, on cond_wait releasing mp before _deschedule and the
\* retry loop of awaken_first_thread: every waiter that blocks in
\* cond_wait is made runnable again.
WaitReturns == \A t \in Waiters : st[t] = "BLOCKED" ~> st[t] = "RUNNING"

\* The retry loop of awaken_first_thread ends: the removed thread does
\* block, and _make_runnable then succeeds.
AwakenReturns == \A t \in Signallers \cup Broadcasters : pc[t] = "s_mr" ~> pc[t] # "s_mr"

=============================================================================
