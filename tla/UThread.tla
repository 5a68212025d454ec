------------------------------- MODULE UThread ------------------------------
(***************************************************************************)
(* The thread library of src/user/libthread/p2thread.c with the semaphore  *)
(* of semaphore.c, over the user mutex (UMutex) and condition variable     *)
(* (UCond) of the same library.                                            *)
(*                                                                         *)
(* Kernel threads run programs: a sequence of library calls, <<"create",   *)
(* f>> (thr_create of the function Funcs[f], itself a program),            *)
(* <<"join", i>> (thr_join of the thread this one created i-th),           *)
(* <<"sem_wait", 0>>, <<"sem_signal", 0>> and the rwlock calls of         *)
(* rwlock.c (below).  A child that returns from                            *)
(* its function calls thr_exit (thr_launch).  Main is the thread that ran  *)
(* thr_init.  Every line that touches shared data is one step, except      *)
(* where a lock the step holds keeps others away; shared data the code     *)
(* reads and writes without a lock (nextbase, the threads list in          *)
(* thr_create) gets a step per access.  Descriptors are named by their     *)
(* user tid; desc[i].kid is the kernel id.  Pages are numbered; a stack    *)
(* is StackPages pages below its base.                                     *)
(***************************************************************************)
EXTENDS UCond, SequencesExt, FiniteSets

CONSTANTS
    Main,        \* the thread that called thr_init
    MainProg,    \* Main's calls
    Funcs,       \* function index -> calls of a thread running it
    MinTid,      \* MIN_THREAD_ID, the tid thr_init gives Main
    Top,         \* nextbase after thr_init
    StackPages,  \* stackpages
    SemInit,     \* the count of the semaphore
    UserFrames   \* frames new_pages can still map

VARIABLES
    pc, prog,    \* thread -> place; calls still to make
    made,        \* thread -> tids its thr_create calls returned, in order
    loc,         \* thread -> local variables of the call it is in
    threads,     \* the "threads" list of descriptors (tids), head first
    desc,        \* tid -> descriptor
    nextID, nextbase,
    regions,     \* pages new_pages has mapped
    stktop,      \* kernel thread -> the stack base thr_spawn gave it, or 0
    semn,        \* sem->n
    insem,       \* threads between sem_wait's return and sem_signal
    rw,          \* the rwlock's writer_in, readers_in, writers_waiting, readers_waiting
    inrw         \* thread -> "read" or "write" while it holds the rwlock, else "none"

rwvars == <<rw, inrw>>
libvars == <<threads, desc, nextID, nextbase, regions, stktop, semn, insem, rwvars>>
thrvars == <<pc, prog, made, loc>>
vars == <<thrvars, libvars, mxvars, cvvars>>

DescIds == MinTid..(MinTid + Cardinality(Threads) - 1)
NoDesc == [kid |-> NoTid, zombie |-> FALSE, joined |-> FALSE]
NoCv == <<"none", 0>>

\* threads_mutex, each descriptor's mutex and death condvar, the semaphore.
TM == <<"threads", 0>>
DM(i) == <<"desc", i>>
Death(i) == <<"death", i>>
SM == <<"sem", 0>>
Slots == <<"slots", 0>>
RWM == <<"rwlock", 0>>
NTI == <<"no_threads_in", 0>>
NWI == <<"no_writers_in", 0>>
CvMx(cv) == <<cv[1] \o "_mutex", cv[2]>>

LocInit == [base |-> 0, nb |-> 0, self |-> 0, kid |-> NoTid, tid |-> 0,
            tgt |-> 0, cv |-> NoCv, mp |-> NoMx, ret |-> "next", pmx |-> NoMx,
            bc |-> FALSE]

Op(t) == Head(prog[t])
Goto(t, l) == pc' = [pc EXCEPT ![t] = l]
Set(t, f, v) == loc' = [loc EXCEPT ![t][f] = v]
\* A thread runs when it is not waiting for a mutex nor descheduled.
Runs(t) == Free(t) /\ ~desched[t]
\* Thread t runs at place l.
At(t, l) == pc[t] = l /\ Runs(t)
\* The call at the head of the program returns.
Return(t) == prog' = [prog EXCEPT ![t] = Tail(@)]

\* thr_init: Main's descriptor in the list, nextbase below Main's stack.
LibInit ==
    /\ pc = [t \in Threads |-> IF t = Main THEN "next" ELSE "free"]
    /\ prog = [t \in Threads |-> IF t = Main THEN MainProg ELSE <<>>]
    /\ made = [t \in Threads |-> <<>>]
    /\ loc = [t \in Threads |-> LocInit]
    /\ threads = <<MinTid>>
    /\ desc = [i \in DescIds |-> IF i = MinTid THEN [NoDesc EXCEPT !.kid = Main]
                                               ELSE NoDesc]
    /\ nextID = MinTid + 1
    /\ nextbase = Top
    /\ regions = {}
    /\ stktop = [t \in Threads |-> 0]
    /\ semn = SemInit
    /\ insem = {}
    /\ rw = [writer_in |-> FALSE, readers_in |-> 0, writers_waiting |-> 0,
             readers_waiting |-> 0]
    /\ inrw = [t \in Threads |-> "none"]

-----------------------------------------------------------------------------
(* thr_getdesc: lock threads_mutex, thrlist_findkern(threads, gettid()),   *)
(* unlock.  A descriptor that is not found fails the assert: "abort".      *)
getdesc_lock(t, l) ==
    /\ mutex_lock(t, TM)
    /\ Goto(t, l)
    /\ UNCHANGED <<prog, made, loc, libvars, cvvars>>

\* The descriptor lists of p2thrlist.c hold tids, head first.
\* thrlist_findkern and thrlist_finduser: the position of the first
\* descriptor with that kernel id or tid, 0 (NULL) when there is none.
thrlist_findkern(k) == SelectInSeq(threads, LAMBDA i : desc[i].kid = k)
thrlist_finduser(tid) == SelectInSeq(threads, LAMBDA i : i = tid)

\* thrlist_addFirst: the new node becomes the head.
thrlist_addFirst(l, d) == Cons(d, l)

getdesc_find(t, l) ==
    LET n == thrlist_findkern(t) IN
    /\ IF n = 0
       THEN /\ Goto(t, "abort") /\ UNCHANGED <<loc, mxvars>>
       ELSE /\ Set(t, "self", threads[n])
            /\ mutex_unlock(t, TM)
            /\ Goto(t, l)
    /\ UNCHANGED <<prog, made, libvars, cvvars>>

(* A step that only takes or releases mutex m and moves on to l.           *)
LockStep(t, m, l) ==
    /\ mutex_lock(t, m) /\ Goto(t, l)
    /\ UNCHANGED <<prog, made, loc, libvars, cvvars>>
UnlockStep(t, m, l) ==
    /\ mutex_unlock(t, m) /\ Goto(t, l)
    /\ UNCHANGED <<prog, made, loc, libvars, cvvars>>

-----------------------------------------------------------------------------
(* thr_create(func): thr_getdesc, then mutex_lock(self->mutex).            *)
CreateGetdesc(t) ==
    /\ At(t, "next") /\ prog[t] # <<>> /\ Op(t)[1] = "create"
    /\ getdesc_lock(t, "c_find")

CreateFind(t) == At(t, "c_find") /\ getdesc_find(t, "c_lock")

CreateLock(t) == At(t, "c_lock") /\ LockStep(t, DM(loc[t].self), "c_base")

(* base = nextbase: a load of the global, which nothing protects.          *)
CreateBase(t) ==
    /\ At(t, "c_base")
    /\ Set(t, "base", nextbase) /\ Goto(t, "c_store")
    /\ UNCHANGED <<prog, made, libvars, mxvars, cvvars>>

(* nextbase = nextbase - stackpages*PAGE_SIZE: the compiler may reuse the  *)
(* load of `base` or load again; either way the store comes later.         *)
CreateStore(t) ==
    /\ At(t, "c_store")
    /\ \E x \in {loc[t].base, nextbase} :
          /\ nextbase' = x - StackPages
          /\ loc' = [loc EXCEPT ![t].nb = x - StackPages]
    /\ Goto(t, "c_pages")
    /\ UNCHANGED <<prog, made, threads, desc, nextID, regions, stktop, rwvars, semn,
                   insem, mxvars, cvvars>>

(* new_pages(nextbase, ...), nextbase read again (or the value just       *)
(* stored reused): ERR_PAGE_ALREADY_PRESENT on pages already mapped,       *)
(* ERR_NO_FRAMES past UserFrames; the error is returned with self->mutex   *)
(* still held.                                                             *)
CreatePages(t) ==
    /\ At(t, "c_pages")
    /\ \E nb \in {loc[t].nb, nextbase} :
         LET new == nb..(nb + StackPages - 1)
         IN  IF new \cap regions = {} /\ Cardinality(regions \cup new) <= UserFrames
             THEN /\ regions' = regions \cup new
                  /\ Goto(t, "c_spawn")
                  /\ UNCHANGED <<prog, made>>
             ELSE /\ Goto(t, "next") /\ Return(t)
                  /\ made' = [made EXCEPT ![t] = Append(@, -1)]
                  /\ UNCHANGED regions
    /\ UNCHANGED <<loc, threads, desc, nextID, nextbase, stktop, rwvars, semn, insem,
                   mxvars, cvvars>>

(* thr_spawn(base, func, arg, self->mutex): thread_fork; the child starts  *)
(* in thr_launch on the stack at base.                                     *)
CreateSpawn(t) ==
    /\ At(t, "c_spawn")
    /\ \E k \in Threads :
          /\ pc[k] = "free"
          /\ pc' = [pc EXCEPT ![t] = "c_desc", ![k] = "l_lock"]
          /\ prog' = [prog EXCEPT ![k] = Funcs[Op(t)[2]]]
          /\ loc' = [loc EXCEPT ![t].kid = k, ![k].pmx = DM(loc[t].self)]
          /\ stktop' = [stktop EXCEPT ![k] = loc[t].base]
    /\ UNCHANGED <<made, threads, desc, nextID, nextbase, regions, semn, insem,
                   rwvars, mxvars, cvvars>>

(* thr_newdesc(childid, nextbase) takes tid nextID++; thrlist_addFirst     *)
(* puts it at the head of "threads", with threads_mutex not held.          *)
CreateDesc(t) ==
    /\ At(t, "c_desc")
    /\ desc' = [desc EXCEPT ![nextID] = [NoDesc EXCEPT !.kid = loc[t].kid]]
    /\ threads' = thrlist_addFirst(threads, nextID)
    /\ nextID' = nextID + 1
    /\ Set(t, "tid", nextID) /\ Goto(t, "c_untm")
    /\ UNCHANGED <<prog, made, nextbase, regions, stktop, rwvars, semn, insem,
                   mxvars, cvvars>>

(* mutex_unlock(threads_mutex), which this thread never locked.            *)
CreateUnlockThreads(t) == At(t, "c_untm") /\ UnlockStep(t, TM, "c_unself")

CreateUnlockSelf(t) ==
    /\ At(t, "c_unself")
    /\ mutex_unlock(t, DM(loc[t].self))
    /\ Goto(t, "next") /\ Return(t)
    /\ made' = [made EXCEPT ![t] = Append(@, loc[t].tid)]
    /\ UNCHANGED <<loc, libvars, cvvars>>

-----------------------------------------------------------------------------
(* thr_launch: lock and unlock the parent's mutex, so that the parent has  *)
(* made the descriptor, then run the function.                             *)
\* Mutant: the child runs its function without waiting for its parent.
LaunchLock_skip(t) ==
    /\ At(t, "l_lock")
    /\ Goto(t, "next")
    /\ UNCHANGED <<prog, made, loc, libvars, mxvars, cvvars>>

LaunchLock(t) == At(t, "l_lock") /\ LockStep(t, loc[t].pmx, "l_unlock")

LaunchUnlock(t) == At(t, "l_unlock") /\ UnlockStep(t, loc[t].pmx, "next")

(* thr_exit, when the function returns: thr_getdesc; lock self->mutex;     *)
(* zombie = 1 and unlock; cond_signal(self->death); vanish.                *)
ExitGetdesc(t) ==
    /\ At(t, "next") /\ prog[t] = <<>> /\ t # Main
    /\ getdesc_lock(t, "x_find")

ExitFind(t) == At(t, "x_find") /\ getdesc_find(t, "x_lock")

ExitLock(t) == At(t, "x_lock") /\ LockStep(t, DM(loc[t].self), "x_zombie")

\* Mutant: thr_exit marks the zombie but never signals its death condvar.
exit_zombie_nosignal(t) ==
    LET i == loc[t].self IN
    /\ At(t, "x_zombie")
    /\ desc' = [desc EXCEPT ![i].zombie = TRUE]
    /\ mutex_unlock(t, DM(i))
    /\ Goto(t, "gone")
    /\ UNCHANGED <<prog, made, loc, threads, nextID, nextbase, regions, stktop, rwvars,
                   semn, insem, cvvars>>

ExitZombie(t) ==
    LET i == loc[t].self IN
    /\ At(t, "x_zombie")
    /\ desc' = [desc EXCEPT ![i].zombie = TRUE]
    /\ mutex_unlock(t, DM(i))
    /\ loc' = [loc EXCEPT ![t].cv = Death(i), ![t].ret = "gone", ![t].bc = FALSE]
    /\ Goto(t, "cs_lock")
    /\ UNCHANGED <<prog, made, threads, nextID, nextbase, regions, stktop, rwvars,
                   semn, insem, cvvars>>

(* thr_join(tid): thrlist_finduser under threads_mutex (-1 when absent);   *)
(* lock the target's mutex; while it is not a zombie, joined = 1 and       *)
(* cond_wait(target->death, target->mutex); read the status and unlock.    *)
JoinLock(t) ==
    /\ At(t, "next") /\ prog[t] # <<>> /\ Op(t)[1] = "join"
    /\ mutex_lock(t, TM)
    /\ Set(t, "tgt", made[t][Op(t)[2]]) /\ Goto(t, "j_find")
    /\ UNCHANGED <<prog, made, libvars, cvvars>>

JoinFind(t) ==
    /\ At(t, "j_find")
    /\ mutex_unlock(t, TM)
    /\ IF thrlist_finduser(loc[t].tgt) # 0
       THEN Goto(t, "j_lock") /\ UNCHANGED prog
       ELSE Goto(t, "next") /\ Return(t)
    /\ UNCHANGED <<made, loc, libvars, cvvars>>

JoinLockTarget(t) == At(t, "j_lock") /\ LockStep(t, DM(loc[t].tgt), "j_test")

JoinTest(t) ==
    LET i == loc[t].tgt IN
    /\ At(t, "j_test")
    /\ IF desc[i].zombie
       THEN /\ mutex_unlock(t, DM(i))
            /\ Goto(t, "next") /\ Return(t)
            /\ UNCHANGED <<desc, loc>>
       ELSE /\ desc' = [desc EXCEPT ![i].joined = TRUE]
            /\ loc' = [loc EXCEPT ![t].cv = Death(i), ![t].mp = DM(i),
                                  ![t].ret = "j_test"]
            /\ Goto(t, "cw_lock")
            /\ UNCHANGED <<prog, mxvars>>
    /\ UNCHANGED <<made, threads, nextID, nextbase, regions, stktop, rwvars, semn,
                   insem, cvvars>>

-----------------------------------------------------------------------------
(* cond_wait(loc.cv, loc.mp), returning to loc.ret.                        *)
WaitLockCv(t) == At(t, "cw_lock") /\ LockStep(t, CvMx(loc[t].cv), "cw_add")

WaitAdd(t) ==
    /\ At(t, "cw_add")
    /\ cond_wait_add(t, loc[t].cv, loc[t].mp)
    /\ Goto(t, "cw_uncv")
    /\ UNCHANGED <<prog, made, loc, libvars>>

WaitUnlockCv(t) ==
    At(t, "cw_uncv") /\ UnlockStep(t, CvMx(loc[t].cv), "cw_block")

WaitBlock(t) ==
    /\ At(t, "cw_block")
    /\ cond_wait_block(t)
    /\ Goto(t, "cw_relock")
    /\ UNCHANGED <<prog, made, loc, libvars>>

WaitRelock(t) == At(t, "cw_relock") /\ LockStep(t, loc[t].mp, loc[t].ret)

(* cond_signal(loc.cv), returning to loc.ret; "gone" is thr_exit's vanish. *)
(* cond_broadcast (loc.bc) goes back to awaken_first_thread until the list *)
(* is empty.                                                               *)
SigLock(t) == At(t, "cs_lock") /\ LockStep(t, CvMx(loc[t].cv), "cs_pop")

SigPop(t) ==
    /\ At(t, "cs_pop")
    /\ awaken_pop(t, loc[t].cv)
    /\ Goto(t, IF cvq[loc[t].cv] = <<>> THEN "cs_unlock" ELSE "cs_wake")
    /\ UNCHANGED <<prog, made, loc, libvars>>

SigWake(t) ==
    /\ At(t, "cs_wake")
    /\ awaken_make_runnable(t)
    /\ Goto(t, IF loc[t].bc THEN "cs_pop" ELSE "cs_unlock")
    /\ UNCHANGED <<prog, made, loc, libvars>>

SigUnlock(t) ==
    At(t, "cs_unlock") /\ UnlockStep(t, CvMx(loc[t].cv), loc[t].ret)

-----------------------------------------------------------------------------
(* sem_wait: lock sem->mutex; --n; when n < 0, cond_wait(free_slots,       *)
(* sem->mutex); unlock.                                                    *)
SemWaitLock(t) ==
    /\ At(t, "next") /\ prog[t] # <<>> /\ Op(t)[1] = "sem_wait"
    /\ LockStep(t, SM, "sw_dec")

\* Mutant: the count is tested before it is decremented.
sem_wait_dec_early(t) ==
    /\ At(t, "sw_dec")
    /\ semn' = semn - 1
    /\ IF semn < 0
       THEN /\ loc' = [loc EXCEPT ![t].cv = Slots, ![t].mp = SM,
                                  ![t].ret = "sw_unlock"]
            /\ Goto(t, "cw_lock")
       ELSE Goto(t, "sw_unlock") /\ UNCHANGED loc
    /\ UNCHANGED <<prog, made, threads, desc, nextID, nextbase, regions,
                   stktop, rwvars, insem, mxvars, cvvars>>

\* Mutant: the count is tested but never decremented.
sem_wait_no_dec(t) ==
    /\ At(t, "sw_dec")
    /\ Goto(t, "sw_unlock")
    /\ UNCHANGED <<prog, made, loc, libvars, mxvars, cvvars>>

SemWaitDec(t) ==
    /\ At(t, "sw_dec")
    /\ semn' = semn - 1
    /\ IF semn - 1 < 0
       THEN /\ loc' = [loc EXCEPT ![t].cv = Slots, ![t].mp = SM,
                                  ![t].ret = "sw_unlock"]
            /\ Goto(t, "cw_lock")
       ELSE Goto(t, "sw_unlock") /\ UNCHANGED loc
    /\ UNCHANGED <<prog, made, threads, desc, nextID, nextbase, regions,
                   stktop, rwvars, insem, mxvars, cvvars>>

SemWaitUnlock(t) ==
    /\ At(t, "sw_unlock")
    /\ mutex_unlock(t, SM)
    /\ insem' = insem \cup {t}
    /\ Goto(t, "next") /\ Return(t)
    /\ UNCHANGED <<made, loc, threads, desc, nextID, nextbase, regions,
                   stktop, rwvars, semn, cvvars>>

(* sem_signal: lock sem->mutex; ++n; when n <= 0, cond_signal(free_slots); *)
(* unlock.                                                                 *)
SemSignalLock(t) ==
    /\ At(t, "next") /\ prog[t] # <<>> /\ Op(t)[1] = "sem_signal"
    /\ LockStep(t, SM, "ss_inc")

SemSignalInc(t) ==
    /\ At(t, "ss_inc")
    /\ semn' = semn + 1
    /\ insem' = insem \ {t}
    /\ IF semn + 1 <= 0
       THEN /\ loc' = [loc EXCEPT ![t].cv = Slots, ![t].ret = "ss_unlock",
                                  ![t].bc = FALSE]
            /\ Goto(t, "cs_lock")
       ELSE Goto(t, "ss_unlock") /\ UNCHANGED loc
    /\ UNCHANGED <<prog, made, threads, desc, nextID, nextbase, regions,
                   stktop, rwvars, mxvars, cvvars>>

SemSignalUnlock(t) ==
    /\ At(t, "ss_unlock")
    /\ mutex_unlock(t, SM)
    /\ Goto(t, "next") /\ Return(t)
    /\ UNCHANGED <<made, loc, libvars, cvvars>>

-----------------------------------------------------------------------------
(* The readers/writers lock of rwlock.c: rwlock->mutex (RWM) guards its    *)
(* counters; readers wait on no_writers_in (NWI), writers on no_threads_in *)
(* (NTI).  Calls <<"rw_read", 0>>, <<"rw_write", 0>>, <<"rw_unlock", 0>>   *)
(* and <<"rw_downgrade", 0>>; each starts with mutex_lock(rwlock->mutex).  *)
RwLockMx(t) ==
    /\ At(t, "next") /\ prog[t] # <<>>
    /\ Op(t)[1] \in {"rw_read", "rw_write", "rw_unlock", "rw_downgrade"}
    /\ LockStep(t, RWM, CASE Op(t)[1] = "rw_unlock" -> "ru_test"
                          [] Op(t)[1] = "rw_downgrade" -> "rd_body"
                          [] OTHER -> "rl_test")

\* Shorthand: t goes to cond_wait(cv, rwlock->mutex) returning to l.
RwWait(t, cv, l) ==
    /\ loc' = [loc EXCEPT ![t].cv = cv, ![t].mp = RWM, ![t].ret = l]
    /\ Goto(t, "cw_lock")
\* Shorthand: t goes to cond_signal(cv), or with b cond_broadcast, then l.
RwSignal(t, cv, b, l) ==
    /\ loc' = [loc EXCEPT ![t].cv = cv, ![t].ret = l, ![t].bc = b]
    /\ Goto(t, "cs_lock")

\* Mutant: a reader does not wait for a writer that is in.
rw_test_reader_nowait(t) ==
    /\ At(t, "rl_test")
    /\ IF Op(t)[1] = "rw_read"
       THEN IF rw.writers_waiting > 0
            THEN /\ rw' = [rw EXCEPT !.readers_waiting = @ + 1]
                 /\ RwWait(t, NWI, "rl_rback") /\ UNCHANGED inrw
            ELSE /\ rw' = [rw EXCEPT !.readers_in = @ + 1]
                 /\ inrw' = [inrw EXCEPT ![t] = "read"]
                 /\ Goto(t, "rw_unlock") /\ UNCHANGED loc
       ELSE IF rw.writer_in \/ rw.readers_in > 0
            THEN /\ rw' = [rw EXCEPT !.writers_waiting = @ + 1]
                 /\ RwWait(t, NTI, "rl_wback") /\ UNCHANGED inrw
            ELSE /\ rw' = [rw EXCEPT !.writer_in = TRUE]
                 /\ inrw' = [inrw EXCEPT ![t] = "write"]
                 /\ Goto(t, "rw_unlock") /\ UNCHANGED loc
    /\ UNCHANGED <<prog, made, threads, desc, nextID, nextbase, regions, stktop,
                   semn, insem, mxvars, cvvars>>

(* rwlock_lock: a reader waits while a writer is in or waiting (while,     *)
(* counting itself in readers_waiting), then ++readers_in.  A writer waits *)
(* once, with if, while a writer or a reader is in (counting itself in     *)
(* writers_waiting), and then sets writer_in.                              *)
RwTest(t) ==
    /\ At(t, "rl_test")
    /\ IF Op(t)[1] = "rw_read"
       THEN IF rw.writer_in \/ rw.writers_waiting > 0
            THEN /\ rw' = [rw EXCEPT !.readers_waiting = @ + 1]
                 /\ RwWait(t, NWI, "rl_rback") /\ UNCHANGED inrw
            ELSE /\ rw' = [rw EXCEPT !.readers_in = @ + 1]
                 /\ inrw' = [inrw EXCEPT ![t] = "read"]
                 /\ Goto(t, "rw_unlock") /\ UNCHANGED loc
       ELSE IF rw.writer_in \/ rw.readers_in > 0
            THEN /\ rw' = [rw EXCEPT !.writers_waiting = @ + 1]
                 /\ RwWait(t, NTI, "rl_wback") /\ UNCHANGED inrw
            ELSE /\ rw' = [rw EXCEPT !.writer_in = TRUE]
                 /\ inrw' = [inrw EXCEPT ![t] = "write"]
                 /\ Goto(t, "rw_unlock") /\ UNCHANGED loc
    /\ UNCHANGED <<prog, made, threads, desc, nextID, nextbase, regions, stktop,
                   semn, insem, mxvars, cvvars>>

(* Back from cond_wait: a reader --readers_waiting and tests again.        *)
RwReadBack(t) ==
    /\ At(t, "rl_rback")
    /\ rw' = [rw EXCEPT !.readers_waiting = @ - 1]
    /\ Goto(t, "rl_test")
    /\ UNCHANGED <<prog, made, loc, threads, desc, nextID, nextbase, regions,
                   stktop, semn, insem, inrw, mxvars, cvvars>>

(* Back from cond_wait: a writer --writers_waiting and goes in.            *)
RwWriteBack(t) ==
    /\ At(t, "rl_wback")
    /\ rw' = [rw EXCEPT !.writers_waiting = @ - 1, !.writer_in = TRUE]
    /\ inrw' = [inrw EXCEPT ![t] = "write"]
    /\ Goto(t, "rw_unlock")
    /\ UNCHANGED <<prog, made, loc, threads, desc, nextID, nextbase, regions,
                   stktop, semn, insem, mxvars, cvvars>>

(* The end of rwlock_lock, rwlock_unlock and rwlock_downgrade:             *)
(* mutex_unlock(rwlock->mutex) and return.                                 *)
RwUnlockMx(t) ==
    /\ At(t, "rw_unlock")
    /\ mutex_unlock(t, RWM)
    /\ Goto(t, "next") /\ Return(t)
    /\ UNCHANGED <<made, loc, libvars, cvvars>>

(* rwlock_unlock: a writer signals no_threads_in when writers wait,        *)
(* keeping writer_in for the one it wakes; else it clears writer_in and    *)
(* broadcasts no_writers_in.  A reader --readers_in and, the last one out, *)
(* signals no_threads_in when writers wait.                                *)
RwUnlockTest(t) ==
    /\ At(t, "ru_test")
    /\ inrw' = [inrw EXCEPT ![t] = "none"]
    /\ IF rw.writer_in
       THEN IF rw.writers_waiting > 0
            THEN RwSignal(t, NTI, FALSE, "rw_unlock") /\ UNCHANGED rw
            ELSE /\ rw' = [rw EXCEPT !.writer_in = FALSE]
                 /\ RwSignal(t, NWI, TRUE, "rw_unlock")
       ELSE /\ rw' = [rw EXCEPT !.readers_in = @ - 1]
            /\ IF rw.readers_in - 1 = 0 /\ rw.writers_waiting > 0
               THEN RwSignal(t, NTI, FALSE, "rw_unlock")
               ELSE Goto(t, "rw_unlock") /\ UNCHANGED loc
    /\ UNCHANGED <<prog, made, threads, desc, nextID, nextbase, regions, stktop,
                   semn, insem, mxvars, cvvars>>

(* rwlock_downgrade: writer_in = FALSE, ++readers_in, and cond_broadcast   *)
(* of no_writers_in.                                                       *)
RwDowngrade(t) ==
    /\ At(t, "rd_body")
    /\ rw' = [rw EXCEPT !.writer_in = FALSE, !.readers_in = @ + 1]
    /\ inrw' = [inrw EXCEPT ![t] = "read"]
    /\ RwSignal(t, NWI, TRUE, "rw_unlock")
    /\ UNCHANGED <<prog, made, threads, desc, nextID, nextbase, regions, stktop,
                   semn, insem, mxvars, cvvars>>

-----------------------------------------------------------------------------
\* The retest of mp->owner in mutex_lock's waiting loop.
Handed(t) ==
    /\ ~desched[t] /\ LockHanded(t)
    /\ UNCHANGED <<thrvars, libvars, cvvars>>

Step(t) ==
    \/ Handed(t)
    \/ CreateGetdesc(t) \/ CreateFind(t) \/ CreateLock(t) \/ CreateBase(t)
    \/ CreateStore(t) \/ CreatePages(t) \/ CreateSpawn(t) \/ CreateDesc(t)
    \/ CreateUnlockThreads(t) \/ CreateUnlockSelf(t)
    \/ LaunchLock(t) \/ LaunchUnlock(t)
    \/ ExitGetdesc(t) \/ ExitFind(t) \/ ExitLock(t) \/ ExitZombie(t)
    \/ JoinLock(t) \/ JoinFind(t) \/ JoinLockTarget(t) \/ JoinTest(t)
    \/ WaitLockCv(t) \/ WaitAdd(t) \/ WaitUnlockCv(t) \/ WaitBlock(t)
    \/ WaitRelock(t)
    \/ SigLock(t) \/ SigPop(t) \/ SigWake(t) \/ SigUnlock(t)
    \/ SemWaitLock(t) \/ SemWaitDec(t) \/ SemWaitUnlock(t)
    \/ SemSignalLock(t) \/ SemSignalInc(t) \/ SemSignalUnlock(t)
    \/ RwLockMx(t) \/ RwTest(t) \/ RwReadBack(t) \/ RwWriteBack(t)
    \/ RwUnlockTest(t) \/ RwDowngrade(t) \/ RwUnlockMx(t)

\* Every thread has vanished, never started, or finished its program.
Finished(t) ==
    \/ pc[t] \in {"free", "gone", "abort"}
    \/ t = Main /\ pc[t] = "next" /\ prog[t] = <<>>
Terminated == \A t \in Threads : Finished(t)

Init == LibInit /\ MxInit /\ CvInit

Next ==
    \/ \E t \in Threads : Step(t)
    \/ Terminated /\ UNCHANGED vars

(* The kernel's timer slices between runnable threads, so a thread whose   *)
(* next step stays possible takes it.                                      *)
Spec == Init /\ [][Next]_vars /\ \A t \in Threads : WF_vars(Step(t))

-----------------------------------------------------------------------------
TypeOK ==
    /\ pc \in [Threads -> STRING]
    /\ threads \in Seq(DescIds)
    /\ nextID \in DescIds \cup {MinTid + Cardinality(Threads)}
    /\ owner \in [Mutexes -> Threads \cup {NoTid}]
    /\ semn \in -Cardinality(Threads)..SemInit

(* thr_getdesc asserts that the caller's descriptor is in the list: a      *)
(* child made by thr_create must not look before its parent has added it   *)
(* (thr_launch waits for the parent's mutex for that).                     *)
DescFound == \A t \in Threads : pc[t] # "abort"

(* A thread blocked in cond_wait's deschedule is still on a condition's    *)
(* waiting list, or a cond_signal has taken it off and is making it        *)
(* runnable: no wake-up is lost.                                           *)
NoLostWaiter ==
    \A t \in Threads : desched[t] =>
        \/ \E c \in CVs : t \in ToSet(cvq[c])
        \/ \E s \in Threads : aw[s] = t

(* A thread waiting in mutex_lock(m) is on m's waiting list or has been   *)
(* handed m, and when m has waiters it has an owner who will hand it on:   *)
(* nobody spins for ever on a mutex that is free.                          *)
QueuedOn(m) ==
    /\ \A t \in Threads : wmx[t] = m => owner[m] = t \/ t \in ToSet(waitl[m])
    /\ waitl[m] # <<>> => owner[m] # NoTid

(* For the descriptor, condition and semaphore mutexes, each unlocked only *)
(* by its holder.                                                          *)
WaitersQueued == \A m \in Mutexes \ {TM} : QueuedOn(m)

(* For threads_mutex, which thr_create unlocks without having locked it.   *)
ThreadsMutexQueued == QueuedOn(TM)

(* The semaphore lets at most its initial count of threads past sem_wait   *)
(* at a time.                                                              *)
SemExclusion == Cardinality(insem) <= SemInit

(* rwlock_lock lets in one writer and nobody else, or readers only: no    *)
(* two threads hold the lock at once unless both hold it to read.          *)
RWExclusion ==
    \A t, u \in Threads :
        t # u /\ inrw[t] # "none" /\ inrw[u] # "none" => inrw[t] = "read" /\ inrw[u] = "read"

(* Every call returns: thr_join returns once its child has exited (the     *)
(* child's cond_signal reaches the joiner blocked in cond_wait, or the     *)
(* joiner finds it a zombie), sem_wait returns once a slot is signalled,  *)
(* and each thread ends in vanish.                                         *)
AllCallsReturn == <>Terminated

====
