------------------------------ MODULE Lifecycle ------------------------------
(***************************************************************************)
(* Process and thread life cycle: fork, thread_fork, wait and vanish of    *)
(* src/kern/syscall/lifecycle.c with copy_process, exited_child,           *)
(* vanish_process and destroy_process of src/kern/prog/process.c.          *)
(*                                                                         *)
(* The family links are kept as the code keeps them: parent,               *)
(* youngest_child, older_sibling and younger_sibling pointers and the      *)
(* children counter.  Threads interleave freely; _vanish and the blocking  *)
(* part of _wait run between dont_switch_me_out and context_switch and are *)
(* single steps, everything else is preemptible at the places below.       *)
(* Process and thread control blocks come from finite pools; a pool that   *)
(* is empty is an allocation that fails.  Each thread also stores to its  *)
(* process's pages, takes copy-on-write faults and calls new_pages and     *)
(* remove_pages; fork copies and wait destroys the address space (the     *)
(* memory operators are those of Paging).                                  *)
(***************************************************************************)
EXTENDS Paging

CONSTANTS
    Threads,     \* thread control blocks
    InitThread,  \* init(): runs the init program, which never vanishes
    Calls,       \* what the user programs do, a subset of {"fork",
                 \* "thread_fork", "wait", "vanish", "write", "new_pages",
                 \* "remove_pages"} ("write": stores to their pages)
    NULL

VARIABLES
    pstate,    \* process -> "FREE" (not allocated), "RUNNING", "EXITED"
    parent,    \* process -> parent pointer
    yc,        \* process -> youngest_child
    older,     \* process -> older_sibling
    younger,   \* process -> younger_sibling
    children,  \* process -> children counter
    nthreads,  \* process -> threads counter
    waiting,   \* process -> its waiting thread list, in order
    tstate,    \* thread -> "FREE", "RUNNING", "WAITING" or "ZOMBIE"
    proc,      \* thread -> thread->process
    pc,        \* thread -> place in its system call
    child,     \* thread -> the local `child` of _wait / of _fork
    fva,       \* thread -> the page of its copy-on-write fault
    yt,        \* process -> youngest_thread
    tolder,    \* thread -> older_sibling
    tyounger   \* thread -> younger_sibling

lifevars == <<pstate, parent, yc, older, younger, children, nthreads, waiting,
              tstate, proc, pc, child, yt, tolder, tyounger>>
vars == <<lifevars, memvars, fva>>

thrvars == <<yt, tolder, tyounger>>

famvars == <<parent, yc, older, younger, children>>

Goto(t, l) == pc' = [pc EXCEPT ![t] = l]

\* The children list from youngest_child along older_sibling (k bounds it).
RECURSIVE ChildList(_, _)
ChildList(c, k) ==
    IF c = NULL \/ k = 0 THEN <<>> ELSE <<c>> \o ChildList(older[c], k - 1)

Kids(p) == ChildList(yc[p], Cardinality(Procs))

\* exited_child: the youngest child in state EXITED, or NULL.
exited_child(p) ==
    LET L == Kids(p)
        E == {i \in 1..Len(L) : pstate[L[i]] = "EXITED"}
    IN IF children[p] = 0 \/ E = {} THEN NULL
       ELSE L[CHOOSE i \in E : \A j \in E : i <= j]

\* The thread list of a process from youngest_thread along older_sibling.
RECURSIVE ThreadList(_, _)
ThreadList(n, k) ==
    IF n = NULL \/ k = 0 THEN <<>> ELSE <<n>> \o ThreadList(tolder[n], k - 1)

(* create_thread lines 331-346: the thread joins p, parent->threads += 1,  *)
(* and it becomes the youngest of p's thread family.                       *)
LinkThread(n, p) ==
    LET y == yt[p] IN
    /\ proc' = [proc EXCEPT ![n] = p]
    /\ nthreads' = [nthreads EXCEPT ![p] = @ + 1]
    /\ tolder' = [tolder EXCEPT ![n] = y]
    /\ tyounger' = [u \in Threads |-> IF u = n THEN NULL
                                      ELSE IF u = y THEN n ELSE tyounger[u]]
    /\ yt' = [yt EXCEPT ![p] = n]

(* create_thread, with the set_runnable its callers make: a FREE thread    *)
(* (calloc, the kernel stack and the thread lock all succeeded) is linked *)
(* into p and runs.  The tid, stacks and hash entry are not state here.   *)
create_thread(n, p) ==
    /\ tstate' = [tstate EXCEPT ![n] = "RUNNING"]
    /\ LinkThread(n, p)

\* Mutant: set_waiting marks the thread without adding it to the list.
set_waiting_unlisted(t, p) ==
    /\ tstate' = [tstate EXCEPT ![t] = "WAITING"]
    /\ UNCHANGED waiting

(* set_waiting: unset_state, state THR_WAITING, and thrlist_add_tail onto  *)
(* the process's waiting list.                                             *)
set_waiting(t, p) ==
    /\ tstate' = [tstate EXCEPT ![t] = "WAITING"]
    /\ waiting' = [waiting EXCEPT ![p] = Append(@, t)]

(* get_waiting: the head of the parent's waiting list.                    *)
get_waiting(p) == Head(waiting[p])

(* vanish_thread: the thread leaves its list (unset_state, state           *)
(* THR_ZOMBIE, set by the caller here) and task->threads -= 1.  Its loop   *)
(* releasing acquired locks releases nothing: no kernel mutex is held on   *)
(* the way into _vanish.                                                   *)
vanish_thread(t) == nthreads' = [nthreads EXCEPT ![proc[t]] = @ - 1]

-----------------------------------------------------------------------------
(* _fork, up to copy_process's family update: the process count check,     *)
(* create_process, and lines 144-149 linking the new process behind the    *)
(* parent's youngest child.                                                *)
ForkLink(t) ==
    LET p == proc[t] IN
    /\ pc[t] = "user" /\ "fork" \in Calls
    /\ IF nthreads[p] > 1 \/ \A c \in Procs : pstate[c] # "FREE"
       THEN /\ Goto(t, "user")      \* ERR_MULTIPLE_THREADS, ERR_COPY_PRO_FAIL
            /\ UNCHANGED <<pstate, famvars, nthreads, child, memvars, yt>>
       ELSE \E c \in {q \in Procs : pstate[q] = "FREE"} :
            /\ pstate' = [pstate EXCEPT ![c] = "RUNNING"]
            /\ parent' = [parent EXCEPT ![c] = p]
            /\ older' = [older EXCEPT ![c] = yc[p]]
            /\ younger' = [q \in Procs |-> IF q = c THEN NULL
                                           ELSE IF q = yc[p] THEN c
                                           ELSE younger[q]]
            /\ yc' = [yc EXCEPT ![c] = NULL]
            /\ children' = [children EXCEPT ![c] = 0]
            /\ nthreads' = [nthreads EXCEPT ![c] = 0]
            /\ yt' = [yt EXCEPT ![c] = NULL]
            /\ child' = [child EXCEPT ![t] = c]
            /\ copy_paging(p, c)
            /\ Goto(t, "f_pub")
    /\ UNCHANGED <<waiting, tstate, proc, fva, tolder, tyounger>>

(* _fork, from line 150 of copy_process: publish the child as the parent's *)
(* youngest child and count it, then copy_thread and set_runnable.  When   *)
(* no thread can be allocated, destroy_process(child) refuses a process    *)
(* that has not EXITED and _fork returns ERR_COPY_THR_FAIL.                 *)
ForkPublish(t) ==
    LET p == proc[t]
        c == child[t]
    IN
    /\ pc[t] = "f_pub"
    /\ yc' = [yc EXCEPT ![p] = c]
    /\ children' = [children EXCEPT ![p] = @ + 1]
    /\ IF \A n \in Threads : tstate[n] # "FREE"
       THEN /\ Goto(t, "user")
            /\ UNCHANGED <<nthreads, tstate, proc, thrvars>>
       ELSE \E n \in {u \in Threads : tstate[u] = "FREE"} :
            /\ create_thread(n, c)
            /\ pc' = [pc EXCEPT ![t] = "user", ![n] = "user"]
    /\ UNCHANGED <<pstate, parent, older, younger, waiting, child, memvars, fva>>

(* _thread_fork: copy_thread into the caller's process and set_runnable.   *)
ThreadFork(t) ==
    /\ pc[t] = "user" /\ "thread_fork" \in Calls
    /\ IF \A n \in Threads : tstate[n] # "FREE"
       THEN UNCHANGED <<nthreads, tstate, proc, pc, thrvars>>   \* ERR_COPY_THR_FAIL
       ELSE \E n \in {u \in Threads : tstate[u] = "FREE"} :
            /\ create_thread(n, proc[t])
            /\ pc' = [pc EXCEPT ![n] = "user"]
    /\ UNCHANGED <<pstate, famvars, waiting, child, memvars, fva>>

-----------------------------------------------------------------------------
(* _wait, CHECK1 and CHECK2.                                               *)
WaitCheck(t) ==
    LET p == proc[t] IN
    /\ pc[t] = "user" /\ "wait" \in Calls
    /\ Goto(t, IF children[p] = 0 \/ children[p] <= Len(waiting[p])
               THEN "user" ELSE "w_test")
    /\ UNCHANGED <<pstate, famvars, nthreads, waiting, tstate, proc, child,
                   memvars, fva, thrvars>>

(* _wait, the loop test: child = exited_child(task), then                  *)
(* task->children > 0.  Nothing stops a switch after it.                   *)
WaitTest(t) ==
    LET p == proc[t]
        c == exited_child(p)
    IN
    /\ pc[t] = "w_test" /\ tstate[t] = "RUNNING"
    /\ child' = [child EXCEPT ![t] = c]
    /\ Goto(t, IF c = NULL /\ children[p] > 0 THEN "w_block" ELSE "w_after")
    /\ UNCHANGED <<pstate, famvars, nthreads, waiting, tstate, proc, memvars, fva,
                   thrvars>>

(* _wait, the loop body: dont_switch_me_out, set_waiting(self) and         *)
(* context_switch.  The thread resumes at the loop test once woken.        *)
WaitBlock(t) ==
    LET p == proc[t] IN
    /\ pc[t] = "w_block"
    /\ set_waiting(t, p)
    /\ Goto(t, "w_test")
    /\ UNCHANGED <<pstate, famvars, nthreads, proc, child, memvars, fva, thrvars>>

\* The thread family and pool as destroy_thread changes them.
ThreadState == [yt |-> yt, older |-> tolder, younger |-> tyounger, tstate |-> tstate]

\* Mutant: destroy_thread moves task->youngest_thread to the younger
\* sibling instead of the older one.
destroy_thread_younger(n, s) ==
    LET o == s.older[n]
        y == s.younger[n]
    IN [s EXCEPT !.yt = IF y = NULL THEN [s.yt EXCEPT ![proc[n]] = y] ELSE s.yt,
                 !.older = [u \in Threads |-> IF u = n THEN NULL
                                           ELSE IF u = y THEN o ELSE s.older[u]],
                 !.younger = [u \in Threads |-> IF u = n THEN NULL
                                             ELSE IF u = o THEN y ELSE s.younger[u]],
                 !.tstate = [s.tstate EXCEPT ![n] = "FREE"]]

(* destroy_thread: unlink the thread from its siblings, moving             *)
(* task->youngest_thread when it was the youngest, clear its links and    *)
(* free the block (the kernel stack and hash entry are not state here).   *)
destroy_thread(n, s) ==
    LET o == s.older[n]
        y == s.younger[n]
    IN [s EXCEPT !.yt = IF y = NULL THEN [s.yt EXCEPT ![proc[n]] = o] ELSE s.yt,
                 !.older = [u \in Threads |-> IF u = n THEN NULL
                                           ELSE IF u = y THEN o ELSE s.older[u]],
                 !.younger = [u \in Threads |-> IF u = n THEN NULL
                                             ELSE IF u = o THEN y ELSE s.younger[u]],
                 !.tstate = [s.tstate EXCEPT ![n] = "FREE"]]

(* destroy_process's loop: destroy_thread(process->youngest_thread) until  *)
(* the family is empty (k caps the iterations).                           *)
RECURSIVE DestroyThreads(_, _, _)
DestroyThreads(c, s, k) ==
    IF s.yt[c] = NULL \/ k = 0 THEN s
    ELSE DestroyThreads(c, destroy_thread(s.yt[c], s), k - 1)

\* The thread fields of a state record as the next state.
SetThreads(s) ==
    /\ tstate' = s.tstate
    /\ yt' = s.yt
    /\ tolder' = s.older
    /\ tyounger' = s.younger

\* Mutant: the unlink forgets to move the parent's youngest_child.
destroy_process_keep_youngest(c) ==
    LET o == older[c]
        y == younger[c]
        par == parent[c]
    IN
    /\ pstate' = [pstate EXCEPT ![c] = "FREE"]
    /\ SetThreads(DestroyThreads(c, ThreadState, Cardinality(Threads)))
    /\ older' = [q \in Procs |-> IF q = y THEN o ELSE older[q]]
    /\ younger' = [q \in Procs |-> IF q = o THEN y ELSE younger[q]]
    /\ children' = IF par # NULL THEN [children EXCEPT ![par] = @ - 1]
                   ELSE children
    /\ destroy_paging(c)
    /\ UNCHANGED <<parent, yc>>

(* destroy_process on an EXITED process, as one step: BURIED, every thread *)
(* destroyed, the process unlinked from its siblings (the parent's         *)
(* youngest_child moves on when it was the youngest), the parent's         *)
(* children counter decremented, destroy_paging, and the block freed.      *)
destroy_process(c) ==
    LET o == older[c]
        y == younger[c]
        par == parent[c]
    IN
    /\ pstate' = [pstate EXCEPT ![c] = "FREE"]
    /\ SetThreads(DestroyThreads(c, ThreadState, Cardinality(Threads)))
    /\ older' = [q \in Procs |-> IF q = y THEN o ELSE older[q]]
    /\ younger' = [q \in Procs |-> IF q = o THEN y ELSE younger[q]]
    /\ yc' = IF y = NULL /\ par # NULL THEN [yc EXCEPT ![par] = o] ELSE yc
    /\ children' = IF par # NULL THEN [children EXCEPT ![par] = @ - 1]
                   ELSE children
    /\ destroy_paging(c)
    /\ UNCHANGED parent

(* _wait after the loop: ERR_CHILDREN_GONE when the counter is 0, else     *)
(* destroy_process(child), which refuses NULL and a process that is not    *)
(* EXITED.                                                                  *)
WaitReap(t) ==
    LET c == child[t] IN
    /\ pc[t] = "w_after"
    /\ IF children[proc[t]] = 0 \/ c = NULL \/ pstate[c] # "EXITED"
       THEN UNCHANGED <<pstate, famvars, tstate, memvars, thrvars>>
       ELSE destroy_process(c)
    /\ Goto(t, "user")
    /\ UNCHANGED <<nthreads, waiting, proc, child, fva>>

-----------------------------------------------------------------------------
(* vanish_process, children part: init takes over the children counter,    *)
(* every child's parent pointer, and the list is spliced in front of       *)
(* init's youngest child.  Init's waiting threads are not woken.           *)
Reparent(p) ==
    LET K == Kids(p)
        lst == K[Len(K)]
        i == InitProc
    IN
    /\ children' = [children EXCEPT ![i] = @ + children[p]]
    /\ parent' = [q \in Procs |-> IF q \in ToSet(K) THEN i ELSE parent[q]]
    /\ older' = [older EXCEPT ![lst] = yc[i]]
    /\ younger' = [q \in Procs |-> IF q = yc[i] THEN lst ELSE younger[q]]
    /\ yc' = [yc EXCEPT ![i] = yc[p]]

(* _vanish, between dont_switch_me_out and context_switch: vanish_thread;  *)
(* when it was the last thread, vanish_process, and the head of the        *)
(* parent's waiting list is made runnable.  The address space stays until  *)
(* destroy_process.                                                        *)
_vanish(t) ==
    LET p == proc[t]
        par == parent[p]
        lastThread == nthreads[p] = 1
        wakes == lastThread /\ par # NULL /\ waiting[par] # <<>>
    IN
    /\ vanish_thread(t)
    /\ IF lastThread /\ children[p] > 0 THEN Reparent(p)
       ELSE UNCHANGED famvars
    /\ pstate' = IF lastThread THEN [pstate EXCEPT ![p] = "EXITED"] ELSE pstate
    /\ waiting' = IF wakes THEN [waiting EXCEPT ![par] = Tail(@)] ELSE waiting
    /\ tstate' = [u \in Threads |->
                     CASE u = t -> "ZOMBIE"
                       [] wakes /\ u = get_waiting(par) -> "RUNNING"
                       [] OTHER -> tstate[u]]
    /\ Goto(t, "gone")
    /\ UNCHANGED <<proc, child, memvars, fva, thrvars>>

\* The vanish system call (init never makes it).
Vanish(t) ==
    /\ pc[t] = "user" /\ "vanish" \in Calls /\ t # InitThread
    /\ _vanish(t)

-----------------------------------------------------------------------------
(* A store to a present, writable page of the thread's process.           *)
Write(t, v, x) ==
    /\ pc[t] = "user" /\ "write" \in Calls
    /\ Present(pte[proc[t]][v]) /\ pte[proc[t]][v].rw
    /\ UserWrite(proc[t], v, x)
    /\ UNCHANGED <<lifevars, fva>>

(* A store to a present, read-only page faults into _page_fault_handler:  *)
(* a COPYONWRITE entry is made writable and the thread goes on to         *)
(* copy_on_write; otherwise (no swexn handler) panic, which is            *)
(* _set_status(-2) and _vanish.                                            *)
PageFault(t, v) ==
    LET e == pte[proc[t]][v] IN
    /\ pc[t] = "user" /\ "write" \in Calls
    /\ Present(e) /\ ~e.rw
    /\ IF e.cow
       THEN /\ cow_flags(proc[t], v)
            /\ fva' = [fva EXCEPT ![t] = v]
            /\ Goto(t, "pf_cow")
            /\ UNCHANGED <<pstate, famvars, nthreads, waiting, tstate, proc, child,
                           thrvars>>
       ELSE _vanish(t)

(* _page_fault_handler: copy_on_write, then back to the faulting store    *)
(* (the handler's address is dead from here on).                          *)
CopyOnWrite(t) ==
    /\ pc[t] = "pf_cow"
    /\ copy_on_write(proc[t], fva[t])
    /\ fva' = [fva EXCEPT ![t] = StackPage]
    /\ Goto(t, "user")
    /\ UNCHANGED <<pstate, famvars, nthreads, waiting, tstate, proc, child,
                   thrvars>>

\* The new_pages system call for one page at v.
NewPages(t, v) ==
    /\ pc[t] = "user" /\ "new_pages" \in Calls
    /\ new_pages(proc[t], v)
    /\ UNCHANGED <<lifevars, fva>>

\* The remove_pages system call at v.
RemovePages(t, v) ==
    /\ pc[t] = "user" /\ "remove_pages" \in Calls
    /\ remove_pages(proc[t], v)
    /\ UNCHANGED <<lifevars, fva>>

-----------------------------------------------------------------------------
\* Only a RUNNING thread is ever at a place other than "gone", and one
\* blocked in _wait does not leave "w_test" until woken.
Step(t) ==
    \/ ForkLink(t) \/ ForkPublish(t) \/ ThreadFork(t)
    \/ WaitCheck(t) \/ WaitTest(t) \/ WaitBlock(t) \/ WaitReap(t)
    \/ Vanish(t)
    \/ \E v \in Pages : \/ \E x \in Vals : Write(t, v, x)
                       \/ PageFault(t, v) \/ NewPages(t, v) \/ RemovePages(t, v)
    \/ CopyOnWrite(t)

(* The init process with the init thread and its stack page; every other  *)
(* block free.                                                             *)
Init ==
    /\ pstate = [p \in Procs |-> IF p = InitProc THEN "RUNNING" ELSE "FREE"]
    /\ parent = [p \in Procs |-> NULL]
    /\ yc = [p \in Procs |-> NULL]
    /\ older = [p \in Procs |-> NULL]
    /\ younger = [p \in Procs |-> NULL]
    /\ children = [p \in Procs |-> 0]
    /\ nthreads = [p \in Procs |-> IF p = InitProc THEN 1 ELSE 0]
    /\ waiting = [p \in Procs |-> <<>>]
    /\ tstate = [t \in Threads |-> IF t = InitThread THEN "RUNNING" ELSE "FREE"]
    /\ proc = [t \in Threads |-> InitProc]
    /\ pc = [t \in Threads |-> IF t = InitThread THEN "user" ELSE "gone"]
    /\ child = [t \in Threads |-> NULL]
    /\ fva = [t \in Threads |-> StackPage]
    /\ yt = [p \in Procs |-> IF p = InitProc THEN InitThread ELSE NULL]
    /\ tolder = [t \in Threads |-> NULL]
    /\ tyounger = [t \in Threads |-> NULL]
    /\ MemInit

Next == \E t \in Threads : Step(t)

\* Every runnable thread is eventually scheduled (the timer preempts).
Fairness == \A t \in Threads : WF_vars(Step(t))

Spec == Init /\ [][Next]_vars /\ Fairness

(* _thread_fork when create_thread's calloc of the thread lock fails: the  *)
(* thread is already counted and linked as parent->youngest_thread, and   *)
(* the block is freed without unlinking it; copy_thread returns NULL and  *)
(* _thread_fork ERR_COPY_THR_FAIL.                                         *)
ThreadForkNoLock(t) ==
    /\ pc[t] = "user" /\ "thread_fork" \in Calls
    /\ \E n \in {u \in Threads : tstate[u] = "FREE"} :
         /\ LinkThread(n, proc[t])
    /\ UNCHANGED <<pstate, famvars, waiting, tstate, pc, child, memvars, fva>>

\* The system with the thread lock allocation allowed to fail.
SpecLockFail == Init /\ [][Next \/ \E t \in Threads : ThreadForkNoLock(t)]_vars

-----------------------------------------------------------------------------
\* A process _fork has linked (ForkLink) but not yet published.
InFork(c) == \E t \in Threads : pc[t] = "f_pub" /\ child[t] = c

Live(c) == pstate[c] \in {"RUNNING", "EXITED"}

\* On the sibling links maintained by copy_process, vanish_process and
\* destroy_process, the children counter read by _wait and exited_child:
\* the list of every running process, walked from youngest_child, holds
\* each of its live children once, and the counter is its length.
FamilyExact ==
    \A p \in Procs : pstate[p] = "RUNNING" =>
        LET L == Kids(p) IN
        /\ IsInjective(L)
        /\ ToSet(L) = {c \in Procs : Live(c) /\ parent[c] = p /\ ~InFork(c)}
        /\ children[p] = Len(L)

\* On set_waiting in _wait and the wake-up in _vanish: the waiting list of
\* a process holds, once each, exactly its threads blocked in _wait.
WaitListExact ==
    \A p \in Procs : Live(p) =>
        /\ IsInjective(waiting[p])
        /\ ToSet(waiting[p]) = {t \in Threads : tstate[t] = "WAITING" /\ proc[t] = p}

\* No lost wake-up in _wait/_vanish: a thread blocked in _wait is made
\* runnable again.
WaitReturns == \A t \in Threads : tstate[t] = "WAITING" ~> tstate[t] = "RUNNING"

\* The entries that name frame f.
Mappers(f) == {pv \in Procs \X Pages : pte[pv[1]][pv[2]].f = f}

\* On the owner counters kept by copy_paging, copy_on_write, create_page,
\* destroy_page and destroy_paging: each frame's counter is the number of
\* page-table entries that name it, so a frame is free exactly when no
\* process maps it, and one that is mapped is never handed out again.
FrameCountExact == \A f \in FrameIds : frames[f] = Cardinality(Mappers(f))

\* On next_available_frame, kept by _get_frame's search and free_frame:
\* the hint is a frame nobody holds, and it is -1 only when every frame
\* is held, so _allocate_frame fails only when memory is really full.
FreeHintExact ==
    /\ nextfree # NoFrame => frames[nextfree] = 0
    /\ nextfree = NoFrame => \A f \in FrameIds : frames[f] > 0

\* Copy-on-write isolation (fork, _page_fault_handler, copy_on_write):
\* every present page of a live process holds what that process last
\* stored there, so no store by another process shows through.
Isolation ==
    \A p \in Procs, v \in Pages :
        Live(p) /\ Present(pte[p][v]) => mem[pte[p][v].f] = view[p][v]

\* On create_thread, vanish_thread and destroy_process's destroy_thread
\* loop: the thread family of every live process, walked from
\* youngest_thread, holds each of its allocated threads once, its threads
\* counter (read by _fork and _vanish) counts those not yet vanished, and
\* no thread block outlives its process.
ThreadFamilyExact ==
    /\ \A n \in Threads : tstate[n] # "FREE" => Live(proc[n])
    /\ \A p \in Procs : Live(p) =>
        LET L == ThreadList(yt[p], Cardinality(Threads) + 1) IN
        /\ IsInjective(L)
        /\ ToSet(L) = {n \in Threads : tstate[n] # "FREE" /\ proc[n] = p}
        /\ nthreads[p] = Cardinality({n \in ToSet(L) : tstate[n] # "ZOMBIE"})

====
