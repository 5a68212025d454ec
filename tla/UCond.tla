------------------------------- MODULE UCond --------------------------------
(***************************************************************************)
(* The user-space condition variable of src/user/libthread/condvar.c,      *)
(* built on the user mutex (UMutex) and the deschedule/make_runnable       *)
(* system calls.  cvq[cv] is cv->waiting_list, guarded by the cv's own     *)
(* mutex; desched[t] is whether kernel thread t is blocked in              *)
(* deschedule; aw[t] is the thread awaken_first_thread has taken off the   *)
(* list and is still trying to make runnable.                              *)
(*                                                                         *)
(* cond_wait(cv, mp) is: lock cv->mutex; append the caller and unlock mp;  *)
(* unlock cv->mutex; deschedule(&i) with i = 0; lock mp.  cond_signal is:  *)
(* lock cv->mutex; take the head; make_runnable it, yielding to it until   *)
(* it has blocked; unlock cv->mutex.  The kernel calls are atomic here     *)
(* (Sched shows where the kernel breaks that).  The steps that move the    *)
(* thread between places are Lock and Unlock of UMutex and the operators   *)
(* below; the caller (UThread) keeps the program counter.                  *)
(***************************************************************************)
EXTENDS UMutex

CONSTANTS CVs

VARIABLES
    cvq,        \* cv -> cv->waiting_list
    desched,    \* thread -> blocked in deschedule
    aw          \* thread -> the waiter awaken_first_thread removed, or NoTid

cvvars == <<cvq, desched, aw>>

CvInit ==
    /\ cvq = [c \in CVs |-> list_init]
    /\ desched = [t \in Threads |-> FALSE]
    /\ aw = [t \in Threads |-> NoTid]

(* cond_wait after taking cv->mutex: list_addLast of the caller, then      *)
(* mutex_unlock(mp).  The list is cv's, so no other thread sees it before  *)
(* the unlock.                                                             *)
cond_wait_add(t, cv, mp) ==
    /\ cvq' = [cvq EXCEPT ![cv] = list_addLast(@, t)]
    /\ mutex_unlock(t, mp)
    /\ UNCHANGED <<desched, aw>>

(* deschedule(&i) with i = 0: the kernel blocks the caller until a         *)
(* make_runnable.                                                          *)
cond_wait_block(t) ==
    /\ desched' = [desched EXCEPT ![t] = TRUE]
    /\ UNCHANGED <<cvq, aw, mxvars>>

\* Mutant: the head is taken off the list but never recorded for waking.
awaken_pop_lost(t, cv) ==
    /\ cvq' = [cvq EXCEPT ![cv] = IF @ = <<>> THEN @ ELSE Tail(@)]
    /\ aw' = [aw EXCEPT ![t] = NoTid]
    /\ UNCHANGED <<desched, mxvars>>

(* cond_signal under cv->mutex: when list_size is not 0,                   *)
(* awaken_first_thread takes the head with list_removeHead.                *)
awaken_pop(t, cv) ==
    LET awaken == list_removeHead(cvq[cv], NoTid) IN
    /\ IF list_size(cvq[cv]) = 0
       THEN UNCHANGED <<cvq, aw>>
       ELSE /\ aw' = [aw EXCEPT ![t] = awaken.value]
            /\ cvq' = [cvq EXCEPT ![cv] = awaken.rest]
    /\ UNCHANGED <<desched, mxvars>>

(* The loop `while (make_runnable(awaken) != 0) yield(awaken)`:            *)
(* make_runnable succeeds once the waiter has blocked; the failed calls    *)
(* and the yields change nothing; make_runnable(-1) never succeeds.        *)
awaken_make_runnable(t) ==
    /\ aw[t] # NoTid /\ desched[aw[t]]
    /\ desched' = [desched EXCEPT ![aw[t]] = FALSE]
    /\ aw' = [aw EXCEPT ![t] = NoTid]
    /\ UNCHANGED <<cvq, mxvars>>

====
