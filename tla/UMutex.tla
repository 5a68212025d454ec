------------------------------- MODULE UMutex -------------------------------
(***************************************************************************)
(* The user-space mutex of src/user/libthread/mutex.c.  Every field of a   *)
(* mutex is read and written only while its mutex_lock flag is held by     *)
(* testandset, so each stretch of code between taking that flag and        *)
(* clearing it is one step here; the spinning and the yields around it     *)
(* change nothing.  owner is the kernel id of the holder or NoTid (-1),    *)
(* waitl the waiting_list of kernel ids, in order.  A thread that queued   *)
(* itself re-tests mp->owner each time it runs; wmx[t] is the mutex it is  *)
(* still waiting for.                                                      *)
(*                                                                         *)
(* mutex_lock lets a caller that already owns the mutex through: the loop  *)
(* `while (mp->owner != id ...)` is never entered.  mutex_unlock does not  *)
(* check who calls it: anybody's call hands the mutex on.                  *)
(***************************************************************************)
EXTENDS Integers, UList

CONSTANTS
    Threads,    \* kernel thread ids
    NoTid,      \* -1: no owner
    Mutexes,    \* the mutexes in use
    NoMx        \* not waiting for a mutex

VARIABLES
    owner,      \* mutex -> mp->owner
    waitl,      \* mutex -> mp->waiting_list
    wmx         \* thread -> the mutex it waits to be handed, or NoMx

mxvars == <<owner, waitl, wmx>>

MxInit ==
    /\ owner = [m \in Mutexes |-> NoTid]
    /\ waitl = [m \in Mutexes |-> list_init]
    /\ wmx = [t \in Threads |-> NoMx]

(* mutex_lock, the first stretch under mutex_lock: a free mutex is taken;  *)
(* its owner passes; anybody else joins the waiting list.                  *)
mutex_lock(t, m) ==
    CASE owner[m] = NoTid ->
            /\ owner' = [owner EXCEPT ![m] = t]
            /\ UNCHANGED <<waitl, wmx>>
      [] owner[m] = t -> UNCHANGED mxvars
      [] OTHER ->
            /\ waitl' = [waitl EXCEPT ![m] = list_addLast(@, t)]
            /\ wmx' = [wmx EXCEPT ![t] = m]
            /\ UNCHANGED owner

(* The waiting loop of mutex_lock: after a yield the thread takes the flag *)
(* again and leaves once mp->owner is its own id.                          *)
LockHanded(t) ==
    /\ wmx[t] # NoMx
    /\ owner[wmx[t]] = t
    /\ wmx' = [wmx EXCEPT ![t] = NoMx]
    /\ UNCHANGED <<owner, waitl>>

\* Mutant: mutex_unlock clears the owner and forgets the waiting list.
mutex_unlock_drop(t, m) ==
    /\ owner' = [owner EXCEPT ![m] = NoTid]
    /\ UNCHANGED <<waitl, wmx>>

(* mutex_unlock: nothing on a free mutex; else the head of the waiting     *)
(* list (list_removeHead, -1 when it is empty) becomes the owner.          *)
mutex_unlock(t, m) ==
    LET next == list_removeHead(waitl[m], NoTid) IN
    /\ IF owner[m] = NoTid THEN UNCHANGED <<owner, waitl>>
       ELSE /\ owner' = [owner EXCEPT ![m] = next.value]
            /\ waitl' = [waitl EXCEPT ![m] = next.rest]
    /\ UNCHANGED wmx

\* The thread may run code past a mutex_lock call.
Free(t) == wmx[t] = NoMx

====
