------------------------------- MODULE KMutex -------------------------------
(***************************************************************************)
(* The kernel mutex of src/kern/lock/mutex.c on the single preemptible     *)
(* CPU of the kernel.  System calls enter through trap gates, so timer     *)
(* interrupts stay enabled in kernel code and a thread can be switched out *)
(* between any two of the steps below.                                     *)
(*                                                                         *)
(* A mutex has a metadata spin flag (mutex_lock, taken by testandset), the *)
(* thread doing the metadata update (list_owner), the owner and a FIFO     *)
(* wait list.  A waiter yields to the owner and re-checks; mutex_unlock    *)
(* hands the mutex to the head of the wait list and yields to it.  Every   *)
(* thread keeps the stack of mutexes it holds (acquired_lock, chained      *)
(* through previous_lock), which vanish_thread unwinds.                    *)
(*                                                                         *)
(* The CPU is the head of the run queue (thread.c, "running").  _yield(x)  *)
(* moves the caller to the tail and x to the head; a timer tick moves the  *)
(* head to the tail (timer_handler's time slicing).                        *)
(***************************************************************************)
EXTENDS Integers, Sequences, SequencesExt, FiniteSets, ThrList

CONSTANTS
    Threads,    \* kernel threads using the mutexes
    Mutexes,    \* the mutexes
    NULL,       \* the NULL pointer
    Program     \* what every thread does forever: <<"lock"|"unlock", m>>

ASSUME NULL \notin Threads \cup Mutexes
ASSUME Program \in Seq({"lock", "unlock"} \X Mutexes) /\ Len(Program) > 0

VARIABLES
    runq,        \* the running list; its head holds the CPU
    mlock,       \* mp->mutex_lock, the metadata spin flag
    list_owner,  \* mp->list_owner
    owner,       \* mp->owner
    waitq,       \* mp->first_waiting .. last_waiting
    previous,    \* mp->previous_lock
    acquired,    \* thread->acquired_lock
    waiting,     \* local 'waiting' of mutex_lock
    pc,          \* where each thread is inside mutex_lock / mutex_unlock
    ip           \* index of the operation of Program each thread is doing

vars == <<runq, mlock, list_owner, owner, waitq, previous, acquired,
          waiting, pc, ip>>

PCs == {"prog", "lk_tas", "lk_setlo", "lk_rel1", "lk_rel2", "lk_wrel1",
        "lk_wrel2", "lk_yield", "ul_tas", "ul_setlo", "ul_rel1", "ul_rel2",
        "ul_chk", "ul_yield"}

Op(t)  == Program[ip[t]]
Mtx(t) == Op(t)[2]
NextIp(t) == IF ip[t] = Len(Program) THEN 1 ELSE ip[t] + 1

Running(t) == runq # <<>> /\ Head(runq) = t

(***************************************************************************)
(* _yield(tid) with a thread that is runnable: set_runnable(self) puts the *)
(* caller at the tail, context_switch -> set_running(other) puts the       *)
(* target at the head.  Every thread using a mutex stays THR_RUNNING, so   *)
(* the lookup always succeeds.  A yield through a NULL thread pointer      *)
(* (mp->list_owner->tid or mp->owner->tid read while the field is NULL)    *)
(* reads a garbage tid: it may name any thread, or none (error return).    *)
(***************************************************************************)
\* Fault variant: the yield target is put at the head without being
\* unlinked first (set_running without unset_state).
YieldRunqNoUnlink(self, other) ==
    thrlist_add_head(other, thrlist_add_tail(self, thrlist_remove(self, runq)))

YieldRunq(self, other) ==
    thrlist_add_head(other,
        thrlist_remove(other, thrlist_add_tail(self, thrlist_remove(self, runq))))

_yield(self, x) ==
    IF x = NULL
    THEN \/ \E o \in Threads : runq' = YieldRunq(self, o)
         \/ runq' = runq
    ELSE runq' = YieldRunq(self, x)

Goto(t, l) == pc' = [pc EXCEPT ![t] = l]

(***************************************************************************)
(* while (testandset(mlock)) _yield(mp->list_owner->tid);                  *)
(***************************************************************************)
TestAndSet(t, next) ==
    LET m == Mtx(t) IN
    IF mlock[m]
    THEN /\ _yield(t, list_owner[m])
         /\ UNCHANGED <<mlock, pc>>
    ELSE /\ mlock' = [mlock EXCEPT ![m] = TRUE]
         /\ Goto(t, next)
         /\ UNCHANGED runq

\* mutex_lock and mutex_unlock both start here.
Begin(t) ==
    /\ pc[t] = "prog"
    /\ Goto(t, IF Op(t)[1] = "lock" THEN "lk_tas" ELSE "ul_tas")
    /\ UNCHANGED <<runq, mlock, list_owner, owner, waitq, previous, acquired,
                   waiting, ip>>

LkTas(t) ==
    /\ pc[t] = "lk_tas"
    /\ TestAndSet(t, "lk_setlo")
    /\ UNCHANGED <<list_owner, owner, waitq, previous, acquired, waiting, ip>>

(***************************************************************************)
(* Taking and dropping a mutex on the held stack: previous_lock =          *)
(* acquired_lock; acquired_lock = mp; and back.                            *)
(***************************************************************************)
\* Fault variant: unlock forgets the chain and clears acquired_lock.
PopAcquiredClear(t, m) ==
    /\ acquired' = [acquired EXCEPT ![t] = NULL]
    /\ previous' = [previous EXCEPT ![m] = NULL]

PushAcquired(t, m) ==
    /\ previous' = [previous EXCEPT ![m] = acquired[t]]
    /\ acquired' = [acquired EXCEPT ![t] = m]

PopAcquired(t, m) ==
    /\ acquired' = [acquired EXCEPT ![t] = previous[m]]
    /\ previous' = [previous EXCEPT ![m] = NULL]

\* Fault variants: the owner == NULL test dropped; the waiting flag lost.
CanTakeIgnoringOwner(t, m) == ~waiting[t] \/ owner[m] = t
FirstPassAlways(t) == TRUE

\* mutex_lock's test: a first pass that finds the mutex free, or any pass
\* after mutex_unlock made this thread the owner.
CanTake(t, m) == (~waiting[t] /\ owner[m] = NULL) \/ owner[m] = t

\* mutex_lock queues a thread on its first pass only.
FirstPass(t) == ~waiting[t]

(***************************************************************************)
(* With the spin flag held: record list_owner, then either take the        *)
(* mutex, or queue (once) and go to release the flag and yield.            *)
(***************************************************************************)
LkSetLo(t) ==
    LET m == Mtx(t) IN
    /\ pc[t] = "lk_setlo"
    /\ list_owner' = [list_owner EXCEPT ![m] = t]
    /\ IF CanTake(t, m)
       THEN /\ owner' = [owner EXCEPT ![m] = t]
            /\ PushAcquired(t, m)
            /\ Goto(t, "lk_rel1")
            /\ UNCHANGED <<waitq, waiting>>
       ELSE /\ waitq' = IF FirstPass(t) THEN [waitq EXCEPT ![m] = Append(@, t)]
                                      ELSE waitq
            /\ waiting' = [waiting EXCEPT ![t] = TRUE]
            /\ Goto(t, "lk_wrel1")
            /\ UNCHANGED <<owner, previous, acquired>>
    /\ UNCHANGED <<runq, mlock, ip>>

\* *mlock = FALSE; then mp->list_owner = NULL; as two stores.
ReleaseFlag(t, l) ==
    /\ mlock' = [mlock EXCEPT ![Mtx(t)] = FALSE]
    /\ Goto(t, l)
    /\ UNCHANGED <<runq, list_owner, owner, waitq, previous, acquired,
                   waiting, ip>>

ClearListOwner(t) ==
    list_owner' = [list_owner EXCEPT ![Mtx(t)] = NULL]

LkRel1(t) == pc[t] = "lk_rel1" /\ ReleaseFlag(t, "lk_rel2")

\* The lock is held: return to the caller.
LkRel2(t) ==
    /\ pc[t] = "lk_rel2"
    /\ ClearListOwner(t)
    /\ waiting' = [waiting EXCEPT ![t] = FALSE]
    /\ ip' = [ip EXCEPT ![t] = NextIp(t)]
    /\ Goto(t, "prog")
    /\ UNCHANGED <<runq, mlock, owner, waitq, previous, acquired>>

LkWRel1(t) == pc[t] = "lk_wrel1" /\ ReleaseFlag(t, "lk_wrel2")

LkWRel2(t) ==
    /\ pc[t] = "lk_wrel2"
    /\ ClearListOwner(t)
    /\ Goto(t, "lk_yield")
    /\ UNCHANGED <<runq, mlock, owner, waitq, previous, acquired, waiting, ip>>

\* _yield(mp->owner->tid), reading owner after the flag was released.
LkYield(t) ==
    /\ pc[t] = "lk_yield"
    /\ _yield(t, owner[Mtx(t)])
    /\ Goto(t, "lk_tas")
    /\ UNCHANGED <<mlock, list_owner, owner, waitq, previous, acquired,
                   waiting, ip>>

UlTas(t) ==
    /\ pc[t] = "ul_tas"
    /\ TestAndSet(t, "ul_setlo")
    /\ UNCHANGED <<list_owner, owner, waitq, previous, acquired, waiting, ip>>

(***************************************************************************)
(* The do/while of mutex_unlock: pop waiters until one is THR_RUNNING (or  *)
(* the list is empty); that one becomes the owner.  Returns              *)
(* <<new owner, rest of the list>>.  Run is the set of threads whose      *)
(* state is THR_RUNNING.                                                   *)
(***************************************************************************)
\* Fault variants: unlock frees the mutex without handing it to a waiter;
\* unlock pops the first waiter but hands the mutex to nobody.
waitlist_pop_none(q, Run) == <<NULL, q>>
waitlist_pop_discard(q, Run) ==
    IF q = <<>> THEN <<NULL, q>> ELSE <<NULL, Tail(q)>>

RECURSIVE waitlist_pop(_, _)
waitlist_pop(q, Run) ==
    IF q = <<>> THEN <<NULL, q>>
    ELSE IF Head(q) \in Run THEN <<Head(q), Tail(q)>>
    ELSE waitlist_pop(Tail(q), Run)

(***************************************************************************)
(* With the spin flag held: pop the mutex off the held stack (the code     *)
(* panics when it is not on top), then hand it to the first runnable       *)
(* waiter.  Unlocking a free mutex is an early return that releases the    *)
(* flag at once; no thread of the model does it.                           *)
(***************************************************************************)
UlSetLo(t) ==
    LET m   == Mtx(t)
        pop == waitlist_pop(waitq[m], Threads)
    IN
    /\ pc[t] = "ul_setlo"
    /\ acquired[t] = m
    /\ PopAcquired(t, m)
    /\ IF owner[m] = NULL
       THEN /\ mlock' = [mlock EXCEPT ![m] = FALSE]
            /\ ClearListOwner(t)
            /\ ip' = [ip EXCEPT ![t] = NextIp(t)]
            /\ Goto(t, "prog")
            /\ UNCHANGED <<owner, waitq>>
       ELSE /\ list_owner' = [list_owner EXCEPT ![m] = t]
            /\ owner' = [owner EXCEPT ![m] = pop[1]]
            /\ waitq' = [waitq EXCEPT ![m] = pop[2]]
            /\ Goto(t, "ul_rel1")
            /\ UNCHANGED <<mlock, ip>>
    /\ UNCHANGED <<runq, waiting>>

UlRel1(t) == pc[t] = "ul_rel1" /\ ReleaseFlag(t, "ul_rel2")

UlRel2(t) ==
    /\ pc[t] = "ul_rel2"
    /\ ClearListOwner(t)
    /\ Goto(t, "ul_chk")
    /\ UNCHANGED <<runq, mlock, owner, waitq, previous, acquired, waiting, ip>>

\* if (mp->owner != NULL) _yield(mp->owner->tid): owner is read twice.
UlChk(t) ==
    /\ pc[t] = "ul_chk"
    /\ IF owner[Mtx(t)] # NULL
       THEN Goto(t, "ul_yield") /\ UNCHANGED ip
       ELSE Goto(t, "prog") /\ ip' = [ip EXCEPT ![t] = NextIp(t)]
    /\ UNCHANGED <<runq, mlock, list_owner, owner, waitq, previous, acquired,
                   waiting>>

UlYield(t) ==
    /\ pc[t] = "ul_yield"
    /\ _yield(t, owner[Mtx(t)])
    /\ ip' = [ip EXCEPT ![t] = NextIp(t)]
    /\ Goto(t, "prog")
    /\ UNCHANGED <<mlock, list_owner, owner, waitq, previous, acquired,
                   waiting>>

(***************************************************************************)
(* timer_handler, time slicing: the running thread goes to the tail and    *)
(* the new head gets the CPU.                                              *)
(***************************************************************************)
Tick ==
    /\ runq' = thrlist_add_tail(Head(runq), Tail(runq))
    /\ UNCHANGED <<mlock, list_owner, owner, waitq, previous, acquired,
                   waiting, pc, ip>>

Step(t) ==
    /\ Running(t)
    /\ \/ Begin(t)  \/ LkTas(t)  \/ LkSetLo(t) \/ LkRel1(t)  \/ LkRel2(t)
       \/ LkWRel1(t) \/ LkWRel2(t) \/ LkYield(t)
       \/ UlTas(t)  \/ UlSetLo(t) \/ UlRel1(t) \/ UlRel2(t)
       \/ UlChk(t)  \/ UlYield(t)

Init ==
    /\ runq \in {s \in [1..Cardinality(Threads) -> Threads] :
                    \A i, j \in DOMAIN s : i # j => s[i] # s[j]}
    /\ mlock = [m \in Mutexes |-> FALSE]
    /\ list_owner = [m \in Mutexes |-> NULL]
    /\ owner = [m \in Mutexes |-> NULL]
    /\ waitq = [m \in Mutexes |-> <<>>]
    /\ previous = [m \in Mutexes |-> NULL]
    /\ acquired = [t \in Threads |-> NULL]
    /\ waiting = [t \in Threads |-> FALSE]
    /\ pc = [t \in Threads |-> "prog"]
    /\ ip = [t \in Threads |-> 1]

Next == Tick \/ \E t \in Threads : Step(t)

(***************************************************************************)
(* The timer interrupts for ever, so Tick is weakly fair.  A thread that   *)
(* gets the CPU infinitely often executes its next instruction: strong     *)
(* fairness of its steps.                                                  *)
(***************************************************************************)
Fairness == WF_vars(Tick) /\ \A t \in Threads : SF_vars(Step(t))

Spec == Init /\ [][Next]_vars /\ Fairness

-----------------------------------------------------------------------------
\* Besides the types: the running list holds every thread exactly once.
TypeOK ==
    /\ runq \in Seq(Threads)
    /\ IsInjective(runq) /\ ToSet(runq) = Threads
    /\ mlock \in [Mutexes -> BOOLEAN]
    /\ list_owner \in [Mutexes -> Threads \cup {NULL}]
    /\ owner \in [Mutexes -> Threads \cup {NULL}]
    /\ waitq \in [Mutexes -> Seq(Threads)]
    /\ previous \in [Mutexes -> Mutexes \cup {NULL}]
    /\ acquired \in [Threads -> Mutexes \cup {NULL}]
    /\ waiting \in [Threads -> BOOLEAN]
    /\ pc \in [Threads -> PCs]
    /\ ip \in [Threads -> 1..Len(Program)]

\* The mutexes t holds according to where it is in Program: a lock of m
\* that has returned and no unlock of m started since.
Holds(t, m) ==
    LET done == ip[t] - 1
    IN  \E i \in 1..done :
            /\ Program[i] = <<"lock", m>>
            /\ \A j \in i + 1..done : Program[j] # <<"unlock", m>>

\* the mutex already pushed by a mutex_lock that has not returned, and the
\* one already popped by a mutex_unlock that has not returned
PushedBy(t) == IF pc[t] \in {"lk_rel1", "lk_rel2"} THEN {Mtx(t)} ELSE {}
PoppedBy(t) == IF pc[t] \in {"ul_rel1", "ul_rel2", "ul_chk", "ul_yield"}
               THEN {Mtx(t)} ELSE {}

\* The mutexes t owns at this point of its program.
Owned(t) == ({m \in Mutexes : Holds(t, m)} \ PoppedBy(t)) \cup PushedBy(t)

\* Mutual exclusion: no two threads ever own the same mutex, counting from
\* the step of mutex_lock that takes it to the step of mutex_unlock that
\* hands it on.
MutualExclusion ==
    \A t1, t2 \in Threads : t1 # t2 => Owned(t1) \cap Owned(t2) = {}

\* Each mutex as its callers see it: the lock of RWLockSpec used only for
\* writing, which a thread holds while it owns the mutex.
LockMode(m) == [t \in Threads |-> IF m \in Owned(t) THEN "write" ELSE "none"]
LockOf(m) == INSTANCE RWLockSpec WITH mode <- LockMode(m)

WaitersHaveOwner ==
    \A m \in Mutexes : waitq[m] # <<>> => owner[m] # NULL

\* No lost waiter: a thread looping in mutex_lock (waiting = TRUE) that has
\* not been made the owner is in the wait list exactly once; mutex_unlock
\* never drops a queued thread and mutex_lock never queues one twice.
NoLostWaiter ==
    \A t \in Threads : \A m \in Mutexes :
        (waiting[t] /\ Mtx(t) = m /\ owner[m] # t) =>
            Cardinality({i \in 1..Len(waitq[m]) : waitq[m][i] = t}) = 1

\* The held stack (acquired_lock chained through previous_lock) lists
\* exactly the mutexes a thread owns, and the mutex records it as owner:
\* what vanish_thread unwinds is what the thread holds.
RECURSIVE Chain(_, _)
Chain(m, n) == IF m = NULL \/ n = 0 THEN {} ELSE {m} \cup Chain(previous[m], n - 1)

HeldStackExact ==
    \A t \in Threads :
        Chain(acquired[t], Cardinality(Mutexes)) =
            Owned(t) /\ \A m \in Owned(t) : owner[m] = t

\* A timer interrupt that preempts a thread while it holds a metadata
\* spin flag (between the testandset and the *mlock = FALSE that follows).
FlagHolder(t) == pc[t] \in {"lk_setlo", "lk_rel1", "lk_wrel1", "ul_setlo", "ul_rel1"}
PreemptInSection == Tick /\ FlagHolder(Head(runq))

\* Bounded waiting: every thread that calls mutex_lock returns from it,
\* provided the timer does not preempt flag holders for ever.  The few
\* instructions under the flag are far shorter than a time slice, but a
\* timer that always fires inside them makes every other thread spin in
\* the testandset loop for ever; that schedule is excluded.
LockReturns ==
    (<>[][~PreemptInSection]_vars) =>
        \A t \in Threads : (pc[t] = "lk_tas") ~> (pc[t] = "prog")

=============================================================================
