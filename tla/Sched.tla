------------------------------- MODULE Sched -------------------------------
(***************************************************************************)
(* The scheduler core: thread states and the running and sleeping lists   *)
(* of src/kern/prog/thread.c, the timer handler of src/kern/drivers/       *)
(* timer.c, and the scheduling system calls of src/kern/syscall/           *)
(* management.c: _yield, _sleep, _deschedule and _make_runnable.           *)
(*                                                                         *)
(* One CPU; cpu is the thread whose code executes.  The kernel is          *)
(* preemptible: a timer tick may come between any two steps, and unless   *)
(* no_switch is set it moves the head of the running list to the tail and *)
(* switches to the new head.  The thread_lock of every thread is a kernel *)
(* mutex (KMutex models its inside); here a lock attempt and an unlock are *)
(* single steps, with the wait list and the hand-off yield of the code.   *)
(***************************************************************************)
EXTENDS Integers, Sequences, SequencesExt, FiniteSets, ThrList

CONSTANTS
    Threads,    \* user threads making system calls
    Idle,       \* the idle thread
    NULL,       \* NULL, and tid -1 for _yield
    Calls,      \* Calls[t]: the system calls thread t may make
    TickSpan,   \* num_ticks is kept modulo TickSpan (2^32 in the code)
    MaxSleep    \* the largest sleep duration a thread asks for

ASSUME Idle \notin Threads /\ NULL \notin Threads \cup {Idle}
ASSUME TickSpan > MaxSleep /\ MaxSleep \in Nat

All == Threads \cup {Idle}
States == {"RUNNING", "BLOCKED", "SLEEPING", "ZOMBIE"}

VARIABLES
    runq,       \* the running list; its head is, by design, the CPU holder
    sleepq,     \* the sleeping list, ordered by wake
    state,      \* thread->state
    wake,       \* thread->wake
    num_ticks,  \* timer.c num_ticks
    no_switch,  \* timer.c no_switch (dont_switch_me_out)
    cpu,        \* the thread executing
    pc,         \* where each thread is in its system call
    tgt,        \* the argument of the call in progress
    tl_owner,   \* thread_lock of each thread: owner
    tl_waitq,   \* thread_lock of each thread: wait list
    granted,    \* (history) make_runnable has made a BLOCKED t runnable
    slept,      \* (history) ticks since t went to sleep, capped at MaxSleep
    need        \* (history) the ticks t asked to sleep

vars == <<runq, sleepq, state, wake, num_ticks, no_switch, cpu, pc, tgt,
          tl_owner, tl_waitq, granted, slept, need>>

(***************************************************************************)
(* The lists and states as one value Q, so that a handler's sequence of   *)
(* set_* calls composes.                                                   *)
(***************************************************************************)
Cur == [run |-> runq, slp |-> sleepq, st |-> state]

Apply(Q) == runq' = Q.run /\ sleepq' = Q.slp /\ state' = Q.st

\* unset_state: leave whatever list, state THR_ZOMBIE.
unset_state(x, Q) ==
    [Q EXCEPT !.run = thrlist_remove(x, @), !.slp = thrlist_remove(x, @),
              !.st[x] = "ZOMBIE"]

set_running(x, Q) ==
    LET U == unset_state(x, Q)
    IN  [U EXCEPT !.run = thrlist_add_head(x, @), !.st[x] = "RUNNING"]

set_runnable(x, Q) ==
    LET U == unset_state(x, Q)
    IN  [U EXCEPT !.st[x] = "RUNNING", !.run = thrlist_add_tail(x, @)]

\* Mutant: set_blocked that forgets to unlink the thread from its list.
set_blocked_keep(x, Q) == [Q EXCEPT !.st[x] = "BLOCKED"]

set_blocked(x, Q) == [unset_state(x, Q) EXCEPT !.st[x] = "BLOCKED"]

\* set_sleeping, with w = get_time() + sleep already computed.
set_sleeping(x, w, Q) ==
    LET U == unset_state(x, Q)
    IN  [U EXCEPT !.st[x] = "SLEEPING",
                  !.slp = thrlist_add_sorted(x, @, [wake EXCEPT ![x] = w])]

\* get_running(), or idle() when the running list is empty.
NextToRun(Q) == IF Q.run = <<>> THEN Idle ELSE Head(Q.run)

\* Mutant: a context switch that does not put other at the head.
ContextSwitchNoHead(other, Q) ==
    Apply(Q) /\ cpu' = other /\ no_switch' = FALSE

(***************************************************************************)
(* context_switch(self, other) (assembly): under disabled interrupts it   *)
(* saves self, calls set_running(other) and clears no_switch.             *)
(***************************************************************************)
ContextSwitch(other, Q) ==
    /\ Apply(set_running(other, Q))
    /\ cpu' = other
    /\ no_switch' = FALSE

Goto(t, l) == pc' = [pc EXCEPT ![t] = l]

(***************************************************************************)
(* _yield(tid) from inside mutex_lock/mutex_unlock on thread_lock: the    *)
(* target must be THR_RUNNING, else nothing happens.  Otherwise           *)
(* dont_switch_me_out, set_runnable(self), context_switch(self, target).  *)
(***************************************************************************)
MutexYield(self, x) ==
    IF x # NULL /\ state[x] = "RUNNING"
    THEN ContextSwitch(x, set_runnable(self, Cur))
    ELSE UNCHANGED <<runq, sleepq, state, cpu, no_switch>>

(***************************************************************************)
(* mutex_lock(thread_lock of m) as one attempt: take it when it is free   *)
(* on the first pass or was handed to us; else join the wait list (once) *)
(* and yield to the owner, staying at the same place.                     *)
(***************************************************************************)
MLock(t, m, next) ==
    LET queued == \E i \in 1..Len(tl_waitq[m]) : tl_waitq[m][i] = t IN
    IF (tl_owner[m] = NULL /\ ~queued) \/ tl_owner[m] = t
    THEN /\ tl_owner' = [tl_owner EXCEPT ![m] = t]
         /\ Goto(t, next)
         /\ UNCHANGED <<runq, sleepq, state, cpu, no_switch, tl_waitq>>
    ELSE /\ tl_waitq' = IF queued THEN tl_waitq
                        ELSE [tl_waitq EXCEPT ![m] = Append(@, t)]
         /\ MutexYield(t, tl_owner[m])
         /\ UNCHANGED <<tl_owner, pc>>

\* The first THR_RUNNING waiter, dropping the others (mutex_unlock's do/while).
RECURSIVE FirstRunning(_)
FirstRunning(q) ==
    IF q = <<>> THEN <<NULL, q>>
    ELSE IF state[Head(q)] = "RUNNING" THEN <<Head(q), Tail(q)>>
    ELSE FirstRunning(Tail(q))

(***************************************************************************)
(* mutex_unlock(thread_lock of m): hand it to the first running waiter   *)
(* and yield to that waiter.  The yield ends in a context switch, which   *)
(* clears no_switch even when the caller had set it.                      *)
(***************************************************************************)
MUnlock(t, m, next) ==
    LET p == FirstRunning(tl_waitq[m]) IN
    /\ tl_owner' = [tl_owner EXCEPT ![m] = p[1]]
    /\ tl_waitq' = [tl_waitq EXCEPT ![m] = p[2]]
    /\ MutexYield(t, p[1])
    /\ Goto(t, next)

-----------------------------------------------------------------------------
(***************************************************************************)
(* A thread in user mode makes one of its system calls (the trap).        *)
(***************************************************************************)

\* _yield(tid): the lookup and the THR_RUNNING test, before no_switch is set.
YieldCheck(t, x) ==
    /\ \/ x = NULL
       \/ x \in Threads /\ state[x] = "RUNNING"
    /\ Goto(t, "y_switch")
    /\ tgt' = [tgt EXCEPT ![t] = x]
    /\ UNCHANGED <<runq, sleepq, state, wake, cpu, no_switch, tl_owner,
                   tl_waitq, granted, slept, need>>

\* dont_switch_me_out; set_runnable(self); other = target or head;
\* context_switch(self, other).
YieldSwitch(t) ==
    LET Q == set_runnable(t, Cur)
        other == IF tgt[t] = NULL THEN Head(Q.run) ELSE tgt[t]
    IN
    /\ pc[t] = "y_switch"
    /\ ContextSwitch(other, Q)
    /\ Goto(t, "user")
    /\ UNCHANGED <<wake, tgt, tl_owner, tl_waitq, granted, slept, need>>

(***************************************************************************)
(* _sleep(ticks): ticks == 0 returns at once; otherwise, with no_switch   *)
(* set, set_sleeping(self, ticks) and switch to the head (or idle).       *)
(* The thread resumes at s_ret.                                           *)
(***************************************************************************)
\* Mutant: the wake-up tick computed without the wrap of the counter.
SleepNoWrap(t, n) ==
    /\ n > 0
    /\ LET w == num_ticks + n
           Q == set_sleeping(t, w, Cur)
       IN  /\ wake' = [wake EXCEPT ![t] = w]
           /\ ContextSwitch(NextToRun(Q), Q)
    /\ Goto(t, "s_ret")
    /\ slept' = [slept EXCEPT ![t] = 0]
    /\ need' = [need EXCEPT ![t] = n]
    /\ UNCHANGED <<num_ticks, tgt, tl_owner, tl_waitq, granted>>

Sleep(t, n) ==
    /\ n > 0
    /\ LET w == (num_ticks + n) % TickSpan
           Q == set_sleeping(t, w, Cur)
       IN  /\ wake' = [wake EXCEPT ![t] = w]
           /\ ContextSwitch(NextToRun(Q), Q)
    /\ Goto(t, "s_ret")
    /\ slept' = [slept EXCEPT ![t] = 0]
    /\ need' = [need EXCEPT ![t] = n]
    /\ UNCHANGED <<num_ticks, tgt, tl_owner, tl_waitq, granted>>

SysRet(t) ==
    /\ pc[t] \in {"s_ret", "d_ret"}
    /\ Goto(t, "user")
    /\ UNCHANGED <<runq, sleepq, state, wake, num_ticks, no_switch, cpu, tgt,
                   tl_owner, tl_waitq, granted, slept, need>>

(***************************************************************************)
(* _deschedule(flag): lock own thread_lock; if *flag != 0 unlock and      *)
(* return; dont_switch_me_out(); unlock; set_blocked(self); switch.       *)
(***************************************************************************)
DescheduleLock(t) ==
    /\ pc[t] = "d_lock"
    /\ MLock(t, t, "d_flag")
    /\ UNCHANGED <<wake, num_ticks, tgt, granted, slept, need>>

DescheduleFlag(t) ==
    /\ pc[t] = "d_flag"
    /\ IF tgt[t] # 0
       THEN MUnlock(t, t, "user")
       ELSE /\ no_switch' = TRUE
            /\ Goto(t, "d_unlock")
            /\ UNCHANGED <<runq, sleepq, state, cpu, tl_owner, tl_waitq>>
    /\ UNCHANGED <<wake, num_ticks, tgt, granted, slept, need>>

DescheduleUnlock(t) ==
    /\ pc[t] = "d_unlock"
    /\ MUnlock(t, t, "d_block")
    /\ UNCHANGED <<wake, num_ticks, tgt, granted, slept, need>>

DescheduleBlock(t) ==
    /\ pc[t] = "d_block"
    /\ Apply(set_blocked(t, Cur))
    /\ granted' = [granted EXCEPT ![t] = FALSE]
    /\ Goto(t, "d_switch")
    /\ UNCHANGED <<wake, num_ticks, no_switch, cpu, tgt, tl_owner, tl_waitq,
                   slept, need>>

DescheduleSwitch(t) ==
    /\ pc[t] = "d_switch"
    /\ ContextSwitch(NextToRun(Cur), Cur)
    /\ Goto(t, "d_ret")
    /\ UNCHANGED <<wake, num_ticks, tgt, tl_owner, tl_waitq, granted, slept,
                   need>>

(***************************************************************************)
(* _make_runnable(tid): the THR_BLOCKED test comes before the target's    *)
(* thread_lock is taken; then dont_switch_me_out, set_runnable(target),   *)
(* unlock, context_switch(self, target).                                  *)
(***************************************************************************)
MakeRunnableCheck(t, x) ==
    /\ state[x] = "BLOCKED"
    /\ Goto(t, "m_lock")
    /\ tgt' = [tgt EXCEPT ![t] = x]
    /\ UNCHANGED <<runq, sleepq, state, wake, num_ticks, no_switch, cpu,
                   tl_owner, tl_waitq, granted, slept, need>>

MakeRunnableLock(t) ==
    /\ pc[t] = "m_lock"
    /\ MLock(t, tgt[t], "m_run")
    /\ UNCHANGED <<wake, num_ticks, tgt, granted, slept, need>>

MakeRunnableRun(t) ==
    LET x == tgt[t] IN
    /\ pc[t] = "m_run"
    /\ no_switch' = TRUE
    /\ Apply(set_runnable(x, Cur))
    /\ granted' = [granted EXCEPT ![x] = @ \/ state[x] = "BLOCKED"]
    /\ Goto(t, "m_unlock")
    /\ UNCHANGED <<wake, num_ticks, cpu, tgt, tl_owner, tl_waitq, slept, need>>

MakeRunnableUnlock(t) ==
    /\ pc[t] = "m_unlock"
    /\ MUnlock(t, tgt[t], "m_switch")
    /\ UNCHANGED <<wake, num_ticks, tgt, granted, slept, need>>

MakeRunnableSwitch(t) ==
    /\ pc[t] = "m_switch"
    /\ ContextSwitch(tgt[t], Cur)
    /\ Goto(t, "user")
    /\ UNCHANGED <<wake, num_ticks, tgt, tl_owner, tl_waitq, granted, slept,
                   need>>

\* Entering a system call from user mode.
Syscall(t) ==
    /\ pc[t] = "user"
    /\ \E c \in Calls[t] :
        \/ c[1] = "yield" /\ YieldCheck(t, c[2])
        \/ c[1] = "sleep" /\ Sleep(t, c[2])
        \/ c[1] = "deschedule" /\ Goto(t, "d_lock")
                               /\ tgt' = [tgt EXCEPT ![t] = c[2]]
                               /\ UNCHANGED <<runq, sleepq, state, wake,
                                    num_ticks, no_switch, cpu, tl_owner,
                                    tl_waitq, granted, slept, need>>
        \/ c[1] = "make_runnable" /\ MakeRunnableCheck(t, c[2])

-----------------------------------------------------------------------------
(***************************************************************************)
(* timer_handler.  Every tick advances num_ticks (modulo TickSpan).  With *)
(* no_switch set it returns.  Otherwise it moves every sleeper at the     *)
(* head of the sleeping list whose wake <= num_ticks to the running list, *)
(* then switches: from idle to the first woken thread; from a thread to   *)
(* the next in line after putting it at the tail; from idle to the next   *)
(* thread when there is one.  get_self() is the head of the running list. *)
(***************************************************************************)
\* Mutant: the wake-up loop compares with < instead of <=.
RECURSIVE WakeSleepersLt(_, _)
WakeSleepersLt(Q, now) ==
    IF Q.slp # <<>> /\ wake[Head(Q.slp)] < now
    THEN WakeSleepersLt(set_runnable(Head(Q.slp), Q), now)
    ELSE Q

RECURSIVE WakeSleepers(_, _)
WakeSleepers(Q, now) ==
    IF Q.slp # <<>> /\ wake[Head(Q.slp)] <= now
    THEN WakeSleepers(set_runnable(Head(Q.slp), Q), now)
    ELSE Q

CountSleep == [t \in All |-> IF state[t] = "SLEEPING" /\ slept[t] < MaxSleep
                             THEN slept[t] + 1 ELSE slept[t]]

TimerHandler ==
    LET now    == (num_ticks + 1) % TickSpan
        Q1     == WakeSleepers(Cur, now)
        awoken == Q1.slp # sleepq
        self   == Head(Q1.run)
    IN
    /\ ~no_switch => runq # <<>>
    /\ num_ticks' = now
    /\ slept' = CountSleep
    /\ IF no_switch
       THEN UNCHANGED <<runq, sleepq, state, cpu, no_switch>>
       ELSE IF awoken /\ self = Idle
       THEN LET Q2 == unset_state(Idle, Q1) IN ContextSwitch(Head(Q2.run), Q2)
       ELSE IF self # Idle
       THEN LET Q2 == set_runnable(self, Q1) IN ContextSwitch(Head(Q2.run), Q2)
       ELSE IF Len(Q1.run) > 1
       THEN LET Q2 == unset_state(Idle, Q1) IN ContextSwitch(Head(Q2.run), Q2)
       ELSE Apply(Q1) /\ UNCHANGED <<cpu, no_switch>>
    /\ UNCHANGED <<wake, pc, tgt, tl_owner, tl_waitq, granted, need>>

-----------------------------------------------------------------------------
\* Threads' steps leave the tick counter alone.
Step(t) ==
    /\ cpu = t
    /\ UNCHANGED num_ticks
    /\ \/ Syscall(t)
       \/ SysRet(t)
       \/ YieldSwitch(t)
       \/ DescheduleLock(t) \/ DescheduleFlag(t) \/ DescheduleUnlock(t)
       \/ DescheduleBlock(t) \/ DescheduleSwitch(t)
       \/ MakeRunnableLock(t) \/ MakeRunnableRun(t) \/ MakeRunnableUnlock(t)
       \/ MakeRunnableSwitch(t)

(***************************************************************************)
(* After boot every user thread is runnable, idle is off the list, the   *)
(* first user thread runs, and interrupts are on.                         *)
(***************************************************************************)
Init ==
    /\ runq \in {s \in [1..Cardinality(Threads) -> Threads] : IsInjective(s)}
    /\ cpu = Head(runq)
    /\ sleepq = <<>>
    /\ state = [t \in All |-> IF t = Idle THEN "ZOMBIE" ELSE "RUNNING"]
    /\ wake = [t \in All |-> 0]
    /\ num_ticks = 0
    /\ no_switch = FALSE
    /\ pc = [t \in Threads |-> "user"]
    /\ tgt = [t \in Threads |-> NULL]
    /\ tl_owner = [t \in Threads |-> NULL]
    /\ tl_waitq = [t \in Threads |-> <<>>]
    /\ granted = [t \in Threads |-> FALSE]
    /\ slept = [t \in All |-> 0]
    /\ need = [t \in All |-> 0]

Next == TimerHandler \/ \E t \in Threads : Step(t)

\* The timer fires for ever; a thread that holds the CPU infinitely often
\* executes its next step.
Fairness == WF_vars(TimerHandler) /\ \A t \in Threads : SF_vars(Step(t))

Spec == Init /\ [][Next]_vars /\ Fairness

-----------------------------------------------------------------------------
TypeOK ==
    /\ runq \in Seq(All) /\ sleepq \in Seq(All)
    /\ state \in [All -> States]
    /\ wake \in [All -> 0..TickSpan - 1]
    /\ num_ticks \in 0..TickSpan - 1
    /\ no_switch \in BOOLEAN
    /\ cpu \in All
    /\ tl_owner \in [Threads -> Threads \cup {NULL}]
    /\ tl_waitq \in [Threads -> Seq(Threads)]
    /\ granted \in [Threads -> BOOLEAN]
    /\ slept \in [All -> 0..MaxSleep] /\ need \in [All -> 0..MaxSleep]

\* Spec invariant 1, on every handler that moves threads between lists:
\* whenever a timer tick may switch (no_switch clear), the thread holding
\* the CPU is the head of the running list, which timer_handler takes for
\* get_self().
RunningIsHead == ~no_switch => (runq # <<>> /\ Head(runq) = cpu)

\* Spec invariant 2, on unset_state and the set_* functions: a thread is
\* on the running list exactly when it is THR_RUNNING, on the sleeping
\* list exactly when THR_SLEEPING, and on each at most once.
ListsMatchStates ==
    /\ IsInjective(runq) /\ IsInjective(sleepq)
    /\ \A t \in All :
        /\ (\E i \in 1..Len(runq) : runq[i] = t) <=> state[t] = "RUNNING"
        /\ (\E i \in 1..Len(sleepq) : sleepq[i] = t) <=> state[t] = "SLEEPING"

\* Spec invariant 3, on thrlist_add_sorted and the wake-up loop of
\* timer_handler: the sleeping list is ordered by wake.
SleepSorted ==
    \A i \in 1..Len(sleepq) - 1 : wake[sleepq[i]] <= wake[sleepq[i + 1]]

\* A thread blocked in _deschedule comes back only after a _make_runnable
\* found it THR_BLOCKED and called set_runnable on it: no context switch
\* wakes a blocked thread on its own.
NoSpuriousWakeup ==
    \A t \in Threads : (pc[t] = "d_ret" /\ state[t] # "BLOCKED") => granted[t]

\* Scenario 4 of the spec, on _sleep and timer_handler: a sleeping thread
\* is woken no earlier than its deadline, get_time() + ticks.
SleepNotEarly ==
    \A t \in Threads : (pc[t] = "s_ret" /\ state[t] # "SLEEPING") => slept[t] >= need[t]

\* Every sleeping thread is eventually made runnable by the timer.
SleepersWake ==
    \A t \in Threads : state[t] = "SLEEPING" ~> state[t] = "RUNNING"

=============================================================================
