---------------------------- MODULE MCLifecycle ----------------------------
EXTENDS Lifecycle, TLC

CONSTANTS p0, p1, p2, p3, t0, t1, t2, t3

\* Two process blocks: init and one child.
MCProcs2 == {p0, p1}
MCThreads2 == {t0, t1}
\* Three process blocks: init, a child and a grandchild.
MCProcs3 == {p0, p1, p2}
\* Four: init can fork while a child with a child of its own vanishes.
MCProcs4 == {p0, p1, p2, p3}
MCThreads == {t0, t1, t2, t3}
MCThreads3 == {t0, t1, t2}
\* Page contents: what the program first finds, and what it stores.
MCVals == {0, 1}

MCAllCalls == {"fork", "thread_fork", "wait", "vanish"}
\* Threads of one process storing to memory after a fork.
MCCowCalls == {"fork", "thread_fork", "write"}
\* Everything, memory included.
MCMemCalls == MCAllCalls \cup {"write", "new_pages", "remove_pages"}
\* The init program and most test programs never call thread_fork.
MCNoThreadFork == {"fork", "wait", "vanish"}

\* Blocks other than init's are interchangeable (safety runs only).
MCSymmetry == Permutations({p1, p2}) \cup Permutations({t1, t2, t3})
MCSymmetry3 == Permutations({p1, p2}) \cup Permutations({t1, t2})
====
