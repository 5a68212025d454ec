------------------------------ MODULE MCKMutex ------------------------------
(* Model of src/kern/lock/mutex.c for TLC: three threads, two mutexes.     *)
(* Every thread takes m1, then m2 nested inside it, and releases them in   *)
(* LIFO order, as the kernel's nested uses do (e.g. a process lock around  *)
(* a thread lock).                                                         *)
EXTENDS KMutex

CONSTANTS t1, t2, t3, m1, m2

MCThreads == {t1, t2, t3}
MCMutexes == {m1, m2}
MCProgram == << <<"lock", m1>>, <<"lock", m2>>, <<"unlock", m2>>,
                <<"unlock", m1>> >>

MCSymmetry == Permutations(MCThreads)
=============================================================================
