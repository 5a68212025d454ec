----------------------------- MODULE MCUThread ------------------------------
(* Instances of UThread for TLC.                                           *)
EXTENDS UThread, TLC

CONSTANTS m, a, b

MCThreads2 == {m, a}
MCThreads3 == {m, a, b}

MCMutexes == {TM, SM, CvMx(Slots), RWM, CvMx(NTI), CvMx(NWI)} \cup
             UNION {{DM(i), CvMx(Death(i))} : i \in DescIds}
MCCVs == {Slots, NTI, NWI} \cup {Death(i) : i \in DescIds}

\* Main creates a child and joins it; both run sem_wait; sem_signal.
SemFuncs == << << <<"sem_wait", 0>>, <<"sem_signal", 0>> >> >>
SemMain == << <<"create", 1>>, <<"sem_wait", 0>>, <<"sem_signal", 0>>,
              <<"join", 1>> >>

\* As SemMain, and then both take the rwlock to write; Main downgrades
\* to read, the child reads after writing.
RwFuncs == << << <<"sem_wait", 0>>, <<"sem_signal", 0>>,
                 <<"rw_write", 0>>, <<"rw_unlock", 0>>,
                 <<"rw_read", 0>>, <<"rw_unlock", 0>> >> >>
RwMain == << <<"create", 1>>, <<"sem_wait", 0>>, <<"sem_signal", 0>>,
             <<"rw_write", 0>>, <<"rw_downgrade", 0>>, <<"rw_unlock", 0>>,
             <<"join", 1>> >>

\* Main reads while it creates two writers, then leaves.
BargeFuncs == << << <<"rw_write", 0>>, <<"rw_unlock", 0>> >> >>
BargeMain == << <<"rw_read", 0>>, <<"create", 1>>, <<"create", 1>>,
                <<"rw_unlock", 0>> >>

\* Main creates two children that return at once, and joins them.
TwoFuncs == << <<>> >>
TwoMain == << <<"create", 1>>, <<"create", 1>>, <<"join", 1>>, <<"join", 2>> >>

====
