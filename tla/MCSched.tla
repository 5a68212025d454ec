------------------------------ MODULE MCSched ------------------------------
(* The scheduler with two user threads and idle.  Each thread may yield,  *)
(* sleep, deschedule itself and make the other runnable; t1 yields to t2  *)
(* and sleeps two ticks, t2 yields to anyone and sleeps one tick.  The    *)
(* race instance: _deschedule against two _make_runnable callers, t1      *)
(* blocks itself over and over, t2 and t3 both wake it.                   *)
EXTENDS Sched

CONSTANTS t1, t2, t3

MCThreads == {t1, t2}
MCCalls == (t1 :> {<<"yield", t2>>, <<"sleep", 2>>, <<"deschedule", 0>>,
                   <<"make_runnable", t2>>})
        @@ (t2 :> {<<"yield", NULL>>, <<"sleep", 1>>, <<"deschedule", 0>>, <<"deschedule", 1>>,
                   <<"make_runnable", t1>>})

MCRaceThreads == {t1, t2, t3}
MCRaceCalls == (t1 :> {<<"deschedule", 0>>})
            @@ (t2 :> {<<"make_runnable", t1>>})
            @@ (t3 :> {<<"make_runnable", t1>>})
=============================================================================
