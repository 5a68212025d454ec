------------------------------ MODULE RWLockSpec ------------------------------
(***************************************************************************)
(* What a readers/writers lock promises (rwlock.h and the spec's section   *)
(* 4.4): any number of readers or one writer hold it; a writer may turn    *)
(* into a reader without letting another writer in between.               *)
(***************************************************************************)
CONSTANT Threads

VARIABLE mode     \* thread -> "none", "read" or "write"

NoWriter == \A u \in Threads : mode[u] # "write"
Empty(t) == \A u \in Threads \ {t} : mode[u] = "none"

Init == mode = [t \in Threads |-> "none"]

EnterRead(t)  == mode[t] = "none" /\ NoWriter /\ mode' = [mode EXCEPT ![t] = "read"]
EnterWrite(t) == mode[t] = "none" /\ Empty(t) /\ mode' = [mode EXCEPT ![t] = "write"]
Downgrade(t)  == mode[t] = "write" /\ mode' = [mode EXCEPT ![t] = "read"]
Leave(t)      == mode[t] # "none" /\ mode' = [mode EXCEPT ![t] = "none"]

Next == \E t \in Threads : EnterRead(t) \/ EnterWrite(t) \/ Downgrade(t) \/ Leave(t)

Spec == Init /\ [][Next]_mode

=============================================================================
