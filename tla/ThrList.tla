------------------------------- MODULE ThrList -------------------------------
(***************************************************************************)
(* The intrusive doubly linked thread lists of src/kern/prog/thrlist.c,    *)
(* seen as sequences of thread ids.  The kernel keeps the run queue, the   *)
(* sleep queue and every process's waiter queue in such lists; a thread    *)
(* is in at most one list at a time (thread->list).  The head, tail and    *)
(* size fields are Head, Last and Len of the sequence.                     *)
(***************************************************************************)
EXTENDS Integers, Sequences, SequencesExt

\* thrlist_add_head: the thread becomes the new head.
thrlist_add_head(t, l) == <<t>> \o l

\* thrlist_add_tail: the thread becomes the new tail.
thrlist_add_tail(t, l) == Append(l, t)

\* thrlist_remove: unlink the thread wherever it is; a thread in no list
\* is left alone (the code returns 1).
thrlist_remove(t, l) == Remove(l, t)

(***************************************************************************)
(* thrlist_add_sorted: walk from the tail towards the head while the       *)
(* current thread wakes strictly later than t, then insert t just after    *)
(* the thread where the walk stopped (at the head when it ran off the      *)
(* list).  wake is the function thread -> wake-up tick.                    *)
(***************************************************************************)
RECURSIVE SortedPos(_, _, _, _)
SortedPos(t, l, wake, i) ==
    IF i = 0 \/ ~(wake[l[i]] > wake[t]) THEN i
    ELSE SortedPos(t, l, wake, i - 1)

\* Mutant: the sorted insert degenerated to an append.
thrlist_add_sorted_append(t, l, wake) == Append(l, t)

thrlist_add_sorted(t, l, wake) ==
    LET i == SortedPos(t, l, wake, Len(l))
    IN  SubSeq(l, 1, i) \o <<t>> \o SubSeq(l, i + 1, Len(l))

=============================================================================
