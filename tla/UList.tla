------------------------------- MODULE UList --------------------------------
(***************************************************************************)
(* The doubly linked list of integers of src/user/libthread/list.c, which  *)
(* the user mutex and condition variable keep their waiting threads in.    *)
(* A list is the sequence of its values from head to tail; the head and    *)
(* tail pointers and the size field follow from it (size is Len), so the   *)
(* pointer updates of each operation are the change of the sequence.       *)
(* list_removeHead returns -1 on an empty list: its result is a record of  *)
(* the value (none when empty) and the list left behind.                   *)
(***************************************************************************)
EXTENDS Sequences

\* list_init: no head, no tail, size 0.
list_init == <<>>

\* list_addLast: the new node becomes the tail (also the head when empty).
list_addLast(l, v) == Append(l, v)

\* list_removeHead: -1 (none) on an empty list, else the head's value, and
\* the next node becomes the head.
list_removeHead(l, none) ==
    IF l = <<>> THEN [value |-> none, rest |-> l]
    ELSE [value |-> Head(l), rest |-> Tail(l)]

\* list_size: the size field, kept equal to the number of nodes.
list_size(l) == Len(l)

====
