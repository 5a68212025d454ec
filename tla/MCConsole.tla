----------------------------- MODULE MCConsole ------------------------------
(* Two threads at the prompt and one printing on a 2 x 2 console.          *)
EXTENDS Console

CONSTANTS r1, r2, p, none

MCThreads == {r1, r2, p}
MCPrintable == {"a"}
MCColors == {"white_red", "gray"}
\* Each reader reads one line of up to 3 and 2 keys; the printer prints
\* "a\n", moves the cursor, reads it back and changes the colour.
MCProg ==
    (r1 :> << [op |-> "readline", size |-> 3] >>) @@
    (r2 :> << [op |-> "readline", size |-> 2] >>) @@
    (p :> << [op |-> "print", s |-> <<"a", NL>>],
             [op |-> "set_cursor", row |-> 1, col |-> 1],
             [op |-> "get_cursor"],
             [op |-> "set_color", color |-> "gray"] >>)
====
