\* The thread hash lock with two readers and one writer that may downgrade.
CONSTANTS
    NULL = NULL
    Readers = {r1, r2}
    Writers = {w1}
SPECIFICATION Spec
INVARIANTS
    CountsExact
PROPERTIES
    WriterEnters
