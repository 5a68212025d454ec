\* Two waiters that wait twice each, one signaller and one broadcaster on
\* one condition variable.
CONSTANTS
    NULL = NULL
    Waiters = {w1, w2}
    Signallers = {s1}
    Broadcasters = {b1}
    Rounds = 2
SPECIFICATION Spec
PROPERTIES
    WaitReturns
