CONSTANTS
    Users = {a, b}
    Delays = {1, 2}
    Initial = 3
    EarlyOpen = FALSE
    TakeTurns = FALSE
    HotUnload = FALSE
    a = a
    b = b
SPECIFICATION Spec
INVARIANT NoOops
