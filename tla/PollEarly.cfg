CONSTANTS
    N = 3
    Readers = {r}
    Writers = {w}
    Pollers = {}
    Signalled = {}
    Lens = {1}
    Data = {0}
    Zero = 0
    Modes = {"block"}
    EarlyOpen = TRUE
    Free = Free
    r = r
    w = w
SPECIFICATION Spec
INVARIANT UseCountExact
