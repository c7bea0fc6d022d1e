CONSTANTS
    N = 4
    Readers = {r}
    Writers = {w}
    Pollers = {}
    Signalled = {}
    Lens = {1, 3}
    Data = {0, 1}
    Zero = 0
    Modes = {"block"}
    EarlyOpen = FALSE
    Free = Free
    r = r
    w = w
SPECIFICATION Spec
PROPERTY ImplementsByteQueue
