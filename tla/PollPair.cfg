CONSTANTS
    N = 3
    Readers = {r}
    Writers = {w}
    Pollers = {r, w}
    Signalled = {w}
    Lens = {0, 2}
    Data = {0}
    Zero = 0
    Modes = {"block", "nonblock"}
    EarlyOpen = FALSE
    Free = Free
    r = r
    w = w
SPECIFICATION Spec
INVARIANTS TypeOK ReadDelivers PollInHolds PollOutHolds
