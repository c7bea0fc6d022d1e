CONSTANTS
    N = 3
    Readers = {r}
    Writers = {w}
    Pollers = {r}
    Signalled = {}
    Lens = {1, 2}
    Data = {0}
    Zero = 0
    Modes = {"block"}
    EarlyOpen = FALSE
    Free = Free
    r = r
    w = w
SPECIFICATION FairSpec
PROPERTIES ReadReturns WriteReturns PollReturns
