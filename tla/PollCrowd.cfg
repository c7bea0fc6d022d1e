CONSTANTS
    N = 3
    Readers = {r1, r2}
    Writers = {w}
    Pollers = {}
    Signalled = {r1, r2}
    Lens = {2}
    Data = {0}
    Zero = 0
    Modes = {"block"}
    EarlyOpen = FALSE
    Free = Free
    r1 = r1
    r2 = r2
    w = w
SPECIFICATION Spec
SYMMETRY ReaderSymmetry
INVARIANTS CopyExclusive UseCountExact NoLostWakeup
