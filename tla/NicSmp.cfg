CONSTANTS
    NumTxDesc = 4
    RxBufLen = 3
    PktSizes = {}
    Cpus = 2
SPECIFICATION NicSpec
INVARIANTS SlotAvailable
