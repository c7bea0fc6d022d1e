CONSTANTS
    Tasks = {t, u, v}
    MaxDrift = 1
    Files = {f, g}
    Readers = {r, s}
    MaxAddr = 3
    NumTxDesc = 4
    RxBufLen = 5
    PktSizes = {2}
    Cpus = 1
    Users = {a, b}
    HotUnload = FALSE
    Delays = {1, 2}
    Initial = 3
    EarlyOpen = FALSE
    TakeTurns = TRUE
    Leds = {"scroll", "num"}
    Masks = {{"scroll"}, {"scroll", "num"}, {"high"}}
    Seconds = {2}
    Hz = 5
    IntMax = 7
    t = t
    u = u
    v = v
    f = f
    g = g
    r = r
    s = s
    a = a
    b = b
SPECIFICATION BenchSpec
INVARIANTS
    BenchTypeOK
    CopiesLiveBuffer DriftBounded Unwound
    BufferThere StaysReserved FreedUnmarked OutIsClean
    SlotAvailable NotForgotten
    OneInFlight AnswerDue
    NoOops DelayInForce TimerAlive UnloadedQuiet
    BlinkTypeOK BlinksUntilUnloaded
PROPERTIES
    LoneReaderEnds
    TakenBackOnce WokenWhenFree LostOnlyAtEnd QueueWakes ImplementsTransmitQueue
    QueueEnabled
    SteadyBlink IntervalComes
CHECK_DEADLOCK FALSE
