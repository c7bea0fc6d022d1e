CONSTANTS
    Users = {a, b}
    Leds = {"scroll", "num"}
    Masks = {{"scroll"}, {"scroll", "num"}, {"high"}}
    Seconds = {1, 2}
    Hz = 5
    IntMax = 7
    HotUnload = TRUE
    a = a
    b = b
SPECIFICATION Spec
INVARIANT BlinksUntilUnloaded
