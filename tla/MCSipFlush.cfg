SPECIFICATION Spec
CONSTANTS
    Conns = {1, 2}
    Reqs = {"r1"}
    Kas = {"k1"}
    HELD_MAX = 1
    RX_MAX = 2
    FlushHeld = TRUE
CHECK_DEADLOCK FALSE
INVARIANT FlushCloses
