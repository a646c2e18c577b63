SPECIFICATION MCSpec
CONSTANTS
    Trans = {1, 2}
    RC = 3
    RM = 5
    TI = 7
    Addrs = {"a1", "a2"}
    None = None
    Queries = {"q1", "q2"}
    Srvc = 2
    NTX_MAX = 2
    Perms = {"p"}
    Chans = {"c"}
    FAILC_MAX = 3
    CHAN_NUMB_MAX = 1
CHECK_DEADLOCK FALSE
INVARIANTS
    NetTypeOK
    NetSound
    NetPending
PROPERTIES
    NetEnds
