SPECIFICATION MCSpec
CONSTANTS
    Fds = {1, 2}
    Bad = 0
    TXQSZ_MAX = 3
    Sizes = {1, 2}
    MSG_MAX = 2
    Conns = {1, 2}
    Reqs = {"r1"}
    Kas = {"k1", "k2"}
    SipKas = {"k1"}
    HELD_MAX = 1
    RX_MAX = 2
    FlushHeld = FALSE
    Addrs = {"a1", "a2"}
    None = None
    UC_MAX = 2
    HttpReqs = {1, 2}
    DataReqs = {2}
    HttpConns = {1, 2}
    SRV_MAX = 2
    PARTS = 2
    MAX_RETRIES = 1
    SrvConns = {1, 2}
    PIPE_MAX = 2
    WsConns = {1, 2, 3}
CHECK_DEADLOCK FALSE
INVARIANTS
    ConnTypeOK
    ConnOwned
    ConnPending
PROPERTIES
    ConnEnds
