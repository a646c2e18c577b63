SPECIFICATION MCSpec
CONSTANTS
    MaxSeq = 2
    Requests = {"PRACK", "UPDATE", "INFO"}
    LateProgress = FALSE
    MaxLoop = 4
    MaxOpen = 2
    RESUB_FAILC_MAX = 3
CHECK_DEADLOCK FALSE
INVARIANTS
    UaTypeOK
    UaRefsSound
    OneFinal
    ModifyKept
    RefreshPending
    GoodbyeTried
    NotifyInTurn
PROPERTIES
    StaysUnregistered
    UaFreed
