SPECIFICATION Spec
CONSTANTS
    MaxAddr = 3
    MaxSrv = 3
    SrvTransports = 3
CHECK_DEADLOCK FALSE
INVARIANT FailedNotSent
