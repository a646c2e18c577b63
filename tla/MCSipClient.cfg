SPECIFICATION MCSpec
CONSTANTS
    Reliable = FALSE
    T1 = 1
    T2 = 8
    T4 = 10
    T64 = 64
    COMPLETE_WAIT = 64
CHECK_DEADLOCK FALSE
INVARIANTS
    ClientTypeOK
    OneFinal
    TimersRun
    SendRules
    RequestSound
PROPERTIES
    Ends
    Answered
