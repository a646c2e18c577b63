SPECIFICATION MCSpec
CONSTANTS
    Keys = {"inv", "inv2", "non"}
    Reliable = FALSE
    T1 = 1
    T2 = 2
    T4 = 2
    T64 = 4
    MaxPass <- MCMerge
CHECK_DEADLOCK FALSE
INVARIANTS
    TypeOK
    Owned
    MergeDetected
    RetransmitUntilAck
    OneDecision
    AckKept
PROPERTIES
    EndsAfterFinal
