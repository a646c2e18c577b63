SPECIFICATION Spec
CONSTANTS
    MaxSeq = 2
    Requests = {"PRACK", "UPDATE", "INFO"}
    LateProgress = TRUE
CHECK_DEADLOCK FALSE
INVARIANTS
    NoDangling
