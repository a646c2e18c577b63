SPECIFICATION MCSpec
CONSTANTS
    t1 = t1
    t2 = t2
    main = main
    app = app
    w1 = w1
    w2 = w2
    x1 = x1
    x2 = x2
    none = none
    Workers <- MCWorkers
    Callers <- MCCallers
    Main = main
    Works <- MCWorks
    Ids = {0, 1}
    NoThread = none
    NoWork = none
    MaxReq = 2
    MaxCancel = 1
    PipeCap = 2
CONSTRAINT MainBound
SYMMETRY Symmetry
CHECK_DEADLOCK FALSE
INVARIANT CancelAlwaysHolds
