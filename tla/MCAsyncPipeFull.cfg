SPECIFICATION MCSpec
CONSTANTS
    t1 = t1
    t2 = t2
    main = main
    app = app
    w1 = w1
    w2 = w2
    x1 = x1
    none = none
    Workers <- MCWorkers
    Callers <- MCCallers
    Main = main
    Works <- MCWorks
    Ids = {1}
    NoThread = none
    NoWork = none
    MaxReq = 2
    MaxCancel = 1
    PipeCap = 1
CHECK_DEADLOCK FALSE
PROPERTY EveryRequestSettled
