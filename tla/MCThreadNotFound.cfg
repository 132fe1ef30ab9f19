SPECIFICATION LifecycleSpec
CONSTANTS
    main = main
    a = a
    b = b
    Threads <- MCThreads
    Main = main
    NoThread = NoThread
    MaxCalls = 1
INVARIANT
    NotFoundIsFinished
CHECK_DEADLOCK FALSE
