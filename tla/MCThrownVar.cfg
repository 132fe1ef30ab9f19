SPECIFICATION Spec
CONSTANTS
    main = main
    other = other
    Threads <- MCThreads
    Main = main
    Null = Null
    MaxOps = 3
INVARIANT
    ThrownHasThrowable
CHECK_DEADLOCK FALSE
