SPECIFICATION FairSpec
CONSTANTS
    main = main
    a = a
    b = b
    Threads <- MCThreads
    Main = main
    NoThread = NoThread
    MaxCalls = 1
INVARIANTS
    LifecycleInv
    SelfFound
    NoAccessorLost
    FalseOnceKnown
PROPERTY
    JoinReturns
CHECK_DEADLOCK FALSE
