SPECIFICATION Spec
CONSTANTS
    main = main
    other = other
    Threads <- MCThreads
    Main = main
    Null = Null
    MaxOps = 4
INVARIANTS
    Inv
    OwnThrowableCaught
    SlotIsPending
    QuietWhileThrown
    EmbedderFindsThrow
CHECK_DEADLOCK FALSE
