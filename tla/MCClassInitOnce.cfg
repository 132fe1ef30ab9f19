SPECIFICATION Spec
CONSTANTS
    t1 = t1
    t2 = t2
    a = a
    b = b
    d = d
    NoClass = NoClass
    Threads <- MCThreads
    Main = t1
    Classes <- MCClasses
    Super <- MCSuper
    HasClinit <- MCHasClinit
    Touches <- MCTouches
    Disabled <- MCDisabled
    MaxCalls = 2
    MaxThrows = 1
INVARIANT AtMostOnce
CHECK_DEADLOCK FALSE
