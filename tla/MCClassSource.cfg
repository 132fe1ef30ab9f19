SPECIFICATION Spec
CONSTANTS
    t1 = t1
    t2 = t2
    Threads = {t1, t2}
    Names = {"a", "b"}
    Archives = {"rt", "main"}
    ClassFiles = {"file"}
    Holds <- MCHolds
    NoName = NoName
    MaxCalls = 2
    MaxResets = 1
    MaxChanges = 2
INVARIANTS
    Inv
    FirstSourceWins
    LoadedIsReturned
    ResetForgets
SYMMETRY Symmetry
CHECK_DEADLOCK FALSE
