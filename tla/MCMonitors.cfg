SPECIFICATION Spec
CONSTANTS
    t1 = t1
    t2 = t2
    Threads = {t1, t2}
    Monitors = {"base", "self"}
    MethodMonitors <- MCMethodMonitors
    ObjectMonitors <- MCObjectMonitors
    None = None
    MaxOps = 3
INVARIANTS
    Inv
    MethodsUnlock
PROPERTIES
    MutualExclusion
    Served
CHECK_DEADLOCK FALSE
