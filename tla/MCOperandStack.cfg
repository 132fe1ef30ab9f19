SPECIFICATION Spec
CONSTANTS
    Small <- MCSmall
    Big <- MCBig
    Nullptr = Nullptr
    MaxDepth = 5
INVARIANT
    TypeOK
PROPERTY
    FollowsJvm
CHECK_DEADLOCK FALSE
