SPECIFICATION SharedSpec
CONSTANTS
    Threads = {t1, t2}
    Chain <- MCChain
    Fields <- MCFields
    Statics <- MCStatics
    PutValues = {3}
    Exchanges <- MCExchanges
    MaxOps = 2
    Texts = {e, a}
    Empty = e
    ClassNames = {a}
    MaxObjects = 3
SYMMETRY MCSymmetry
INVARIANTS
    SharedTypeOK
    Regular
    ExactUnlessDisturbed
    NeverAhead
    LaterCallsAgree
PROPERTIES
    CanonicalNeverChanges
CHECK_DEADLOCK FALSE
