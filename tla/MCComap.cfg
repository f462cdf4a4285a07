SPECIFICATION Spec
CONSTANTS
    CallIds = {x1, x2}
    Addr = {a1, a2}
    Workers = {w1, w2}
    COMAPS = 2
    DOATH = 1
    TIMER_DOA = 1
    Keys = {k1, k2}
    None = None
SYMMETRY Symmetry
INVARIANTS
    TypeOK
    CallInUseIsAllocated
    LateRequestIsSafe
    DeletedNeverFound
    MapsAgree
    NoCallLost
PROPERTIES
    FreedOnlyWhenQuiet
