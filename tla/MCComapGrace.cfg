SPECIFICATION Spec
CONSTANTS
    CallIds = {x1}
    Addr = {a1}
    Workers = {w1}
    COMAPS = 2
    DOATH = 1
    TIMER_DOA = 2
    Keys = {k1}
    None = None
PROPERTIES
    GraceIsApplied
