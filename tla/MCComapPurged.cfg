SPECIFICATION FairSpec
CONSTANTS
    CallIds = {x1}
    Addr = {a1}
    Workers = {w1}
    COMAPS = 2
    DOATH = 1
    TIMER_DOA = 1
    Keys = {k1, k2}
    None = None
PROPERTIES
    EveryRequestedIsPurged
