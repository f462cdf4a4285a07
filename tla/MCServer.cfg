CONSTANTS
    Calls = {c1}
    TIMER_DOA = 1
    MaxIncoming = 6
    MaxBacklog = 1
    MaxOther = 2
SPECIFICATION Spec
CHECK_DEADLOCK FALSE
INVARIANTS
    TypeOK
    NoDanglingPointer
    NothingLost
