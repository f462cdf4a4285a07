SPECIFICATION FairSpec
CONSTANTS
    c1 = c1
    c2 = c2
    m1 = m1
    m2 = m2
    m3 = m3
    Producers = {p1, p2}
    Parsers = {c1, c2}
    ServedBy <- OnePerQueue
    NQueues = 2
    Configured = 2
    Tunings <- SafeTunings
    Msgs = {m1, m2, m3}
    Modulus <- Moduli
    None = None
INVARIANTS
    TypeOK
    
    NoLostWakeup
    GetFindsMessage
    SameCallInOrder
PROPERTIES
    ImplementsDispatch
    EveryMessageParsed
