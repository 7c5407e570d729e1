SPECIFICATION Spec
CONSTANTS
    r1 = r1
    r2 = r2
    None = None
    Request <- TwoRequests
    SeqNo <- TwoNumbers
    Kinds <- AllKinds
    MaxThreads = 1
    MaxConns = 2
    MaxFaults = 0
INVARIANTS
    SmsHalvesFound
CHECK_DEADLOCK FALSE
