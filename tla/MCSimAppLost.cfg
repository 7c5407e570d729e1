SPECIFICATION Spec
CONSTANTS
    r1 = r1
    r2 = r2
    None = None
    Request <- TwoRequests
    SeqNo <- TwoNumbers
    Kinds <- Readings
    MaxThreads = 2
    MaxConns = 3
    MaxFaults = 0
INVARIANTS
    ForcedIsStored
CHECK_DEADLOCK FALSE
