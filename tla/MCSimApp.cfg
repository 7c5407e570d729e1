SPECIFICATION Spec
CONSTANTS
    r1 = r1
    r2 = r2
    None = None
    Request <- TwoRequests
    SeqNo <- TwoNumbers
    Kinds <- AllKinds
    MaxThreads = 2
    MaxConns = 4
    MaxFaults = 2
INVARIANTS
    TypeOK
    AnswersAreTrue
    RowAndLogTogether
    SerialDedup
    FaultCostsOneReading
PROPERTIES
    EveryRequestAnswered
CHECK_DEADLOCK FALSE
