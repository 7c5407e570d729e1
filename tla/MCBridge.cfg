SPECIFICATION Spec
CONSTANTS
    NumReadings = 3
    SeqMod = 2
    NumCycles = 2
    PipeSize = 1
INVARIANTS
    TypeOK
    IngestMatches
    StoredOncePerPath
    PipelineInOrder
PROPERTIES
    FramesReachCloud
    EveryReadingPosted
    InterruptedEnds
CHECK_DEADLOCK FALSE
