CONSTANTS
    Key <- SimKey
    Payloads <- VectorPayloads
    Starts <- SomeStarts
    MaxReadings = 2
    Recorded <- Vectors
SPECIFICATION Spec
INVARIANTS
    TypeOK
    CloudReadsFrame
    CountersFresh
    AsRecorded
