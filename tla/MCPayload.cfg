SPECIFICATION SensorSpec
CONSTANTS
    Readings <- AllReadings
    Bursts <- SomeBursts
    Polled <- SomePolls
    BaseTs = 1774138000
INVARIANTS
    SensorTypeOK
    PackersAgree
    ReadingSurvives
    BurstCaught
    MachineAsPolled
