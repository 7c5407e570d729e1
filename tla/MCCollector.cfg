SPECIFICATION HwSpec
CONSTANTS
    d1 = d1
    d2 = d2
    Zero = Zero
    Data <- MCData
    Loops <- MCLoops
    SeqMod = 4
    Interval = 2
    MaxSlots = 2
    MaxLines = 2
    MaxDamage = 2
INVARIANTS
    HwTypeOK
    FramesAreConsecutive
    RepeatsLastSent
    FlashKeepsFirstFrames
    DamageCostsOneReading
PROPERTIES
    EveryReadingSent
