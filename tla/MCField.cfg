SPECIFICATION Spec
CONSTANTS
    d1 = d1
    g1 = g1
    g2 = g2
    Zero = Zero
    NoFrame = NoFrame
    Data <- MCOneValue
    Loops <- MCLoops
    SeqMod = 4
    Interval = 1
    Gateways <- MCGateways
    NumCycles = 2
    MaxSlots = 1
    MaxTx = 2
    MaxColResets = 1
    MaxFaults = 1
INVARIANTS
    ReadingSurvivesOneLoss
    CloudFromAir
PROPERTIES
    HeardReachesCloud
CHECK_DEADLOCK FALSE
