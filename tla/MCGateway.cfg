SPECIFICATION Spec
CONSTANTS
    g1 = g1
    f1 = f1
    f2 = f2
    NoFrame = NoFrame
    Gateways <- MCGateways
    Frame <- MCFrame
    MaxSlots = 2
    NumCycles = 4
INVARIANTS
    TypeOK
    HandedInOrder
    RoleGovernsFlash
    DropsOnlyOnLateSlave
PROPERTIES
    MasterDrains
    LoopEnds
