SPECIFICATION Spec
CONSTANTS
    p1 = p1
    p2 = p2
    Zero = Zero
    Packet <- MCPacket
    MaxSlots = 3
INVARIANTS
    TypeOK
    RingConsistent
PROPERTIES
    ImplementsFifo
