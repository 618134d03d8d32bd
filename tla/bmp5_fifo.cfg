SPECIFICATION Spec
CONSTANTS
    Clients <- MCClients
    MemoryBytes = 12
    Threshold = 1
    Loops = 2
    MaxFrame = 8
    MaxFaults = 2
INVARIANTS
    TypeOK
    FramesAccountedFor
PROPERTIES
    BatchesAreWhole
    ClientFinishes
