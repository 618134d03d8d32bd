SPECIFICATION Spec
CONSTANTS
    MaxPayload = 3
    PartitionSize = 3
    MaxChunk = 2
    MaxLength = 4
    QueueSize = 2
    Paced = FALSE
    MaxMessages = 3
    MaxFaults = 0
    Junk = Junk
    Erased = Erased
INVARIANTS
    WindowStaysWhole
