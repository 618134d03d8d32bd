SPECIFICATION Spec
CONSTANTS
    MaxPayload = 3
    PartitionSize = 3
    MaxChunk = 2
    MaxLength = 4
    QueueSize = 2
    Paced = TRUE
    MaxMessages = 3
    MaxFaults = 2
    Junk = Junk
    Erased = Erased
PROPERTIES
    StoreSpec
    CompleteIsStored
