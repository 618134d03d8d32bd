SPECIFICATION Spec
CONSTANTS
    Spi = FALSE
    ChipId = 81
    SampleCount = 3
    Timeout = 2
    Values = {1, 3}
    MinValue = 1
    MaxValue = 2
    MaxFaults = 1
CHECK_DEADLOCK FALSE
PROPERTIES
    SelfTestEnds
