SPECIFICATION Spec
CONSTANTS
    Spi = FALSE
    ChipId = 81
    Odrs = {24}
    Osrs = {1}
    FrameSels = {0, 2, 3}
    Thresholds = {16, 32}
    OorThresholds = {98303}
    Addresses = {33, 35}
    Words = {513}
    Samples <- MCSamples
    Stack = {"STANDBY", "NORMAL"}
    Unassigned <- MCUnassigned
    MaxCalls = 2
    MaxFaults = 0
    MaxBytes = 28
    SetupBreaks <- MCSetupBreaks
CHECK_DEADLOCK FALSE
PROPERTIES
    PowerModeIsKnown
