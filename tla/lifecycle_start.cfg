SPECIFICATION Spec
CONSTANTS
    Stored <- AnyStored
    Defaults <- BuildDefaults
    MaxFaults = 2
INVARIANTS
    TypeOK
    SyncFindsClient
    SessionNeedsClock
    SetupIsQuiet
PROPERTIES
    SwitchLeadsToSetup
