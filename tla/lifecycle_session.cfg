SPECIFICATION Spec
CONSTANTS
    Stored <- ProvisionedStored
    Defaults <- BuildDefaults
    MaxFaults = 0
PROPERTIES
    SessionPersists
