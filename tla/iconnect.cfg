SPECIFICATION Spec
CONSTANTS
    KeyOrder <- MCKeyOrder
    Values = {"", "a", "long", "quoted", "escaped"}
    Long = {"long"}
    Quoted = {"quoted"}
    Parsed <- MCParsed
    Default <- MCDefault
    Typed <- MCTyped
    MaxUriHandlers = 5
    MaxAssociations = 2
    MaxFaults = 1
    MaxRequests = 4
    MaxEdits = 1
INVARIANTS
    TypeOK
    UntouchedSettingsKept
    OneServer
PROPERTIES
    VerifiedMeansStored
    ServerStops
