SPECIFICATION Spec
CONSTANTS
    KeyOrder <- MCKeyOrder
    Values = {"", "a", "long", "quoted", "escaped"}
    Long = {"long"}
    Quoted = {"quoted"}
    Parsed <- MCParsed
    Default <- MCDefault
    Typed <- MCTyped
    MaxUriHandlers = 4
    MaxAssociations = 1
    MaxFaults = 0
    MaxRequests = 3
    MaxEdits = 1
PROPERTIES
    AnsweredApplySucceeds
