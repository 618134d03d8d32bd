SPECIFICATION Spec
CONSTANTS
    QueueSize = 2
    MaxRounds = 4
    MaxFaults = 1
INVARIANTS
    TypeOK
    NeverOlderThanPosted
    OnlyFailedFieldsAreStale
    RecordIsSnapshot
PROPERTIES
    ReadingsNeverGoBack
    EveryRoundIsPublished
