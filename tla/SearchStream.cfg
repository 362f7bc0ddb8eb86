CONSTANTS
    ItemCap = 2
    MaxResults = 4
SPECIFICATION FairSpec
INVARIANTS
    TypeOK
PROPERTIES
    ImplementsEventStream
    BothEnd
CHECK_DEADLOCK FALSE
