CONSTANTS
    InnerCap = 1
    OuterCap = 2
    Pages <- Documents
    Length <- DocumentChunks
SPECIFICATION FairSpec
INVARIANTS
    TypeOK
    PipeOrdered
    FinalSound
    StreamIsPage
PROPERTIES
    ImplementsEventStream
    AllEnd
CHECK_DEADLOCK FALSE
