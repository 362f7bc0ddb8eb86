CONSTANTS
    InnerCap = 1
    OuterCap = 2
    Pages <- FewDocuments
    Length <- FewChunks
SPECIFICATION FairSpec
PROPERTIES
    NoGoroutineLeak
CHECK_DEADLOCK FALSE
