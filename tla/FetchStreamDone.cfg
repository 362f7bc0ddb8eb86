CONSTANTS
    InnerCap = 1
    OuterCap = 2
    Pages <- FewDocuments
    Length <- FewChunks
SPECIFICATION FairSpec
INVARIANTS
    DoneMeansFetched
CHECK_DEADLOCK FALSE
