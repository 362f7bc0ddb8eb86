CONSTANTS
    Files <- AllFiles
    Verticals <- AllVerticals
    Limits <- ZeroOrOne
    PageLength = 2
SPECIFICATION FairSpec
CHECK_DEADLOCK FALSE
INVARIANTS
    TypeOK
    
    AnswersSound
PROPERTIES
    Responsive
