CONSTANTS
    w1 = w1
    w2 = w2
    u = u
    Workers <- TwoWorkers
    Urls <- OneUrl
    Settings <- AllSettings
    AllFiles <- ShortFiles
    TTL = 1
    DiskTTL = 2
    Hour = 1
    MaxNow = 3
SYMMETRY Symmetry
SPECIFICATION Spec
CHECK_DEADLOCK FALSE
INVARIANTS
    TypeOK
    AgeBounded
    OldOnlyByRace
    DecisionsExplained
    ParserReference
