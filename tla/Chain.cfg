CONSTANTS
    s1 = s1
    s2 = s2
    Searches <- TwoSearches
    Retries <- TwoEntries
    Starved = {2}
    Thresholds = {1, 2}
    Cooldown = 2
SPECIFICATION FairSpec
INVARIANTS
    TypeOK
    NoResultsAccounted
PROPERTIES
    LeakBounded
    NeverHammered
    SearchReturns
    BreakerCloses
    ImplementsFallback
