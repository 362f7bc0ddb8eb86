CONSTANTS
    s1 = s1
    s2 = s2
    Searches <- TwoSearches
    Retries <- TwoEntries
    Starved = {}
    Thresholds = {2}
    Cooldown = 1
SPECIFICATION Spec
PROPERTIES
    NoResultsMeansAllFailed
