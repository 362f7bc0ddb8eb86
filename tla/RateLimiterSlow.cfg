CONSTANTS
    c1 = c1
    c2 = c2
    Callers <- TwoCallers
    Rates <- SlowRates
    Unit = 2
    Hz = 2
    MaxSpan = 3
SPECIFICATION FairSpec
PROPERTIES
    ServedAtAnyRate
