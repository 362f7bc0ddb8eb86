CONSTANTS
    s1 = s1
    s2 = s2
    kf = kf
    kp = kp
    Slots <- TwoSlots
    Keys <- TwoKeys
    Tier <- NamedTiers
    Tiers <- TierTable
    Hz = 2
    Options <- AllOptions
    MaxRequests = 2
    MaxDay = 1
    MaxSpan = 3
SYMMETRY Symmetry
SPECIFICATION Spec
CHECK_DEADLOCK FALSE
INVARIANTS
    TypeOK
    UsageAccounts
    CountedInLifetime
PROPERTIES
    ImplementsTokenBuckets
