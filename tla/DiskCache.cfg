CONSTANTS
    w1 = w1
    w2 = w2
    w3 = w3
    Workers <- ThreeWorkers
    TTL = 0
    MaxPuts = 3
SYMMETRY WorkerSymmetry
SPECIFICATION Spec
INVARIANTS
    TypeOK
PROPERTIES
    HitNotStale
    HitFresh
    EvictJustified
    PutLands
