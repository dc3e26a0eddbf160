\* Three keys for two places; a time to live of two chunks and a rest.
CONSTANTS
    k1 = k1
    k2 = k2
    k3 = k3
    v1 = v1
    v2 = v2
    NoValue = NoValue
    Keys <- ThreeKeys
    Values <- TwoValues
    Ttl = 8
    MaxSize = 2
    Chunk = 3
    Margin = 2
    Lag = 1
    MaxTime = 12
SPECIFICATION Spec
SYMMETRY Symmetry
INVARIANTS
    TypeOK
    GoesInTime
PROPERTY KeepsThePromise
