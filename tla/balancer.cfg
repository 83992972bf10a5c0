SPECIFICATION Spec
CONSTANTS
    Nil = Nil
    r1 = r1
    r2 = r2
    c1 = c1
    c2 = c2
    c3 = c3
    k1 = k1
    k2 = k2
    k3 = k3
    Request <- Requests
    Conn <- Connections
    Key <- TwoKeys
    Hash <- Collide
    MaxCached = 2
    PoolSizes <- OneOrNoLimit
    NextTries = 2
    MaxMore = 2
    MaxTotal = 3
INVARIANTS CacheExact TriesLimited
PROPERTIES IsCache
SYMMETRY Symmetry
