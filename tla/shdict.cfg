SPECIFICATION DictSpec
CONSTANTS
    Nil = Nil
    Key = {k1, k2, k3}
    Process = {p1, p2}
    Scalar <- SomeScalars
    Element = {0, 1}
    Capacity = 3
    Rounds = 2
    MaxList = 2
    MaxNow = 3
SYMMETRY Symmetric
VIEW Zone
INVARIANTS StorageExact
PROPERTIES IsCache
