SPECIFICATION FairSpec
CONSTANTS
    Sock = {a, b, c, d}
    NoSock = NoSock
    Sizes = {1, 2}
    Backlogs <- MCBacklogs
INVARIANTS
    PoolExact
    AdmissionRight
PROPERTIES
    Served
