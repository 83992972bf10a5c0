SPECIFICATION FairSpec
CONSTANTS
    Timer = {t1, t2, t3, t4}
    Req = {q1, q2}
    None = None
    MaxPending = 2
    MaxRunning = 1
CHECK_DEADLOCK FALSE
INVARIANTS
    AccountsExact
    PrematureRight
PROPERTIES
    Drained
