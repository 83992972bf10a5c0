SPECIFICATION FairSpec
CONSTANTS
    Co = {e, a, b, c}
    Entry = e
    NoCo = NoCo
    Api = {"spawn", "wait", "yield", "sleep", "error", "create", "wrap"}
    MaxWait = 1
CHECK_DEADLOCK FALSE
INVARIANTS
    NormalHasChild
PROPERTIES
    WakeHasCause
    Terminates
