SPECIFICATION Spec
CONSTANTS
    Co = {e, a, b, c}
    Entry = e
    NoCo = NoCo
    Api = {"spawn", "wait", "kill", "yield", "sleep", "capture", "error", "exit", "on_abort"}
    MaxWait = 1
SYMMETRY Symm
CHECK_DEADLOCK FALSE
INVARIANTS
    UthreadsExact
    OnlyLiveRuns
    SuspensionExact
PROPERTIES
    EndsWhenAllDone
    ZombieHasParent
    WakeHasCause
