SPECIFICATION FairSpec
CONSTANTS
    Nil = Nil
    Coroutine <- TwoCoroutines
    Channels <- NoStderr
    VM <- TwoVMs
    Together <- AloneAndMixed
    MaxFlushing = 2
    Careful = TRUE
INVARIANTS ResourcesExact
PROPERTIES Refines WaitsEnd
