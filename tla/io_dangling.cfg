SPECIFICATION Spec
CONSTANTS
    Nil = Nil
    Coroutine <- TwoCoroutines
    Channels <- NoStderr
    VM <- TwoVMs
    Together <- PipeAlone
    MaxFlushing = 0
    Careful = FALSE
INVARIANT NoStaleEvent
