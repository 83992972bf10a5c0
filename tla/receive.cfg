SPECIFICATION Spec
CONSTANTS
    Nil = Nil
    Itself = Itself
    LF = "b"
    CR = "r"
    Streams <- AllStreams
    Patterns <- SomePatterns
    Sizes = {2}
    BufferSize = 2
    Kinds = {"upstream", "raw", "body"}
    Careful = TRUE
INVARIANTS AnswersRight NothingLost
