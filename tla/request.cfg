SPECIFICATION FairSpec
CONSTANTS
    Kinds <- MCKinds
    MaxPrints = 2
    MaxPasses = 2
    Codes = {"ok", "200", "special", "error", "close", "declined"}
    Careful = TRUE
    FilterSteps = {"keep", "discard", "replace"}
    LastFlags = {"leave", "set", "clear"}
    FilterFails = {"header", "body"}
INVARIANTS CountExact EachOnce  NothingLost
PROPERTIES NoSecondResponse RequestEnds
