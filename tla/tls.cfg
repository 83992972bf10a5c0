SPECIFICATION FairSpec
CONSTANTS
    Nil = Nil
    Sides <- BothSides
    MaxConnections = 3
    Careful = TRUE
    Siblings = 1
INVARIANTS AnswersDecide NothingOutlives
PROPERTIES HookEnds
