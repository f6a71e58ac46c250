SPECIFICATION Spec
CONSTANTS
    Callers = {c1, c2}
    Requests <- Numbered
    Depth = 1
    Lag = 1
    Blocks = {1}
    TxHeight = 1
    MutableTTL = 1
    NegTTL = 1
    MaxHeight = 2
    MaxTime = 3
INVARIANTS
    FinalAnswersAreRight
    ErrorsAreRecent
PROPERTY
    CallersAreAnswered
