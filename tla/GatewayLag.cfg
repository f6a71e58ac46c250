SPECIFICATION GatewaySpec
CONSTANTS
    Callers = {c1}
    Requests <- Asked
    Depth = 1
    Lag = 1
    Blocks = {1}
    TxHeight = 1
    MutableTTL = 1
    NegTTL = 1
    MaxHeight = 2
    MaxTime = 1
    N = 2
INVARIANT FinalAnswersAreRight
