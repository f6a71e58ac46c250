SPECIFICATION Spec
CONSTANTS
    Inputs <- Tries
    Clients = {c1, c2}
    N = 2
    LagThreshold = 1
    MaxHeight = 2
INVARIANTS
    StrongestSourceWins
    EarlyLoggerAgrees
    StoreOutlivesItsUsers
    EmptyRotationNeedsAbortedProbe
PROPERTY
    SignalEndsProcess
