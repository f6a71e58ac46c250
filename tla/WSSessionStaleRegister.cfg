SPECIFICATION Spec
CONSTANTS
    MaxConns = 2
    MaxOps = 2
    MaxNotes = 0
    ClientOps = {"sub"}
    ClientFaults = {"stalled", "left"}
    ChanCap = 1
    PendingCap = 2
    ReplayCap = 1
    WriteErrors = TRUE
    NoVal = NoVal
    SubId <- FreshId
INVARIANTS
    ReplayIsComplete
