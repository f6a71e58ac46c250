SPECIFICATION Spec
CONSTANTS
    MaxConns = 2
    MaxOps = 2
    MaxNotes = 2
    ClientOps = {"sub"}
    ClientFaults = {"stalled", "left"}
    ChanCap = 1
    PendingCap = 1
    ReplayCap = 1
    WriteErrors = TRUE
    NoVal = NoVal
    SubId <- FreshId
INVARIANTS
    BuffersBounded
PROPERTIES
    SessionEnds
    SilentUpstreamIsLeft
    GoroutinesEnd
    SubscribesAreLostWithUpstreams
