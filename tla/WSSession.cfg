SPECIFICATION Spec
CONSTANTS
    MaxConns = 2
    MaxOps = 3
    MaxNotes = 1
    ClientOps = {"sub", "unsub", "call"}
    ClientFaults = {"stalled", "left"}
    ChanCap = 1
    PendingCap = 2
    ReplayCap = 1
    WriteErrors = TRUE
    NoVal = NoVal
    SubId <- FreshId
INVARIANTS
    TypeOK
    NotesAreRecognised
    WritersMeetAtRejections
    PumpedSubsAreLive
    RoutesAgree
    NotesReachTheirSubscription
    GivenIdsStayTracked
