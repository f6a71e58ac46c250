CONSTANTS
    N = 2
    LagThreshold = 1
    MaxHeight = 3
    Word = 16
SPECIFICATION Spec
INVARIANTS
    RoutableNodesAreFresh
    HeadIsHeldByRoutableNode
    LagPassSparesANode
PROPERTIES
    NothingAfterDone
    CancelClosesDone
    RecoveredNodeReturns
