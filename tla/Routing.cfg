CONSTANTS
    N = 2
    Annotation <- Mixed
    Callers = {c1, c2}
    c1 = c1
    c2 = c2
    Kinds = {"direct", "fetch", "dial"}
    Prefixes = {"debug_", "other"}
SPECIFICATION Spec
INVARIANTS
    RouteNilMeansNoneSteady
    NextNilMeansNoneSteady
    GivesUpAfterAll
PROPERTY CallsEnd
