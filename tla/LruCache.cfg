SPECIFICATION Spec
CONSTANTS
    Keys = {k1, k2, k3}
    v1 = v1
    v2 = v2
    Writes <- StayAndExpire
    Callers = {c1, c2}
    MaxEntries = 2
    MaxTime = 3
INVARIANTS
    MapMatchesList
PROPERTIES
    EntriesLeaveForAReason
    ImplementsStore
    ExpiredAreSwept
