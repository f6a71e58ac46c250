SPECIFICATION Spec
CONSTANTS
    Keys = {k1}
    v1 = v1
    v2 = v2
    Writes <- TwoWrites
    Callers = {c1, c2}
    MaxLate = 2
    MaxTime = 3
INVARIANTS
    LinesAddUp
PROPERTIES
    ImplementsStore
    CommandsEnd
    RecoveryIsNoticed
