SPECIFICATION Spec
CONSTANTS
    s1 = s1
    s2 = s2
    Set = {s1, s2}
    Worker = {w1, w2}
    None = None
    MaxAttempts = 3
    RetryMax = 2
    Faults <- MCFaults
CHECK_DEADLOCK FALSE
INVARIANTS
    RowsConsistent
PROPERTIES
    SettledIsFinal
    SettlesWithoutFaults
