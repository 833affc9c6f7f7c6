SPECIFICATION Spec
CONSTANTS
    Resume = {r1}
    Req = {q1, q2}
    Worker = {w1}
    Pipeline = {"multi_agent", "linear"}
    Faults = {"redis", "storage", "crash"}
    None = None
SYMMETRY Symmetry
CHECK_DEADLOCK FALSE
INVARIANTS
    FilesErased
    ContentErased
