SPECIFICATION Spec
CONSTANTS
    Interview = {i1}
    Interviewer = {p1, p2}
    Candidate = Candidate
    Job = {1, 2, 3, 4, 5, 6}
    Manager = {m1, m2}
    Grader = {g1}
    Lead = 0
    MaxClock = 1
    MaxRequests = 3
    MaxFaults = 1
    None = None
SYMMETRY Symmetry
CHECK_DEADLOCK FALSE
INVARIANTS
    RemindersRight
PROPERTIES
    EvaluationKept
