CONSTANTS
    NULL = NULL
    INSTRUCTION <- MCInstruction
    Size <- MCSize
    MinResumeChars = 2
    MaxResumeChars = 12
    MaxExperienceYears = 50
    MaxTokens = 24
    Tolerance = 1
    Shuffled <- MCShuffled
    Databases <- MCDatabases
    MinPairs = 2
    MaxBuilds = 2
    MaxFaults = 1
SPECIFICATION Spec
CHECK_DEADLOCK FALSE
INVARIANTS
    NoLeak
    SplitsIndependent
    RightResume
    BuildAccountable
    
