CONSTANTS
    NULL = NULL
    NoCursor = NoCursor
    Positions <- MCPositions
    MAX_PAGE_SIZE = 2
    Candidates = {1, 2, 3}
    Resumes = {1, 2, 3}
    OwnerOf <- MCOwnerOf
    TextOf <- MCTextOf
    SplitWord <- MCSplitWord
    Processed = {1, 3}
    Uploads = {2}
    Editors = {2}
    Leavers = {3}
    Instances = {"api", "worker"}
    BatchSize = 2
    Searches <- MCSearches
    Applied = {1, 2, 3}
    ScoresOf <- MCScoresOf
    YearsOf <- MCYearsOf
    SkillsOf <- MCSkillsOf
    PageLimit = 1
SPECIFICATION Spec
CHECK_DEADLOCK FALSE
INVARIANTS
    RotationSafe
    SearchExact
    PagesSound
