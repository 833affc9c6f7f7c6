CONSTANTS
    NULL = NULL
    Databases <- MCDatabases
    DefaultIds = {"d1", "d2"}
    BatchSize = 1
    MaxLockAttempts = 2
    LiveIds = {"x1", "x2"}
    NewIds = {"n1", "n2"}
    MaxCrashes = 1
SPECIFICATION MigrationSpec
CHECK_DEADLOCK FALSE
INVARIANTS
    MigrationSound
    RowsPlaced
    Isolated
PROPERTIES
    MigrationEnds
