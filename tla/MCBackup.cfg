CONSTANTS
    Jobs = {j1, j2}
    NoJob = NoJob
    Hourly = 1
    Daily = 1
    Monthly = 2
    MonthLen = 2
    MaxTime = 3
    MaxSeg = 4
    MaxFails = 1
    Schedules <- MCSchedules
SPECIFICATION Spec
SYMMETRY JobSymmetry
CHECK_DEADLOCK FALSE
INVARIANTS
    ShippedIsRecoverable
    RetentionSound
    RestoreReachesShipped
