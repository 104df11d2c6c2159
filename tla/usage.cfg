SPECIFICATION Spec
CONSTANTS
    Ids = {1, 2}
    Logs <- MCLogs
    Offsets <- MCOffsets
    HOUR = 2
    DAY = 4
    HOURLY_RETENTION = 4
    DAILY_RETENTION = 12
    RECEIPT_RETENTION = 4
    MAX_CLOCK_SKEW = 1
    Precision = 1
    MaxCost = 9
    MAX_TOKENS_PER_REQUEST = 1
    MaxRows = 3
    Serial = TRUE
    Start = 13
    MaxTime = 26
    LastRequest = 14
    MaxFailures = 1
INVARIANTS
    ExactlyOnce
    BucketsAddUp
PROPERTIES
    MaintenanceInvisible
