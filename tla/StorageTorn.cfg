CONSTANTS
    MaxTx = 4
    MaxDiskFaults = 1
    CompactAt = 1
SPECIFICATION StorageLogSpec
INVARIANTS
    AcknowledgedSurvive
CHECK_DEADLOCK FALSE
