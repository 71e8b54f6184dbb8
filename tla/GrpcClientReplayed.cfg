CONSTANTS
    MaxEntries = 2
    PruneCount = 1
    Faults = {}
    MaxMishaps = 0
    MaxReports = 2
    Reports = {r1, r2}
SPECIFICATION ClientSpec
CHECK_DEADLOCK FALSE
PROPERTIES
    CachedIsReplayed
