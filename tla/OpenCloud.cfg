SPECIFICATION FairSpec
CONSTANTS
    Callers = {"any", "runs"}
    Buckets <- Endpoints
    MaxConcurrency = 1
    MaxRetries = 2
    Kinds <- AnyOrTask
    MaxCdn = 2
    MaxLogs = 2
    MaxPolls = 1
    MaxPages = 2
    PageSize = 2
    ScanPages = 1
    Histories <- UpToFour
INVARIANTS SlotsKept NewestVersion
PROPERTY CallsEnd
CHECK_DEADLOCK FALSE
