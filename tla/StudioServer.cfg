SPECIFICATION FairServerSpec
CONSTANTS
    Runs = {e1, e2}
    MaxSockets = 2
    Persistent = TRUE
INVARIANTS StopReleases OwnResult MessagesSurvive
PROPERTY CallsEnd
CHECK_DEADLOCK FALSE
