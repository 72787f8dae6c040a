\* Three processes, two of which may crash or disconnect.
SPECIFICATION FairRolesSpec
CONSTANTS
    Procs = {A, B, C}
    A = A
    B = B
    C = C
    Nobody = Nobody
    StaleRetries = 1
    Attempts = 2
    Reconnects = 2
    MaxEnds = 2
INVARIANTS
    ReportsAreTrue
PROPERTIES
    HandOffEnds
    RejoinsHost
CHECK_DEADLOCK FALSE
