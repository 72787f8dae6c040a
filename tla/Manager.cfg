\* Two handles and the player's own store; every failure once.
SPECIFICATION FairSpec
CONSTANTS
    Callers = {p, h1, h2}
    Handles = {h1, h2}
    NoStore = NoStore
    Other = Other
    CallbacksThrow = TRUE
    MaxSaves = 1
    MaxFaults = 1
    p = p
    h1 = h1
    h2 = h2
INVARIANTS
    OneLiveStore
    NoSaveLeftBehind
PROPERTIES
    CloseEnds
CHECK_DEADLOCK FALSE
