SPECIFICATION FairSpec
CONSTANTS
    Sessions = {A, B}
    A = A
    B = B
    Values = {v}
    v = v
    NoSession = NoSession
    Nothing = Nothing
    Wipe = Wipe
    Studio = FALSE
    Slots = {1}
    Stageable = {v, Wipe}
    Kinds = {"save", "sync", "close"}
    Messaging = TRUE
    MaxAttempts = 2
    MaxCalls = 1
    MaxFaults = 1
PROPERTIES
    ImplementsSessionLock
    LoadSettles
CHECK_DEADLOCK FALSE
