SPECIFICATION Spec
CONSTANTS
    Sessions = {A, B}
    A = A
    B = B
    Values = {v}
    v = v
    NoSession = NoSession
    Nothing = Nothing
    Wipe = Wipe
    Studio = FALSE
    Slots = {k1, k2}
    k1 = k1
    k2 = k2
    Stageable = {v, Wipe}
    Kinds = {"save", "close"}
    Messaging = FALSE
    MaxAttempts = 1
    MaxCalls = 3
    MaxFaults = 1
SYMMETRY SessionSymmetry
INVARIANTS
    NoOutdatedWrite
PROPERTIES
    OwnLockOnly
CHECK_DEADLOCK FALSE
