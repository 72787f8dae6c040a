SPECIFICATION Spec
CONSTANTS
    hub = hub
    lobby = lobby
    trial = trial
    a = a
    Places = {hub, lobby, trial}
    TargetOf <- Target
    BaseOf <- Base
    Watched = {hub, lobby}
    FirstPins <- FirstOnes
    Edits <- Written
    WatchedTarget = "live"
    MaxMoves = 1
    MaxCommands = 3
    MaxFaults = 1
INVARIANTS OneVersion UpgradeHeals
PROPERTIES LockTells RegistersAll
CHECK_DEADLOCK FALSE
