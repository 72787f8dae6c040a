SPECIFICATION FairSpec
CONSTANTS
    Entries = {hub, lobby}
    Narrow = {{hub}, {hub, lobby}}
    MaxMoves = 2
    MaxFaults = 1
    MaxQueue = 1
INVARIANT SettledIsShipped
PROPERTIES Follows InterruptEnds
CHECK_DEADLOCK FALSE
